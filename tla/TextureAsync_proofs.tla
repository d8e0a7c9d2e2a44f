------------------------ MODULE TextureAsync_proofs ------------------------
(***************************************************************************)
(* Theorems about TextureAsync, for every set of textures and decoders,    *)
(* every kind and load mode of the textures and every limit.               *)
(***************************************************************************)
EXTENDS TextureAsync, SequenceTheorems, TLAPS

-----------------------------------------------------------------------------
(* What the helpers on sequences return.                                   *)

LEMMA InsertAtProperties ==
    ASSUME NEW S, NEW s \in Seq(S), NEW i \in 1..(Len(s) + 1), NEW e \in S
    PROVE  /\ InsertAt(s, i, e) \in Seq(S)
           /\ Len(InsertAt(s, i, e)) = Len(s) + 1
           /\ \A k \in 1..(Len(s) + 1) :
                 InsertAt(s, i, e)[k] = IF k < i THEN s[k]
                                        ELSE IF k = i THEN e ELSE s[k - 1]
PROOF
<1> DEFINE front == SubSeq(s, 1, i - 1)
           back  == SubSeq(s, i, Len(s))
           head  == front \o <<e>>
<1>0. Len(s) \in Nat /\ i \in Int
  OBVIOUS
<1>1. /\ front \in Seq(S) /\ Len(front) = i - 1
      /\ \A k \in 1..(i - 1) : front[k] = s[k]
  BY <1>0, SubSeqProperties
<1>2. /\ back \in Seq(S) /\ Len(back) = Len(s) - i + 1
      /\ \A k \in 1..(Len(s) - i + 1) : back[k] = s[i + k - 1]
  BY <1>0, SubSeqProperties
<1>3. <<e>> \in Seq(S) /\ Len(<<e>>) = 1 /\ <<e>>[1] = e
  OBVIOUS
<1> HIDE DEF front, back
<1>4. /\ head \in Seq(S) /\ Len(head) = i
      /\ \A k \in 1..i : head[k] = IF k < i THEN s[k] ELSE e
  BY <1>0, <1>1, <1>3, ConcatProperties
<1> HIDE DEF head
<1>5. /\ head \o back \in Seq(S) /\ Len(head \o back) = Len(s) + 1
      /\ \A k \in 1..(Len(s) + 1) :
            (head \o back)[k] = IF k <= i THEN head[k] ELSE back[k - i]
  BY <1>0, <1>2, <1>4, ConcatProperties
<1>6. InsertAt(s, i, e) = head \o back
  BY DEF InsertAt, head, front, back
<1>7. QED
  BY <1>0, <1>2, <1>4, <1>5, <1>6

LEMMA RemoveAtProperties ==
    ASSUME NEW S, NEW s \in Seq(S), NEW i \in 1..Len(s)
    PROVE  /\ RemoveAt(s, i) \in Seq(S)
           /\ Len(RemoveAt(s, i)) = Len(s) - 1
           /\ \A k \in 1..(Len(s) - 1) :
                 RemoveAt(s, i)[k] = IF k < i THEN s[k] ELSE s[k + 1]
PROOF
<1> DEFINE front == SubSeq(s, 1, i - 1)
           back  == SubSeq(s, i + 1, Len(s))
<1>0. Len(s) \in Nat /\ i \in Int
  OBVIOUS
<1>1. /\ front \in Seq(S) /\ Len(front) = i - 1
      /\ \A k \in 1..(i - 1) : front[k] = s[k]
  BY <1>0, SubSeqProperties
<1>2. /\ back \in Seq(S) /\ Len(back) = Len(s) - i
      /\ \A k \in 1..(Len(s) - i) : back[k] = s[i + k]
  BY <1>0, SubSeqProperties
<1> HIDE DEF front, back
<1>3. /\ front \o back \in Seq(S) /\ Len(front \o back) = Len(s) - 1
      /\ \A k \in 1..(Len(s) - 1) :
            (front \o back)[k] = IF k < i THEN front[k] ELSE back[k - i + 1]
  BY <1>0, <1>1, <1>2, ConcatProperties, SMTT(60)
<1>4. RemoveAt(s, i) = front \o back
  BY DEF RemoveAt, front, back
<1>5. QED
  BY <1>0, <1>1, <1>2, <1>3, <1>4

(* Elements of a queue that never holds a texture twice.                   *)
Injective(s) == \A i, j \in 1..Len(s) : s[i] = s[j] => i = j

LEMMA IndexOfProperties ==
    ASSUME queue \in Seq(Textures), Injective(queue),
           NEW i \in 1..Len(queue)
    PROVE  IndexOf(queue[i]) = i
PROOF
<1> DEFINE I == {j \in 1..Len(queue) : queue[j] = queue[i]}
<1>1. I = {i}
  BY DEF Injective
<1>2. Min({i}) = i
  BY DEF Min
<1>3. QED
  BY <1>1, <1>2 DEF IndexOf, SelectInSeq

LEMMA MoveUpProperties ==
    ASSUME NEW S, queue \in Seq(S),
           NEW from \in 1..Len(queue), NEW to \in 1..from
    PROVE  /\ MoveUp(from, to) \in Seq(S)
           /\ Len(MoveUp(from, to)) = Len(queue)
           /\ \A k \in 1..Len(queue) :
                 MoveUp(from, to)[k] = IF k < to \/ k > from THEN queue[k]
                                       ELSE IF k = to THEN queue[from]
                                       ELSE queue[k - 1]
PROOF
<1> DEFINE rest == RemoveAt(queue, from)
<1>1. /\ rest \in Seq(S) /\ Len(rest) = Len(queue) - 1
      /\ \A k \in 1..(Len(queue) - 1) :
            rest[k] = IF k < from THEN queue[k] ELSE queue[k + 1]
  BY RemoveAtProperties
<1>2. queue[from] \in S /\ Len(queue) \in Nat /\ from \in Int /\ to \in Int
  OBVIOUS
<1> HIDE DEF rest
<1>3. to \in 1..(Len(rest) + 1) /\ Len(rest) + 1 = Len(queue)
  BY <1>1, <1>2
<1> DEFINE e     == queue[from]
           moved == InsertAt(rest, to, e)
<1>4. /\ moved \in Seq(S) /\ Len(moved) = Len(rest) + 1
      /\ \A k \in 1..(Len(rest) + 1) :
            moved[k] = IF k < to THEN rest[k]
                       ELSE IF k = to THEN e ELSE rest[k - 1]
  <2>1. rest \in Seq(S) /\ to \in 1..(Len(rest) + 1) /\ e \in S
    BY <1>1, <1>2, <1>3
  <2> HIDE DEF e
  <2>2. moved \in Seq(S)
    BY <2>1, InsertAtProperties
  <2>3. Len(moved) = Len(rest) + 1
    BY <2>1, InsertAtProperties
  <2>4. ASSUME NEW k \in 1..(Len(rest) + 1)
        PROVE  moved[k] = IF k < to THEN rest[k]
                          ELSE IF k = to THEN e ELSE rest[k - 1]
    BY <2>1, InsertAtProperties
  <2>5. QED
    BY <2>2, <2>3, <2>4
<1>5. MoveUp(from, to) = moved
  BY DEF MoveUp, rest
<1> HIDE DEF moved
<1>6. ASSUME NEW k \in 1..Len(queue)
      PROVE  moved[k] = IF k < to \/ k > from THEN queue[k]
                        ELSE IF k = to THEN queue[from] ELSE queue[k - 1]
  <2>1. CASE k < to
    <3>1. moved[k] = rest[k] /\ k \in 1..(Len(queue) - 1) /\ k < from
      BY <1>2, <1>3, <1>4, <2>1
    <3>2. QED
      BY <1>1, <2>1, <3>1
  <2>2. CASE k = to
    BY <1>2, <1>3, <1>4, <2>2
  <2>3. CASE k > to
    <3>1. moved[k] = rest[k - 1] /\ k - 1 \in 1..(Len(queue) - 1)
      BY <1>2, <1>3, <1>4, <2>3
    <3>2. rest[k - 1] = IF k - 1 < from THEN queue[k - 1] ELSE queue[k - 1 + 1]
      BY <1>1, <3>1
    <3>3. QED
      BY <1>2, <2>3, <3>1, <3>2
  <2>4. QED
    BY <1>2, <2>1, <2>2, <2>3
<1>7. QED
  BY <1>3, <1>4, <1>5, <1>6

-----------------------------------------------------------------------------
(* The queue and the streams.                                              *)

(* The streams belong to the first queued textures, none is queued twice.  *)
Paired(q, s) ==
    /\ q \in Seq(Textures) /\ s \in Seq(Textures)
    /\ Len(s) <= Len(q) /\ \A i \in 1..Len(s) : s[i] = q[i]
    /\ Injective(q)

(* The texture is queued and its file was not read yet.                    *)
Unread(q, s, t) == \E i \in (Len(s) + 1)..Len(q) : q[i] = t

LEMMA AppendPaired ==
    ASSUME NEW q, NEW s, Paired(q, s), NEW t \in Textures, ~Contains(q, t)
    PROVE  /\ Paired(Append(q, t), s)
           /\ \A u : Unread(q, s, u) => Unread(Append(q, t), s, u)
PROOF
<1>1. /\ q \in Seq(Textures) /\ Len(q) \in Nat
      /\ s \in Seq(Textures) /\ Len(s) \in Nat /\ Len(s) <= Len(q)
  BY DEF Paired
<1>2. /\ Append(q, t) \in Seq(Textures) /\ Len(Append(q, t)) = Len(q) + 1
      /\ \A i \in 1..Len(q) : Append(q, t)[i] = q[i]
      /\ Append(q, t)[Len(q) + 1] = t
  BY <1>1
<1> DEFINE longer == Append(q, t)
<1> HIDE DEF longer
<1>3. Injective(longer)
  BY <1>1, <1>2 DEF Injective, Contains, Paired, longer
<1>4. QED
  BY <1>1, <1>2, <1>3 DEF Paired, Unread, longer

(* Taking elements from different places of a queue without duplicates.    *)
LEMMA RearrangedInjective ==
    ASSUME NEW q, NEW r, Injective(q),
           NEW p \in [1..Len(r) -> 1..Len(q)],
           \A k \in 1..Len(r) : r[k] = q[p[k]],
           \A j, k \in 1..Len(r) : p[j] = p[k] => j = k
    PROVE  Injective(r)
BY DEF Injective

LEMMA MoveUpInjective ==
    ASSUME queue \in Seq(Textures), Injective(queue),
           NEW from \in 1..Len(queue), NEW to \in 1..from
    PROVE  Injective(MoveUp(from, to))
PROOF
<1> DEFINE r == MoveUp(from, to)
           p == [k \in 1..Len(queue) |-> IF k < to \/ k > from THEN k
                                         ELSE IF k = to THEN from ELSE k - 1]
<1>1. Len(queue) \in Nat /\ from \in Int /\ to \in Int
  OBVIOUS
<1>2. /\ Len(r) = Len(queue)
      /\ \A k \in 1..Len(queue) :
            r[k] = IF k < to \/ k > from THEN queue[k]
                   ELSE IF k = to THEN queue[from] ELSE queue[k - 1]
  BY MoveUpProperties
<1> HIDE DEF r
<1>3. /\ p \in [1..Len(r) -> 1..Len(queue)]
      /\ \A j, k \in 1..Len(r) : p[j] = p[k] => j = k
  BY <1>1, <1>2
<1>4. \A k \in 1..Len(r) : r[k] = queue[p[k]]
  BY <1>1, <1>2
<1> HIDE DEF p
<1>5. Injective(r)
  BY <1>3, <1>4, RearrangedInjective
<1>6. QED
  BY <1>5 DEF r

(* A texture moves up, to the first place without a stream or together     *)
(* with its stream to the front.                                           *)
LEMMA PrioritizedPaired ==
    ASSUME Paired(queue, streams), NEW index \in 1..Len(queue),
           Prioritized(index)
    PROVE  /\ Paired(queue', streams')
           /\ \A u : Unread(queue, streams, u) => Unread(queue', streams', u)
PROOF
<1>1. /\ queue \in Seq(Textures) /\ Len(queue) \in Nat
      /\ streams \in Seq(Textures) /\ Len(streams) \in Nat
      /\ Len(streams) <= Len(queue) /\ index \in Int
  BY DEF Paired
<1>2. CASE index > Len(streams)
  <2> DEFINE to == Len(streams) + 1
  <2>1. to \in 1..index
    BY <1>1, <1>2
  <2>2. queue' = MoveUp(index, to) /\ streams' = streams
    BY <1>2 DEF Prioritized
  <2>3. /\ queue' \in Seq(Textures) /\ Len(queue') = Len(queue)
        /\ \A k \in 1..Len(queue) :
              queue'[k] = IF k < to \/ k > index THEN queue[k]
                          ELSE IF k = to THEN queue[index] ELSE queue[k - 1]
    BY <1>1, <2>1, <2>2, MoveUpProperties, ZenonT(60)
  <2>4. Injective(queue')
    BY <1>1, <2>1, <2>2, MoveUpInjective DEF Paired
  <2>5. ASSUME NEW u, Unread(queue, streams, u)
        PROVE  Unread(queue', streams', u)
    <3>1. PICK i \in to..Len(queue) : queue[i] = u
      BY <2>5 DEF Unread
    <3>2. \E j \in to..Len(queue) : queue'[j] = u
      <4>1. CASE i < index
        BY <1>1, <2>1, <2>3, <3>1, <4>1, i + 1 \in to..Len(queue)
      <4>2. CASE i = index
        BY <1>1, <2>1, <2>3, <3>1, <4>2, to \in to..Len(queue)
      <4>3. CASE i > index
        BY <1>1, <2>1, <2>3, <3>1, <4>3
      <4>4. QED
        BY <1>1, <3>1, <4>1, <4>2, <4>3
    <3>3. QED
      BY <2>2, <2>3, <3>2 DEF Unread
  <2>6. QED
    BY <1>1, <2>1, <2>2, <2>3, <2>4, <2>5 DEF Paired
<1>3. CASE index <= Len(streams)
  <2> DEFINE rest == RemoveAt(streams, index)
  <2>1. queue' = MoveUp(index, 1) /\ streams' = <<streams[index]>> \o rest
    BY <1>1, <1>3 DEF Prioritized, Cons
  <2>2. /\ queue' \in Seq(Textures) /\ Len(queue') = Len(queue)
        /\ \A k \in 1..Len(queue) :
              queue'[k] = IF k > index THEN queue[k]
                          ELSE IF k = 1 THEN queue[index] ELSE queue[k - 1]
    <3>1. /\ queue' \in Seq(Textures) /\ Len(queue') = Len(queue)
          /\ \A k \in 1..Len(queue) :
                queue'[k] = IF k < 1 \/ k > index THEN queue[k]
                            ELSE IF k = 1 THEN queue[index] ELSE queue[k - 1]
      <4>1. 1 \in 1..index
        BY <1>1
      <4>2. /\ MoveUp(index, 1) \in Seq(Textures)
            /\ Len(MoveUp(index, 1)) = Len(queue)
        BY <1>1, <4>1, MoveUpProperties
      <4>3. \A k \in 1..Len(queue) :
               MoveUp(index, 1)[k] = IF k < 1 \/ k > index THEN queue[k]
                                     ELSE IF k = 1 THEN queue[index]
                                     ELSE queue[k - 1]
        BY <1>1, <4>1, MoveUpProperties, ZenonT(60)
      <4>4. QED
        BY <2>1, <4>2, <4>3
    <3>2. QED
      BY <1>1, <3>1
  <2>3. /\ rest \in Seq(Textures) /\ Len(rest) = Len(streams) - 1
        /\ \A k \in 1..(Len(streams) - 1) :
              rest[k] = IF k < index THEN streams[k] ELSE streams[k + 1]
    <3>1. index \in 1..Len(streams)
      BY <1>1, <1>3
    <3>2. rest \in Seq(Textures) /\ Len(rest) = Len(streams) - 1
      BY <1>1, <3>1, RemoveAtProperties
    <3>3. \A k \in 1..(Len(streams) - 1) :
             rest[k] = IF k < index THEN streams[k] ELSE streams[k + 1]
      BY <1>1, <3>1, RemoveAtProperties
    <3>4. QED
      BY <3>2, <3>3
  <2>4. <<streams[index]>> \in Seq(Textures) /\ Len(<<streams[index]>>) = 1
    BY <1>1, <1>3
  <2> HIDE DEF rest
  <2>5. /\ streams' \in Seq(Textures) /\ Len(streams') = Len(streams)
        /\ \A k \in 1..Len(streams) :
              streams'[k] = IF k = 1 THEN streams[index] ELSE rest[k - 1]
    BY <1>1, <2>1, <2>3, <2>4, ConcatProperties
  <2>6. ASSUME NEW k \in 1..Len(streams)
        PROVE  streams'[k] = queue'[k]
    <3>1. \A i \in 1..Len(streams) : streams[i] = queue[i]
      BY DEF Paired
    <3>2. CASE k = 1
      BY <1>1, <1>3, <2>2, <2>5, <3>1, <3>2
    <3>3. CASE k # 1
      <4>1. k - 1 \in 1..(Len(streams) - 1) /\ streams'[k] = rest[k - 1]
        BY <1>1, <2>5, <3>3
      <4>2. rest[k - 1] = IF k - 1 < index THEN streams[k - 1] ELSE streams[k]
        BY <1>1, <2>3, <4>1
      <4>3. queue'[k] = IF k > index THEN queue[k] ELSE queue[k - 1]
        BY <1>1, <2>2, <3>3
      <4>4. QED
        BY <1>1, <3>1, <3>3, <4>1, <4>2, <4>3
    <3>4. QED
      BY <3>2, <3>3
  <2>7. Injective(queue')
    BY <1>1, <1>3, <2>1, MoveUpInjective DEF Paired
  <2>8. ASSUME NEW u, Unread(queue, streams, u)
        PROVE  Unread(queue', streams', u)
    <3>1. PICK i \in (Len(streams) + 1)..Len(queue) : queue[i] = u
      BY <2>8 DEF Unread
    <3>2. queue'[i] = u /\ i \in (Len(streams') + 1)..Len(queue')
      BY <1>1, <1>3, <2>2, <2>5, <3>1
    <3>3. QED
      BY <3>2 DEF Unread
  <2>9. QED
    BY <1>1, <2>2, <2>5, <2>6, <2>7, <2>8 DEF Paired
<1>4. QED
  BY <1>1, <1>2, <1>3

(* The stream of a texture is put in the texture's place, or the texture   *)
(* is put in front of those whose files were not read yet.                 *)
LEMMA PlaceStreamPaired ==
    ASSUME Paired(queue, streams), NEW t, Unread(queue, streams, t),
           PlaceStream(t, IndexOf(t))
    PROVE  Paired(queue', streams')
PROOF
<1>1. /\ queue \in Seq(Textures) /\ Len(queue) \in Nat
      /\ streams \in Seq(Textures) /\ Len(streams) \in Nat
      /\ Len(streams) <= Len(queue) /\ Injective(queue)
  BY DEF Paired
<1> DEFINE to == Len(streams) + 1
<1>2. PICK i \in to..Len(queue) : queue[i] = t
  BY DEF Unread
<1>3. IndexOf(t) = i /\ i \in 1..Len(queue) /\ to \in 1..i /\ t \in Textures
  BY <1>1, <1>2, IndexOfProperties
<1>4. queue' = MoveUp(i, to) /\ streams' = Append(streams, t)
  BY <1>1, <1>2, <1>3 DEF PlaceStream
<1>5. /\ queue' \in Seq(Textures) /\ Len(queue') = Len(queue)
      /\ \A k \in 1..Len(queue) :
            queue'[k] = IF k < to \/ k > i THEN queue[k]
                        ELSE IF k = to THEN queue[i] ELSE queue[k - 1]
  <2> HIDE DEF to
  <2>1. MoveUp(i, to) \in Seq(Textures) /\ Len(MoveUp(i, to)) = Len(queue)
    BY <1>1, <1>3, MoveUpProperties
  <2>2. \A k \in 1..Len(queue) :
           MoveUp(i, to)[k] = IF k < to \/ k > i THEN queue[k]
                              ELSE IF k = to THEN queue[i] ELSE queue[k - 1]
    BY <1>1, <1>3, MoveUpProperties, ZenonT(60)
  <2>3. QED
    BY <1>4, <2>1, <2>2
<1>6. Injective(queue')
  BY <1>1, <1>3, <1>4, MoveUpInjective
<1>7. /\ streams' \in Seq(Textures) /\ Len(streams') = to
      /\ \A k \in 1..to :
            streams'[k] = IF k = to THEN t ELSE streams[k]
  BY <1>1, <1>3, <1>4
<1>8. ASSUME NEW k \in 1..to
      PROVE  streams'[k] = queue'[k]
  BY <1>1, <1>2, <1>3, <1>5, <1>7 DEF Paired
<1>9. QED
  BY <1>1, <1>3, <1>5, <1>6, <1>7, <1>8 DEF Paired

(* A texture whose file was not read leaves the queue.                     *)
LEMMA RemovePaired ==
    ASSUME Paired(queue, streams), NEW t, Unread(queue, streams, t)
    PROVE  Paired(RemoveAt(queue, IndexOf(t)), streams)
PROOF
<1>1. /\ queue \in Seq(Textures) /\ Len(queue) \in Nat
      /\ streams \in Seq(Textures) /\ Len(streams) \in Nat
      /\ Len(streams) <= Len(queue) /\ Injective(queue)
  BY DEF Paired
<1>2. PICK i \in (Len(streams) + 1)..Len(queue) : queue[i] = t
  BY DEF Unread
<1>3. IndexOf(t) = i /\ i \in 1..Len(queue)
  BY <1>1, <1>2, IndexOfProperties
<1> DEFINE rest == RemoveAt(queue, i)
           p == [k \in 1..(Len(queue) - 1) |-> IF k < i THEN k ELSE k + 1]
<1>4. /\ rest \in Seq(Textures) /\ Len(rest) = Len(queue) - 1
      /\ \A k \in 1..(Len(queue) - 1) :
            rest[k] = IF k < i THEN queue[k] ELSE queue[k + 1]
  BY <1>1, <1>3, RemoveAtProperties
<1> HIDE DEF rest
<1>5. /\ p \in [1..Len(rest) -> 1..Len(queue)]
      /\ \A j, k \in 1..Len(rest) : p[j] = p[k] => j = k
      /\ \A k \in 1..Len(rest) : rest[k] = queue[p[k]]
  BY <1>1, <1>3, <1>4
<1> HIDE DEF p
<1>6. Injective(rest)
  BY <1>1, <1>5, RearrangedInjective
<1>7. Paired(rest, streams)
  BY <1>1, <1>2, <1>4, <1>6 DEF Paired
<1>8. QED
  BY <1>3, <1>7 DEF rest

(* A decoder takes the heads of both queues.                               *)
LEMMA TailPaired ==
    ASSUME NEW q, NEW s, Paired(q, s), s # <<>>
    PROVE  /\ Paired(Tail(q), Tail(s)) /\ q # <<>>
           /\ Head(s) = Head(q) /\ Head(q) \in Textures
           /\ \A u : Unread(q, s, u) => Unread(Tail(q), Tail(s), u)
PROOF
<1>1. /\ q \in Seq(Textures) /\ Len(q) \in Nat
      /\ s \in Seq(Textures) /\ Len(s) \in Nat /\ Len(s) # 0
      /\ Len(s) <= Len(q) /\ Injective(q)
      /\ \A k \in 1..Len(s) : s[k] = q[k]
  BY DEF Paired
<1>2. q # <<>> /\ 1 \in 1..Len(q) /\ 1 \in 1..Len(s)
  BY <1>1
<1>3. Head(s) = Head(q) /\ Head(q) \in Textures
  BY <1>1, <1>2
<1> DEFINE tq == Tail(q)
           ts == Tail(s)
           p == [k \in 1..Len(tq) |-> k + 1]
<1>4. /\ tq \in Seq(Textures) /\ Len(tq) = Len(q) - 1
      /\ \A k \in 1..(Len(q) - 1) : tq[k] = q[k + 1]
  BY <1>1, <1>2, HeadTailProperties
<1>5. /\ ts \in Seq(Textures) /\ Len(ts) = Len(s) - 1
      /\ \A k \in 1..(Len(s) - 1) : ts[k] = s[k + 1]
  BY <1>1, HeadTailProperties
<1> HIDE DEF tq, ts
<1>6. /\ p \in [1..Len(tq) -> 1..Len(q)]
      /\ \A j, k \in 1..Len(tq) : p[j] = p[k] => j = k
      /\ \A k \in 1..Len(tq) : tq[k] = q[p[k]]
  BY <1>1, <1>4
<1> HIDE DEF p
<1>7. Injective(tq)
  BY <1>1, <1>6, RearrangedInjective
<1>8. Paired(tq, ts)
  BY <1>1, <1>4, <1>5, <1>7 DEF Paired
<1>9. ASSUME NEW u, Unread(q, s, u)
      PROVE  Unread(tq, ts, u)
  <2>1. PICK i \in (Len(s) + 1)..Len(q) : q[i] = u
    BY <1>9 DEF Unread
  <2>2. i - 1 \in (Len(ts) + 1)..Len(tq) /\ tq[i - 1] = u
    BY <1>1, <1>4, <1>5, <2>1
  <2>3. QED
    BY <2>2 DEF Unread
<1>10. QED
  BY <1>2, <1>3, <1>8, <1>9 DEF tq, ts

-----------------------------------------------------------------------------
(* The pairing of files and textures in the queues and in the decoders.    *)

(* While the reader works for a texture this has a place in the queue,     *)
(* behind those whose files were read.                                     *)
ReaderHasPlace ==
    reader \in {"prepare", "reading", "append", "cancel"} =>
        Unread(queue, streams, readerTex)

(* A decoder works on the file of the texture it works for.                *)
DecoderPaired ==
    \A d \in Decoders : decoder[d] \in Decoding =>
        decoderTex[d] \in Textures /\ decoderStream[d] = decoderTex[d]

(* The texture a call of the main thread is about, and its image.          *)
CallTarget ==
    /\ pc \in {"created", "load", "destroy"} => loading \in Textures
    /\ pc = "load" => current \in {loading, None}

(* Pairing, by the variables its parts are about: those of the queues and  *)
(* the threads, of the textures, and of the main thread.                   *)
LoaderPart  == /\ QueueTypes /\ ThreadTypes /\ Paired(queue, streams)
               /\ ReaderHasPlace /\ DecoderPaired
TexturePart == TextureTypes /\ OwnImage
CallPart    == MainTypes /\ CallTarget

Pairing == LoaderPart /\ TexturePart /\ CallPart

LEMMA PairingInit == Init => Pairing
PROOF
<1> SUFFICES ASSUME Init PROVE Pairing
  OBVIOUS
<1>1. Paired(queue, streams)
  BY DEF Init, Paired, Injective
<1>2. ReaderHasPlace /\ DecoderPaired
  BY DEF Init, ReaderHasPlace, DecoderPaired, Decoding
<1>3. LoaderPart
  <2>1. QueueTypes
    BY EmptySeq DEF Init, QueueTypes
  <2>2. ThreadTypes
    BY DEF Init, ThreadTypes, Image
  <2>3. QED
    BY <1>1, <1>2, <2>1, <2>2 DEF LoaderPart
<1>4. TexturePart
  BY ParametersAssumption DEF Init, TexturePart, TextureTypes, Image, OwnImage
<1>5. CallPart
  BY DEF Init, CallPart, MainTypes, Image, CallTarget
<1>6. QED
  BY <1>3, <1>4, <1>5 DEF Pairing

(* A step that leaves the variables of a part alone preserves it.          *)
LEMMA LoaderPartStutter ==
    LoaderPart /\ UNCHANGED <<queueVars, threadVars>> => LoaderPart'
BY DEF queueVars, threadVars, readerVars, decoderVars, LoaderPart, QueueTypes,
       ThreadTypes, ReaderHasPlace, DecoderPaired

LEMMA TexturePartStutter ==
    TexturePart /\ UNCHANGED <<flagVars, objectVars>> => TexturePart'
BY DEF flagVars, objectVars, TexturePart, TextureTypes, OwnImage

LEMMA CallPartStutter ==
    CallPart /\ UNCHANGED mainVars => CallPart'
BY DEF mainVars, callVars, waitVars, frameVars, CallPart, MainTypes, CallTarget

(* A texture that is queued has no place in the queue yet.                 *)
LEMMA LoadAsyncAcceptedPairing ==
    ASSUME LoaderPart, TexturePart, NEW t \in Textures, LoadAsyncAccepted(t)
    PROVE  LoaderPart' /\ TexturePart'
PROOF
<1>1. TexturePart'
  BY DEF LoadAsyncAccepted, TexturePart, TextureTypes, OwnImage, objectVars
<1>2. CASE UNCHANGED <<queueVars, readerVars>>
  BY <1>1, <1>2, LoaderPartStutter DEF LoadAsyncAccepted, threadVars
<1>3. CASE MayQueue(t) /\ QueueLoad(t)
  <2>1. /\ Paired(queue', streams')
        /\ \A u : Unread(queue, streams, u) => Unread(queue', streams', u)
    BY <1>3, AppendPaired DEF LoaderPart, MayQueue, QueueLoad
  <2>2. /\ reader' \in {reader, "check"} /\ readerRunning' = TRUE
        /\ UNCHANGED <<readerTex, running, size, decoderVars>>
    BY <1>3 DEF QueueLoad, LoadAsyncAccepted
  <2>3. QueueTypes' /\ ThreadTypes'
    BY <2>1, <2>2
       DEF LoaderPart, QueueTypes, ThreadTypes, Paired, decoderVars
  <2>4. ReaderHasPlace'
    BY <2>1, <2>2 DEF LoaderPart, ReaderHasPlace
  <2>5. DecoderPaired'
    BY <2>2 DEF LoaderPart, DecoderPaired, decoderVars
  <2>6. QED
    BY <1>1, <2>1, <2>3, <2>4, <2>5 DEF LoaderPart
<1>4. QED
  BY <1>2, <1>3 DEF LoadAsyncAccepted

LEMMA StartLoadPairing ==
    ASSUME Pairing, NEW t \in Textures, NEW from \in {"create", "user", "update"},
           StartLoad(t, from), todo' \subseteq Textures, uploads' \in Nat
    PROVE  Pairing'
PROOF
<1>1. LoaderPart'
  BY LoaderPartStutter DEF StartLoad, Pairing
<1>2. TexturePart'
  BY DEF StartLoad, Pairing, TexturePart, TextureTypes, OwnImage, objectVars
<1>3. CallPart'
  <2>1. data[t] \in {t, None} /\ dataAsync[t] \in {t, None} /\ t \in Image
    BY DEF Pairing, TexturePart, OwnImage, Image
  <2>2. None \in Image
    BY DEF Image
  <2>3. QED
    BY <2>1, <2>2 DEF StartLoad, Pairing, CallPart, MainTypes, CallTarget, waitVars
<1>4. QED
  BY <1>1, <1>2, <1>3 DEF Pairing

LEMMA DropTexturePairing ==
    ASSUME LoaderPart, TexturePart, NEW t \in Textures, DropTexture(t)
    PROVE  LoaderPart' /\ TexturePart'
PROOF
<1>1. LoaderPart'
  BY LoaderPartStutter DEF DropTexture
<1>2. TexturePart'
  BY ParametersAssumption
     DEF DropTexture, TexturePart, TextureTypes, OwnImage, Image
<1>3. QED
  BY <1>1, <1>2

LEMMA LoadReturnsPairing ==
    ASSUME Pairing, NEW result \in BOOLEAN, LoadReturns(result), pc = "load"
    PROVE  LoaderPart' /\ CallPart'
PROOF
<1>1. LoaderPart'
  BY LoaderPartStutter DEF LoadReturns, Pairing
<1>2. CallPart'
  BY DEF LoadReturns, Pairing, CallPart, MainTypes, CallTarget, Image,
         waitVars, frameVars
<1>3. QED
  BY <1>1, <1>2

LEMMA PairingAppCalls ==
    ASSUME Pairing, NEW t \in Textures, AppCalls(t)
    PROVE  Pairing'
PROOF
<1>1. CASE CreateTexture(t)
  <2>1. LoaderPart'
    BY <1>1, LoaderPartStutter DEF CreateTexture, Pairing
  <2>2. TexturePart'
    BY <1>1, ParametersAssumption
       DEF CreateTexture, Pairing, TexturePart, TextureTypes, OwnImage, Image
  <2>3. CallPart'
    BY <1>1 DEF CreateTexture, Pairing, CallPart, MainTypes, CallTarget, Image,
                waitVars, frameVars
  <2>4. QED
    BY <2>1, <2>2, <2>3 DEF Pairing
<1>2. CASE DestroyTexture(t) \/ WaitForAsyncLoad(t)
  <2>1. LoaderPart' /\ TexturePart'
    BY <1>2, LoaderPartStutter, TexturePartStutter
       DEF DestroyTexture, WaitForAsyncLoad, Call, Await, OnlyMain, Pairing
  <2>2. CallPart'
    BY <1>2 DEF DestroyTexture, WaitForAsyncLoad, Call, Await, OnlyMain,
                Pairing, CallPart, MainTypes, CallTarget, Image, waitVars, frameVars
  <2>3. QED
    BY <2>1, <2>2 DEF Pairing
<1>3. CASE Load(t)
  BY <1>3, StartLoadPairing
     DEF Load, frameVars, Pairing, CallPart, MainTypes
<1>4. CASE LoadAsync(t)
  BY <1>4, LoadAsyncAcceptedPairing, CallPartStutter DEF LoadAsync, Pairing
<1>5. CASE Unload(t) \/ LowMemoryUnload(t)
  BY <1>5, DropTexturePairing, CallPartStutter
     DEF Unload, LowMemoryUnload, Pairing
<1>6. CASE LoadMetaData(t)
  <2>1. LoaderPart' /\ CallPart'
    BY <1>6, LoaderPartStutter, CallPartStutter DEF LoadMetaData, Pairing
  <2>2. TexturePart'
    BY <1>6 DEF LoadMetaData, Pairing, TexturePart, TextureTypes, OwnImage,
                flagVars
  <2>3. QED
    BY <2>1, <2>2 DEF Pairing
<1>7. QED
  BY <1>1, <1>2, <1>3, <1>4, <1>5, <1>6 DEF AppCalls

LEMMA PairingMainContinues ==
    ASSUME Pairing, MainContinues
    PROVE  Pairing'
PROOF
<1> USE DEF Pairing
<1>1. ASSUME pc = "created", CreatedImmediate PROVE Pairing'
  BY <1>1, StartLoadPairing
     DEF CreatedImmediate, CallPart, CallTarget, MainTypes, frameVars
<1>2. CASE CreatedOnDemand \/ WaitAgain \/ DrainAgain
  <2>1. LoaderPart' /\ TexturePart'
    BY <1>2, LoaderPartStutter, TexturePartStutter
       DEF CreatedOnDemand, WaitAgain, DrainAgain, Goto, Call, OnlyMain
  <2>2. CallPart'
    BY <1>2 DEF CreatedOnDemand, WaitAgain, DrainAgain, Goto, Call, OnlyMain,
                CallPart, MainTypes, CallTarget, Image, waitVars, frameVars
  <2>3. QED
    BY <2>1, <2>2
<1>3. CASE WaitEnds \/ DrainEnds \/ ShutdownDrain
  <2>1. LoaderPart' /\ TexturePart'
    BY <1>3, LoaderPartStutter, TexturePartStutter
       DEF WaitEnds, DrainEnds, ShutdownDrain, Goto, Await, OnlyMain
  <2>2. CallPart'
    BY <1>3 DEF WaitEnds, DrainEnds, ShutdownDrain, Goto, Await, OnlyMain,
                CallPart, MainTypes, CallTarget, Image, waitVars, frameVars
  <2>3. QED
    BY <2>1, <2>2
<1>4. CASE CreatedAsync
  <2>1. loading \in Textures
    BY <1>4 DEF CreatedAsync, CallPart, CallTarget
  <2>2. LoaderPart' /\ TexturePart'
    BY <1>4, <2>1, LoadAsyncAcceptedPairing, LoaderPartStutter,
       TexturePartStutter
       DEF CreatedAsync
  <2>3. CallPart'
    BY <1>4 DEF CreatedAsync, CallPart, MainTypes, CallTarget, Image,
                waitVars, frameVars
  <2>4. QED
    BY <2>2, <2>3
<1>5. CASE DestroyUnload
  <2>1. LoaderPart' /\ TexturePart'
    BY <1>5, DropTexturePairing DEF DestroyUnload, CallPart, CallTarget
  <2>2. CallPart'
    BY <1>5 DEF DestroyUnload, CallPart, MainTypes, CallTarget, Image, frameVars
  <2>3. QED
    BY <2>1, <2>2
<1>6. CASE FreeTexture
  <2>1. LoaderPart'
    BY <1>6, LoaderPartStutter DEF FreeTexture
  <2>2. TexturePart'
    BY <1>6, ParametersAssumption
       DEF FreeTexture, TexturePart, TextureTypes, OwnImage, Image
  <2>3. CallPart'
    BY <1>6 DEF FreeTexture, CallPart, MainTypes, CallTarget, Image, frameVars
  <2>4. QED
    BY <2>1, <2>2, <2>3
<1>7. CASE LoadFileMissing
  <2>1. LoaderPart' /\ CallPart'
    BY <1>7, LoadReturnsPairing DEF LoadFileMissing
  <2>2. TexturePart'
    BY <1>7, TexturePartStutter
       DEF LoadFileMissing, LoadReturns, flagVars, objectVars
  <2>3. QED
    BY <2>1, <2>2
<1>8. CASE LoadUploadFails
  <2>1. LoaderPart' /\ CallPart' /\ loading \in Textures
    BY <1>8, LoadReturnsPairing DEF LoadUploadFails, CallPart, CallTarget
  <2>2. TexturePart'
    BY <1>8, <2>1
       DEF LoadUploadFails, LoadReturns, TexturePart, TextureTypes, OwnImage,
           Image
  <2>3. QED
    BY <2>1, <2>2
<1>9. CASE LoadUploads
  <2>1. LoaderPart' /\ CallPart'
    BY <1>9, LoadReturnsPairing DEF LoadUploads
  <2>2. loading \in Textures /\ current \in {loading, None}
    BY <1>9 DEF LoadUploads, CallPart, CallTarget
  <2> DEFINE image == CASE ReadsFile -> loading
                        [] current # None -> current
                        [] OTHER -> Blank
  <2>3. /\ gpu' = [gpu EXCEPT ![loading] = image]
        /\ data' = [data EXCEPT ![loading] =
                       IF Kind[loading] = "managed" THEN image ELSE @]
    BY <1>9 DEF LoadUploads
  <2>4. /\ image \in {loading, Blank}
        /\ image = Blank => Kind[loading] = "volatile"
    BY <2>2, ParametersAssumption DEF ReadsFile
  <2> HIDE DEF image
  <2>5. TexturePart'
    BY <1>9, <2>2, <2>3, <2>4, ParametersAssumption
       DEF LoadUploads, LoadReturns, TexturePart, TextureTypes, OwnImage, Image
  <2>6. QED
    BY <2>1, <2>5
<1>10. CASE PrioritizeLoad
  <2>1. TexturePart'
    BY <1>10, TexturePartStutter DEF PrioritizeLoad
  <2>2. CallPart'
    BY <1>10 DEF PrioritizeLoad, CallPart, MainTypes, CallTarget, waitVars,
                 frameVars
  <2>3. /\ Paired(queue', streams')
        /\ \A u : Unread(queue, streams, u) => Unread(queue', streams', u)
    <3>1. CASE Contains(queue, waitFor)
      <4>1. PICK i \in 1..Len(queue) : queue[i] = waitFor
        BY <3>1 DEF Contains
      <4>2. IndexOf(waitFor) = i
        BY <4>1, IndexOfProperties DEF LoaderPart, Paired
      <4>3. QED
        BY <1>10, <3>1, <4>2, PrioritizedPaired DEF PrioritizeLoad, LoaderPart
    <3>2. CASE ~Contains(queue, waitFor)
      BY <1>10, <3>2 DEF PrioritizeLoad, LoaderPart
    <3>3. QED
      BY <3>1, <3>2
  <2>4. UNCHANGED <<readerRunning, threadVars>>
    BY <1>10 DEF PrioritizeLoad
  <2>5. LoaderPart'
    BY <2>3, <2>4
       DEF LoaderPart, QueueTypes, ThreadTypes, ReaderHasPlace, DecoderPaired,
           Paired, threadVars, readerVars, decoderVars
  <2>6. QED
    BY <2>1, <2>2, <2>5
<1>11. CASE Update
  <2>1. TexturePart'
    BY <1>11, TexturePartStutter DEF Update
  <2>2. CallPart'
    BY <1>11 DEF Update, TexturePart, TextureTypes, CallPart, MainTypes,
                 CallTarget, waitVars
  <2>3. /\ readerRunning' \in BOOLEAN /\ reader' \in {reader, "check", "off"}
        /\ UNCHANGED <<queue, streams, readerTex, running, size, decoderVars>>
    BY <1>11 DEF Update, NeedsReader, LoaderPart, QueueTypes
  <2>4. LoaderPart'
    BY <2>3 DEF LoaderPart, QueueTypes, ThreadTypes, ReaderHasPlace,
                DecoderPaired, decoderVars
  <2>5. QED
    BY <2>1, <2>2, <2>4
<1>12. CASE UpdateEnds
  <2>1. LoaderPart' /\ TexturePart'
    BY <1>12, LoaderPartStutter, TexturePartStutter DEF UpdateEnds
  <2>2. CallPart'
    BY <1>12 DEF UpdateEnds, CallPart, MainTypes, CallTarget, waitVars
  <2>3. QED
    BY <2>1, <2>2
<1>13. ASSUME NEW t \in Textures, ShutdownDelete(t) \/ UpdateSkips(t)
       PROVE  Pairing'
  <2>1. LoaderPart' /\ TexturePart'
    BY <1>13, LoaderPartStutter, TexturePartStutter
       DEF ShutdownDelete, UpdateSkips, Call, OnlyMain
  <2>2. CallPart'
    BY <1>13 DEF ShutdownDelete, UpdateSkips, Call, OnlyMain, CallPart,
                 MainTypes, CallTarget, Image, callVars, waitVars, frameVars
  <2>3. QED
    BY <2>1, <2>2
<1>14. ASSUME NEW t \in Textures, UpdateUploads(t) PROVE Pairing'
  <2>1. todo' \subseteq Textures /\ uploads' \in Nat
    BY <1>14 DEF UpdateUploads, CallPart, MainTypes
  <2>2. QED
    BY <1>14, <2>1, StartLoadPairing DEF UpdateUploads
<1>15. QED
  BY <1>1, <1>2, <1>3, <1>4, <1>5, <1>6, <1>7, <1>8, <1>9, <1>10, <1>11,
     <1>12, <1>13, <1>14
     DEF MainContinues, CreatedImmediate

LEMMA PairingReader ==
    ASSUME Pairing, ReaderSteps
    PROVE  Pairing'
PROOF
<1>1. /\ TextureTypes' /\ OwnImage'
  BY DEF Pairing, TexturePart, TextureTypes, OwnImage, objectVars,
         ReaderSteps, ReaderPick, ReaderFull, ReaderIdles, ReaderCancels,
         ReaderReads, ReaderAppends, ReaderRemoves, ReaderSpawns, ReaderJoins,
         ReaderGoto, ClearFlags
<1>2. CallPart'
  BY CallPartStutter
     DEF Pairing, ReaderSteps, ReaderPick, ReaderFull, ReaderIdles,
         ReaderCancels, ReaderReads, ReaderAppends, ReaderRemoves,
         ReaderSpawns, ReaderJoins, ReaderGoto
<1>3. readerRunning' \in BOOLEAN
  BY DEF Pairing, LoaderPart, QueueTypes,
         ReaderSteps, ReaderPick, ReaderFull, ReaderIdles,
         ReaderCancels, ReaderReads, ReaderAppends, ReaderRemoves,
         ReaderSpawns, ReaderJoins, ReaderGoto
<1>4. LoaderPart'
  <2> USE <1>3 DEF Pairing, LoaderPart, QueueTypes, ThreadTypes,
          ReaderHasPlace, DecoderPaired, ReaderGoto, decoderVars
  <2>1. Len(streams) \in Nat /\ Len(queue) \in Nat
    OBVIOUS
  <2>2. CASE ReaderPick
    <3>1. Unread(queue', streams', readerTex') /\ readerTex' \in Textures
      BY <2>1, <2>2 DEF ReaderPick, Unread
    <3>2. QED
      BY <2>2, <3>1 DEF ReaderPick, Image
  <2>3. CASE ReaderFull \/ ReaderIdles
    BY <2>1, <2>3 DEF ReaderFull, ReaderIdles
  <2>4. CASE ReaderCancels \/ ReaderReads
    BY <2>4 DEF ReaderCancels, ReaderReads
  <2>5. CASE ReaderAppends
    <3>1. Paired(queue', streams')
      BY <2>5, PlaceStreamPaired DEF ReaderAppends
    <3>2. size' \in Nat
      BY <2>5, <3>1 DEF ReaderAppends, Paired
    <3>3. QED
      BY <2>5, <3>1, <3>2 DEF ReaderAppends, Paired, Image
  <2>6. CASE ReaderRemoves
    <3>1. Paired(queue', streams')
      BY <2>6, RemovePaired DEF ReaderRemoves
    <3>2. QED
      BY <2>1, <2>6, <3>1 DEF ReaderRemoves, Paired, Image
  <2>7. CASE ReaderSpawns
    <3>1. /\ decoder' \in [Decoders -> {"off", "take", "prepare", "decoding",
                                        "publish", "done"}]
          /\ \A d \in Decoders : decoder'[d] \in Decoding => decoder'[d] = decoder[d]
      BY <2>7 DEF ReaderSpawns, Decoding
    <3>2. running' \in BOOLEAN
      BY <2>7 DEF ReaderSpawns
    <3>3. QED
      BY <2>7, <3>1, <3>2 DEF ReaderSpawns
  <2>8. CASE ReaderJoins
    <3>1. /\ decoder' \in [Decoders -> {"off", "take", "prepare", "decoding",
                                        "publish", "done"}]
          /\ \A d \in Decoders : decoder'[d] \in Decoding => decoder'[d] = decoder[d]
      BY <2>8 DEF ReaderJoins, Decoding
    <3>2. QED
      BY <2>8, <3>1 DEF ReaderJoins
  <2>9. QED
    BY <2>2, <2>3, <2>4, <2>5, <2>6, <2>7, <2>8 DEF ReaderSteps
<1>5. QED
  BY <1>1, <1>2, <1>4 DEF Pairing, TexturePart

LEMMA PairingDecoder ==
    ASSUME Pairing, NEW d \in Decoders, DecoderSteps(d)
    PROVE  Pairing'
PROOF
<1> USE DEF Pairing
<1>1. CallPart'
  BY CallPartStutter
     DEF DecoderSteps, DecoderTakes, DecoderDone, DecoderGivesUp, DecoderStarts,
         DecoderDecodes, DecoderPublishes, DecoderNext, DecoderGoto
<1>2. TexturePart'
  <2> USE DEF TexturePart, TextureTypes, OwnImage, DecoderGoto, flagVars
  <2>1. CASE DecoderTakes(d) \/ DecoderDone(d) \/ DecoderStarts(d)
    BY <2>1 DEF DecoderTakes, DecoderDone, DecoderStarts
  <2>2. CASE DecoderGivesUp(d)
    BY <2>2 DEF DecoderGivesUp, DecoderNext, ClearFlags
  <2>3. CASE DecoderDecodes(d)
    BY <2>3 DEF DecoderDecodes, LoaderPart, DecoderPaired, Decoding, ThreadTypes
  <2>4. CASE DecoderPublishes(d)
    <3>1. decoderTex[d] \in Textures /\ decoderStream[d] = decoderTex[d]
      BY <2>4 DEF DecoderPublishes, LoaderPart, DecoderPaired, Decoding
    <3>2. QED
      BY <2>4, <3>1 DEF DecoderPublishes, DecoderNext, ClearFlags, Image
  <2>5. QED
    BY <2>1, <2>2, <2>3, <2>4 DEF DecoderSteps
<1>3. LoaderPart'
  <2> USE DEF LoaderPart, QueueTypes, ThreadTypes, ReaderHasPlace, DecoderPaired,
          DecoderGoto, readerVars
  <2>1. CASE DecoderTakes(d)
    <3>1. /\ Paired(queue', streams')
          /\ Head(streams) = Head(queue) /\ Head(queue) \in Textures
          /\ \A u : Unread(queue, streams, u) => Unread(queue', streams', u)
      BY <2>1, TailPaired DEF DecoderTakes
    <3>2. ThreadTypes'
      BY <2>1, <3>1 DEF DecoderTakes, DecoderHas, Image
    <3>3. DecoderPaired'
      BY <2>1, <3>1 DEF DecoderTakes, DecoderHas
    <3>4. QED
      BY <2>1, <3>1, <3>2, <3>3 DEF DecoderTakes, Paired
  <2>2. CASE DecoderDone(d)
    BY <2>2 DEF DecoderDone, Decoding
  <2>3. CASE DecoderGivesUp(d) \/ DecoderPublishes(d)
    BY <2>3 DEF DecoderGivesUp, DecoderPublishes, DecoderNext, DecoderHas,
                Image, Decoding
  <2>4. CASE DecoderStarts(d) \/ DecoderDecodes(d)
    BY <2>4 DEF DecoderStarts, DecoderDecodes, Decoding
  <2>5. QED
    BY <2>1, <2>2, <2>3, <2>4 DEF DecoderSteps
<1>4. QED
  BY <1>1, <1>2, <1>3

LEMMA PairingStep == Pairing /\ [Next]_vars => Pairing'
PROOF
<1> SUFFICES ASSUME Pairing, [Next]_vars PROVE Pairing'
  OBVIOUS
<1>1. CASE \E t \in Textures : AppCalls(t)
  BY <1>1, PairingAppCalls
<1>2. CASE WaitForAsyncTextures \/ Shutdown \/ Frame
  <2>1. LoaderPart' /\ TexturePart'
    BY <1>2, LoaderPartStutter, TexturePartStutter
       DEF WaitForAsyncTextures, Shutdown, Frame, Await, Goto, OnlyMain, Pairing
  <2>2. CallPart'
    BY <1>2 DEF WaitForAsyncTextures, Shutdown, Frame, Await, Goto, OnlyMain,
                Pairing, CallPart, MainTypes, CallTarget, Image, waitVars,
                frameVars
  <2>3. QED
    BY <2>1, <2>2 DEF Pairing
<1>3. CASE MainContinues
  BY <1>3, PairingMainContinues
<1>4. CASE ReaderSteps
  BY <1>4, PairingReader
<1>5. CASE \E d \in Decoders : DecoderSteps(d)
  BY <1>5, PairingDecoder
<1>6. CASE Terminated \/ UNCHANGED vars
  BY <1>6, LoaderPartStutter, TexturePartStutter, CallPartStutter
     DEF Terminated, vars, Pairing
<1>7. QED
  BY <1>1, <1>2, <1>3, <1>4, <1>5, <1>6 DEF Next

(* In every reachable state the types are as declared, the streams belong  *)
(* to the first queued textures, and so on.                                *)
THEOREM PairingInvariant == Spec => []Pairing
PROOF
<1>1. QED
  BY PairingInit, PairingStep, PTL DEF Spec

(* The variables keep their types.                                         *)
THEOREM TypeCorrect == Spec => []TypeOK
PROOF
<1>1. Pairing => TypeOK
  BY DEF Pairing, LoaderPart, TexturePart, CallPart, TypeOK
<1>2. QED
  BY <1>1, PairingInvariant, PTL

(* The reader and the decoders keep both queues paired: the streams are    *)
(* the contents of the first queued textures, in the order of the queue.   *)
THEOREM StreamsStayPaired == Spec => []StreamsFollowQueue
PROOF
<1>1. Pairing => StreamsFollowQueue
  BY DEF Pairing, LoaderPart, Paired, StreamsFollowQueue
<1>2. QED
  BY <1>1, PairingInvariant, PTL

(* No texture is ever handed the image of another one.                     *)
THEOREM ImagesStayOwn == Spec => []OwnImage
PROOF
<1>1. Pairing => OwnImage
  BY DEF Pairing, TexturePart
<1>2. QED
  BY <1>1, PairingInvariant, PTL
=============================================================================
