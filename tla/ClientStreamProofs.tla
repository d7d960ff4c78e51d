------------------------- MODULE ClientStreamProofs -------------------------
(***************************************************************************)
(* The framing of client.c keeps the two ends of the socket in step, and   *)
(* what put and get report is true, for files, chunks, frames and socket   *)
(* buffers of any size.                                                    *)
(***************************************************************************)
EXTENDS ClientStream, TLAPS, SequenceTheorems

-----------------------------------------------------------------------------
(* Streams: what is on its way to a reader, the rest of the frame being sent *)
(* included.                                                               *)

U == [kind : {"length", "payload"}, type : Types, size : Nat \ {0}]

\* A whole frame is in S behind its length unit at i.
FrameAt(S, i, type, size) ==
  /\ i + size <= Len(S) /\ (i + size < Len(S) => S[i + size + 1].kind = "length")
  /\ \A j \in (i + 1)..(i + size) :
       S[j].kind = "payload" /\ S[j].type = type /\ S[j].size = size

\* The stream S begins with the n payload units the reader still waits for, all of
\* one frame; whole frames follow.
Aligned(n, S) ==
  /\ n <= Len(S) /\ (n < Len(S) => S[n + 1].kind = "length")
  /\ \A i \in 1..n : S[i].kind = "payload" /\ S[i] = S[1]
  /\ \A i \in 1..Len(S) : S[i].kind = "length" => FrameAt(S, i, S[i].type, S[i].size)

\* A frame of this type has one payload unit and nothing comes after it.
LastFrame(S, type) ==
  \A i \in 1..Len(S) : S[i].type = type =>
    /\ S[i].size = 1
    /\ i = IF S[i].kind = "payload" THEN Len(S) ELSE Len(S) - 1

Has(S, type) == \E i \in 1..Len(S) : S[i].type = type
Within(S, types) == \A i \in 1..Len(S) : S[i].type \in types

\* The frames of this type that begin in S lead from a to b bytes.
Weight(unit, type) == IF unit.kind = "length" /\ unit.type = type THEN unit.size ELSE 0
Account(a, S, b, type) ==
  \E sum \in [0..Len(S) -> Nat] :
    /\ sum[0] = a /\ sum[Len(S)] = b
    /\ \A i \in 1..Len(S) : sum[i] = sum[i - 1] + Weight(S[i], type)

\* The bytes of the frame a reader is within.
Pending(n, S, type) == IF n > 0 /\ S[1].type = type THEN S[1].size ELSE 0

\* The units of a frame.
LEMMA FrameUnits ==
  ASSUME NEW type \in Types, NEW size \in Nat \ {0}
  PROVE  LET F == Frame(type, size) IN
         /\ F \in Seq(U) /\ Len(F) = size + 1
         /\ F[1].kind = "length" /\ F[1].type = type /\ F[1].size = size
         /\ \A j \in 2..(size + 1) :
              F[j].kind = "payload" /\ F[j].type = type /\ F[j].size = size
<1> DEFINE head == [kind |-> "length", type |-> type, size |-> size]
           unit == [kind |-> "payload", type |-> type, size |-> size]
           rest == [i \in 1..size |-> unit]
<1>1. /\ head \in U /\ head.kind = "length" /\ head.type = type /\ head.size = size
      /\ unit \in U /\ unit.kind = "payload" /\ unit.type = type /\ unit.size = size
  BY DEF U
<1>2. Frame(type, size) = <<head>> \o rest
  BY DEF Frame
<1> HIDE DEF head, unit
<1>3. rest \in Seq(U) /\ Len(rest) = size
  <2>1. rest \in [1..size -> U]
    BY <1>1
  <2>2. rest \in Seq(U)
    BY <2>1, SeqDef
  <2>3. DOMAIN rest = 1..Len(rest) /\ Len(rest) \in Nat /\ DOMAIN rest = 1..size
    BY <2>2, LenProperties
  <2> QED
    BY <2>2, <2>3
<1>4. <<head>> \in Seq(U) /\ Len(<<head>>) = 1 /\ <<head>>[1] = head
  BY <1>1
<1>5. \A i \in 1..size : rest[i] = unit
  OBVIOUS
<1> HIDE DEF rest
<1>6. /\ <<head>> \o rest \in Seq(U) /\ Len(<<head>> \o rest) = 1 + size
      /\ \A i \in 1..(1 + size) : (<<head>> \o rest)[i] =
                                    IF i <= 1 THEN <<head>>[i] ELSE rest[i - 1]
  BY <1>3, <1>4, ConcatProperties
<1>7. (<<head>> \o rest)[1] = head
  BY <1>4, <1>6
<1>8. \A j \in 2..(size + 1) : (<<head>> \o rest)[j] = unit
  BY <1>5, <1>6
<1> QED
  BY <1>1, <1>2, <1>6, <1>7, <1>8

\* A writer adds a frame to a stream.
LEMMA FrameAdded ==
  ASSUME NEW S \in Seq(U), NEW type \in Types, NEW size \in Nat \ {0}
  PROVE  LET T == S \o Frame(type, size)
             L == Len(S)
         IN /\ L \in Nat /\ T \in Seq(U) /\ Len(T) = L + (size + 1)
            /\ \A i \in 1..L : T[i] = S[i] /\ S[i] \in U
            /\ T[L + 1].kind = "length" /\ T[L + 1].type = type /\ T[L + 1].size = size
            /\ \A j \in (L + 2)..(L + (size + 1)) :
                 T[j].kind = "payload" /\ T[j].type = type /\ T[j].size = size
<1> DEFINE F == Frame(type, size)
           T == S \o F
           L == Len(S)
<1>1. /\ F \in Seq(U) /\ Len(F) = size + 1
      /\ F[1].kind = "length" /\ F[1].type = type /\ F[1].size = size
      /\ \A j \in 2..(size + 1) : F[j].kind = "payload" /\ F[j].type = type /\ F[j].size = size
  BY FrameUnits
<1> HIDE DEF F
<1>2. /\ T \in Seq(U) /\ Len(T) = Len(S) + Len(F)
      /\ \A i \in 1..(Len(S) + Len(F)) : T[i] = IF i <= Len(S) THEN S[i] ELSE F[i - Len(S)]
  <2>1. F \in Seq(U)
    BY <1>1
  <2> QED
    BY <2>1, ConcatProperties
<1> HIDE DEF T
<1>3. L \in Nat /\ \A i \in 1..L : S[i] \in U
  BY LenProperties, ElementOfSeq
<1>4. /\ Len(T) = L + (size + 1)
      /\ \A i \in 1..(L + (size + 1)) : T[i] = IF i <= L THEN S[i] ELSE F[i - L]
  BY <1>1, <1>2
<1> HIDE DEF L
<1>5. \A i \in 1..L : T[i] = S[i]
  BY <1>3, <1>4
<1>6. T[L + 1] = F[1]
  BY <1>3, <1>4
<1>7. ASSUME NEW j \in (L + 2)..(L + (size + 1))
      PROVE  T[j].kind = "payload" /\ T[j].type = type /\ T[j].size = size
  <2>1. j - L \in 2..(size + 1) /\ j \in 1..(L + (size + 1)) /\ ~(j <= L)
    BY <1>3
  <2> QED
    BY <1>1, <1>4, <2>1
<1>8. /\ L \in Nat /\ T \in Seq(U) /\ Len(T) = L + (size + 1)
      /\ \A i \in 1..L : T[i] = S[i] /\ S[i] \in U
      /\ T[L + 1].kind = "length" /\ T[L + 1].type = type /\ T[L + 1].size = size
      /\ \A j \in (L + 2)..(L + (size + 1)) :
           T[j].kind = "payload" /\ T[j].type = type /\ T[j].size = size
  BY <1>1, <1>2, <1>3, <1>4, <1>5, <1>6, <1>7
<1> QED
  BY <1>8 DEF T, F, L

\* A reader takes the first unit of a stream.
LEMMA TailOfStream ==
  ASSUME NEW s \in Seq(U), NEW t \in Seq(U), s # <<>>
  PROVE  /\ s \o t \in Seq(U) /\ s \o t # <<>> /\ Tail(s) \in Seq(U)
         /\ Head(s) = (s \o t)[1] /\ Head(s) \in U
         /\ Tail(s) \o t = Tail(s \o t)
<1>1. /\ Len(s) \in Nat \ {0} /\ Len(t) \in Nat /\ Head(s) = s[1] /\ Head(s) \in U
      /\ Tail(s) \in Seq(U) /\ Len(Tail(s)) = Len(s) - 1
      /\ \A i \in 1..Len(Tail(s)) : Tail(s)[i] = s[i + 1]
  BY EmptySeq, LenProperties, HeadTailProperties
<1>2. /\ s \o t \in Seq(U) /\ Len(s \o t) = Len(s) + Len(t)
      /\ \A i \in 1..(Len(s) + Len(t)) : (s \o t)[i] = IF i <= Len(s) THEN s[i]
                                                       ELSE t[i - Len(s)]
  BY ConcatProperties
<1>3. s \o t # <<>>
  BY <1>1, <1>2, EmptySeq
<1>4. /\ Tail(s \o t) \in Seq(U) /\ Len(Tail(s \o t)) = Len(s) + Len(t) - 1
      /\ \A i \in 1..Len(Tail(s \o t)) : Tail(s \o t)[i] = (s \o t)[i + 1]
  BY <1>2, <1>3, HeadTailProperties
<1>5. /\ Tail(s) \o t \in Seq(U) /\ Len(Tail(s) \o t) = Len(s) - 1 + Len(t)
      /\ \A i \in 1..(Len(s) - 1 + Len(t)) :
           (Tail(s) \o t)[i] = IF i <= Len(s) - 1 THEN Tail(s)[i] ELSE t[i - (Len(s) - 1)]
  BY <1>1, ConcatProperties
<1>6. \A i \in 1..Len(Tail(s) \o t) : (Tail(s) \o t)[i] = Tail(s \o t)[i]
  BY <1>1, <1>2, <1>4, <1>5
<1>7. Tail(s) \o t = Tail(s \o t)
  BY <1>1, <1>4, <1>5, <1>6, SeqEqual
<1> QED
  BY <1>1, <1>2, <1>3, <1>7

\* A writer that moves a unit into the socket does not change the stream.
LEMMA StreamKeptByWrite ==
  ASSUME NEW s \in Seq(U), NEW t \in Seq(U), t # <<>>
  PROVE  /\ Append(s, Head(t)) \in Seq(U) /\ Tail(t) \in Seq(U)
         /\ Append(s, Head(t)) \o Tail(t) = s \o t
<1> DEFINE a == Append(s, Head(t))
           r == Tail(t)
<1>1. /\ Len(t) \in Nat \ {0} /\ Len(s) \in Nat /\ Head(t) = t[1] /\ Head(t) \in U
      /\ r \in Seq(U) /\ Len(r) = Len(t) - 1
      /\ \A i \in 1..Len(r) : r[i] = t[i + 1]
  BY EmptySeq, LenProperties, HeadTailProperties
<1>2. /\ a \in Seq(U) /\ Len(a) = Len(s) + 1
      /\ \A i \in 1..Len(s) : a[i] = s[i]
      /\ a[Len(s) + 1] = t[1]
  BY <1>1, AppendProperties
<1> HIDE DEF a, r
<1>3. /\ s \o t \in Seq(U) /\ Len(s \o t) = Len(s) + Len(t)
      /\ \A i \in 1..(Len(s) + Len(t)) : (s \o t)[i] = IF i <= Len(s) THEN s[i]
                                                       ELSE t[i - Len(s)]
  BY ConcatProperties
<1>4. /\ a \o r \in Seq(U) /\ Len(a \o r) = Len(s) + Len(t)
      /\ \A i \in 1..(Len(s) + Len(t)) :
           (a \o r)[i] = IF i <= Len(s) + 1 THEN a[i] ELSE r[i - (Len(s) + 1)]
  <2>1. /\ a \o r \in Seq(U) /\ Len(a \o r) = Len(a) + Len(r)
        /\ \A i \in 1..(Len(a) + Len(r)) :
             (a \o r)[i] = IF i <= Len(a) THEN a[i] ELSE r[i - Len(a)]
    BY <1>1, <1>2, ConcatProperties
  <2>2. Len(a) + Len(r) = Len(s) + Len(t)
    BY <1>1, <1>2
  <2> QED
    BY <1>2, <2>1, <2>2
<1> DEFINE x == a \o r
           y == s \o t
<1>5. ASSUME NEW i \in 1..(Len(s) + Len(t)) PROVE x[i] = y[i]
  <2>1. CASE i <= Len(s)
    BY <1>1, <1>2, <1>3, <1>4, <2>1
  <2>2. CASE i = Len(s) + 1
    BY <1>1, <1>2, <1>3, <1>4, <2>2
  <2>3. CASE i > Len(s) + 1
    <3>1. i - (Len(s) + 1) \in 1..Len(r) /\ i - (Len(s) + 1) + 1 = i - Len(s)
      BY <1>1, <2>3
    <3>2. r[i - (Len(s) + 1)] = t[i - Len(s)]
      BY <1>1, <3>1
    <3> QED
      BY <1>1, <1>3, <1>4, <2>3, <3>2
  <2>4. Len(s) \in Nat /\ i \in Int
    BY <1>1
  <2> HIDE DEF x, y
  <2> QED
    BY <2>1, <2>2, <2>3, <2>4
<1>6. a \o r = s \o t
  BY <1>1, <1>3, <1>4, <1>5, SeqEqual
<1> QED
  BY <1>1, <1>2, <1>6 DEF a, r

\* What Tail does to a stream, as a fact about its units.
LEMMA Shift ==
  ASSUME NEW S \in Seq(U), S # <<>>
  PROVE  /\ Len(S) \in Nat \ {0} /\ Tail(S) \in Seq(U) /\ Len(Tail(S)) = Len(S) - 1
         /\ \A i \in 1..Len(S) : S[i] \in U
         /\ \A i \in 1..(Len(S) - 1) : Tail(S)[i] = S[i + 1]
<1>1. Len(S) \in Nat \ {0} /\ \A i \in 1..Len(S) : S[i] \in U
  BY EmptySeq, ElementOfSeq
<1> QED
  BY <1>1, HeadTailProperties

\* Frames are whole in what is left of a stream.
LEMMA FramesShift ==
  ASSUME NEW S \in Seq(U), S # <<>>,
         \A i \in 1..Len(S) : S[i].kind = "length" => FrameAt(S, i, S[i].type, S[i].size),
         NEW k \in 1..Len(Tail(S)), Tail(S)[k].kind = "length"
  PROVE  FrameAt(Tail(S), k, Tail(S)[k].type, Tail(S)[k].size)
<1> DEFINE T == Tail(S)
           z == T[k].size
           type == T[k].type
<1>1. /\ Len(S) \in Nat \ {0} /\ T \in Seq(U) /\ Len(T) = Len(S) - 1
      /\ \A i \in 1..Len(S) : S[i] \in U
      /\ \A i \in 1..(Len(S) - 1) : T[i] = S[i + 1]
  BY Shift
<1>2. k \in 1..(Len(S) - 1) /\ T[k].kind = "length"
  BY <1>1
<1> HIDE DEF T
<1>3. k \in Nat /\ k + 1 \in 1..Len(S) /\ T[k] = S[k + 1]
  BY <1>1, <1>2
<1>4. z \in Nat \ {0} /\ FrameAt(S, k + 1, type, z)
  BY <1>1, <1>2, <1>3 DEF U
<1> HIDE DEF z, type
<1>5. /\ k + 1 + z <= Len(S) /\ (k + 1 + z < Len(S) => S[k + 1 + z + 1].kind = "length")
      /\ \A j \in (k + 1 + 1)..(k + 1 + z) : S[j].kind = "payload" /\ S[j].type = type
                                               /\ S[j].size = z
  BY <1>4 DEF FrameAt
<1>6. k + z <= Len(T) /\ (k + z < Len(T) => T[k + z + 1].kind = "length")
  BY <1>1, <1>3, <1>4, <1>5
<1>7. \A j \in (k + 1)..(k + z) : j + 1 \in (k + 1 + 1)..(k + 1 + z) /\ T[j] = S[j + 1]
  BY <1>1, <1>3, <1>4, <1>5
<1>8. FrameAt(T, k, type, z)
  BY <1>5, <1>6, <1>7 DEF FrameAt
<1> QED
  BY <1>8 DEF T, z, type

\* Between frames the next unit is a length unit, and the frame it begins follows.
LEMMA AlignedLength ==
  ASSUME NEW S \in Seq(U), S # <<>>, Aligned(0, S)
  PROVE  /\ S[1].kind = "length" /\ S[1].size \in Nat \ {0}
         /\ Aligned(S[1].size, Tail(S))
         /\ Tail(S) # <<>> /\ Tail(S)[1].type = S[1].type /\ Tail(S)[1].size = S[1].size
<1> DEFINE T == Tail(S)
           n == S[1].size
<1>1. /\ Len(S) \in Nat \ {0} /\ T \in Seq(U) /\ Len(T) = Len(S) - 1
      /\ \A i \in 1..Len(S) : S[i] \in U
      /\ \A i \in 1..(Len(S) - 1) : T[i] = S[i + 1]
  BY Shift
<1> HIDE DEF T
<1>2. S[1].kind = "length"
  BY <1>1 DEF Aligned
<1>3. S[1] \in U /\ n \in Nat \ {0}
  BY <1>1 DEF U
<1>4. /\ 1 + n <= Len(S) /\ (1 + n < Len(S) => S[1 + n + 1].kind = "length")
      /\ \A j \in 2..(1 + n) : S[j].kind = "payload" /\ S[j].type = S[1].type /\ S[j].size = n
  <2>1. FrameAt(S, 1, S[1].type, n)
    BY <1>1, <1>2 DEF Aligned
  <2>2. 2..(1 + n) = (1 + 1)..(1 + n)
    OBVIOUS
  <2> QED
    BY <2>1, <2>2 DEF FrameAt
<1> HIDE DEF n
<1>5. \A i \in 1..n : i + 1 \in 2..(1 + n) /\ T[i] = S[i + 1] /\ S[i + 1] \in U
  BY <1>1, <1>3, <1>4
<1>6. \A i \in 1..n : T[i] = [kind |-> "payload", type |-> S[1].type, size |-> n]
  BY <1>4, <1>5 DEF U
<1>7. n <= Len(T) /\ (n < Len(T) => T[n + 1].kind = "length")
  <2>1. n < Len(T) => T[n + 1] = S[1 + n + 1]
    BY <1>1, <1>3
  <2> QED
    BY <1>1, <1>3, <1>4, <2>1
<1>8. \A i \in 1..n : T[i].kind = "payload" /\ T[i] = T[1]
  BY <1>3, <1>6
<1>9. \A i \in 1..Len(T) : T[i].kind = "length" => FrameAt(T, i, T[i].type, T[i].size)
  BY FramesShift DEF Aligned, T
<1>10. Aligned(n, T)
  BY <1>7, <1>8, <1>9 DEF Aligned
<1>11. T # <<>> /\ 1 \in 1..n
  BY <1>1, <1>3, <1>7
<1> QED
  BY <1>2, <1>3, <1>6, <1>10, <1>11 DEF T, n

\* Within a frame the next unit is one of its payload units.
LEMMA AlignedPayload ==
  ASSUME NEW S \in Seq(U), NEW n \in Nat \ {0}, Aligned(n, S)
  PROVE  /\ S # <<>> /\ S[1].kind = "payload" /\ Aligned(n - 1, Tail(S))
         /\ n > 1 => Tail(S) # <<>> /\ Tail(S)[1] = S[1]
<1> DEFINE T == Tail(S)
<1>1. S # <<>>
  <2>1. Len(S) \in Nat /\ n <= Len(S)
    BY LenProperties DEF Aligned
  <2> QED
    BY <2>1, EmptySeq
<1>2. /\ Len(S) \in Nat \ {0} /\ T \in Seq(U) /\ Len(T) = Len(S) - 1
      /\ \A i \in 1..Len(S) : S[i] \in U
      /\ \A i \in 1..(Len(S) - 1) : T[i] = S[i + 1]
  BY <1>1, Shift
<1> HIDE DEF T
<1>3. /\ n <= Len(S) /\ (n < Len(S) => S[n + 1].kind = "length")
      /\ \A i \in 1..n : S[i].kind = "payload" /\ S[i] = S[1]
  BY DEF Aligned
<1>4. n - 1 <= Len(T) /\ (n - 1 < Len(T) => T[n - 1 + 1].kind = "length")
  BY <1>2, <1>3
<1>5. ASSUME NEW i \in 1..(n - 1) PROVE T[i].kind = "payload" /\ T[i] = S[1]
  <2>1. i \in 1..(Len(S) - 1) /\ i + 1 \in 1..n
    BY <1>2, <1>3
  <2> QED
    BY <1>2, <1>3, <2>1
<1>6. \A i \in 1..(n - 1) : T[i] = T[1]
  BY <1>5
<1>7. \A i \in 1..Len(T) : T[i].kind = "length" => FrameAt(T, i, T[i].type, T[i].size)
  BY FramesShift DEF Aligned, T
<1>8. Aligned(n - 1, T)
  BY <1>4, <1>5, <1>6, <1>7 DEF Aligned
<1>9. n > 1 => T # <<>> /\ T[1] = S[1]
  BY <1>2, <1>3, <1>5
<1> QED
  BY <1>1, <1>3, <1>8, <1>9 DEF T

\* A stream of whole frames stays one when a frame is added.
LEMMA AlignedFrame ==
  ASSUME NEW S \in Seq(U), NEW n \in Nat, Aligned(n, S),
         NEW type \in Types, NEW size \in Nat \ {0}
  PROVE  Aligned(n, S \o Frame(type, size))
<1> DEFINE T == S \o Frame(type, size)
           L == Len(S)
<1>1. /\ L \in Nat /\ T \in Seq(U) /\ Len(T) = L + (size + 1)
      /\ \A i \in 1..L : T[i] = S[i] /\ S[i] \in U
      /\ T[L + 1].kind = "length" /\ T[L + 1].type = type /\ T[L + 1].size = size
      /\ \A j \in (L + 2)..(L + (size + 1)) :
           T[j].kind = "payload" /\ T[j].type = type /\ T[j].size = size
  <2>1. /\ L \in Nat /\ T \in Seq(U) /\ Len(T) = L + (size + 1)
        /\ \A i \in 1..L : T[i] = S[i] /\ S[i] \in U
    BY FrameAdded
  <2>2. /\ T[L + 1].kind = "length" /\ T[L + 1].type = type /\ T[L + 1].size = size
        /\ \A j \in (L + 2)..(L + (size + 1)) :
             T[j].kind = "payload" /\ T[j].type = type /\ T[j].size = size
    BY FrameAdded
  <2> HIDE DEF T, L
  <2> QED
    BY <2>1, <2>2
<1>2. /\ n <= L /\ (n < L => S[n + 1].kind = "length")
      /\ \A i \in 1..n : S[i].kind = "payload" /\ S[i] = S[1]
      /\ \A i \in 1..L : S[i].kind = "length" =>
           /\ i + S[i].size <= L /\ (i + S[i].size < L => S[i + S[i].size + 1].kind = "length")
           /\ \A j \in (i + 1)..(i + S[i].size) :
                S[j].kind = "payload" /\ S[j].type = S[i].type /\ S[j].size = S[i].size
  BY DEF Aligned, FrameAt
<1> HIDE DEF T, L
<1>3. n <= Len(T) /\ (n < Len(T) => T[n + 1].kind = "length")
  <2>1. CASE n < L
    BY <1>1, <1>2, <2>1
  <2>2. CASE n = L
    BY <1>1, <2>2
  <2> QED
    BY <1>1, <1>2, <2>1, <2>2
<1>4. \A i \in 1..n : T[i].kind = "payload" /\ T[i] = T[1]
  BY <1>1, <1>2
<1>5. ASSUME NEW i \in 1..L, S[i].kind = "length"
      PROVE  FrameAt(T, i, S[i].type, S[i].size)
  <2> DEFINE z == S[i].size
  <2>1. z \in Nat \ {0}
    BY <1>1 DEF U
  <2>2. /\ i + z <= L /\ (i + z < L => S[i + z + 1].kind = "length")
        /\ \A j \in (i + 1)..(i + z) :
             S[j].kind = "payload" /\ S[j].type = S[i].type /\ S[j].size = z
    BY <1>2, <1>5
  <2> HIDE DEF z
  <2>3. T[i + z + 1].kind = "length"
    <3>1. CASE i + z < L
      <4>1. i + z + 1 \in 1..L
        BY <1>1, <2>1, <3>1
      <4> QED
        BY <1>1, <2>2, <3>1, <4>1
    <3>2. CASE i + z = L
      BY <1>1, <3>2
    <3> QED
      BY <1>1, <2>1, <2>2, <3>1, <3>2
  <2>4. \A j \in (i + 1)..(i + z) : T[j] = S[j]
    BY <1>1, <2>1, <2>2
  <2>5. i + z <= Len(T)
    BY <1>1, <2>1, <2>2
  <2>6. FrameAt(T, i, S[i].type, z)
    BY <2>2, <2>3, <2>4, <2>5 DEF FrameAt
  <2> QED
    BY <2>6 DEF z
<1>6. FrameAt(T, L + 1, type, size)
  <2>1. L + 1 + size = Len(T) /\ (L + 1 + 1)..(L + 1 + size) = (L + 2)..(L + (size + 1))
    BY <1>1
  <2>2. L + 1 + size <= Len(T) /\ ~(L + 1 + size < Len(T))
    BY <1>1
  <2> QED
    BY <1>1, <2>1, <2>2 DEF FrameAt
<1>7. ASSUME NEW i \in 1..Len(T), T[i].kind = "length"
      PROVE  FrameAt(T, i, T[i].type, T[i].size)
  <2>1. CASE i <= L
    <3>1. i \in 1..L
      BY <1>1, <2>1
    <3> QED
      BY <1>1, <1>5, <1>7, <3>1
  <2>2. CASE i = L + 1
    BY <1>1, <1>6, <2>2
  <2>3. CASE i > L + 1
    <3>1. i \in (L + 2)..(L + (size + 1))
      BY <1>1, <2>3
    <3> QED
      BY <1>1, <1>7, <3>1
  <2> QED
    BY <1>1, <2>1, <2>2, <2>3
<1>8. Aligned(n, T)
  BY <1>3, <1>4, <1>7 DEF Aligned
<1> QED
  BY <1>8 DEF T

\* Reading moves the bytes of the first unit over.
LEMMA AccountTail ==
  ASSUME NEW S \in Seq(U), S # <<>>, NEW a \in Nat, NEW b \in Nat, NEW type,
         Account(a, S, b, type)
  PROVE  /\ Account(a + Weight(S[1], type), Tail(S), b, type)
         /\ Weight(S[1], type) \in Nat
<1>1. /\ Len(S) \in Nat \ {0} /\ Tail(S) \in Seq(U) /\ Len(Tail(S)) = Len(S) - 1
      /\ \A i \in 1..Len(S) : S[i] \in U
      /\ \A i \in 1..(Len(S) - 1) : Tail(S)[i] = S[i + 1]
  BY Shift
<1>2. PICK sum \in [0..Len(S) -> Nat] :
        /\ sum[0] = a /\ sum[Len(S)] = b
        /\ \A i \in 1..Len(S) : sum[i] = sum[i - 1] + Weight(S[i], type)
  BY DEF Account
<1> DEFINE rest == [i \in 0..(Len(S) - 1) |-> sum[i + 1]]
<1>3. rest \in [0..Len(Tail(S)) -> Nat]
  BY <1>1
<1>4. sum[1] = a + Weight(S[1], type)
  BY <1>1, <1>2
<1>5. rest[0] = a + Weight(S[1], type) /\ rest[Len(Tail(S))] = b
  BY <1>1, <1>2, <1>4
<1>6. ASSUME NEW i \in 1..Len(Tail(S))
      PROVE  rest[i] = rest[i - 1] + Weight(Tail(S)[i], type)
  <2>1. i \in 1..(Len(S) - 1) /\ i + 1 \in 1..Len(S) /\ i + 1 - 1 = i /\ i - 1 \in 0..(Len(S) - 1)
        /\ i - 1 + 1 = i
    BY <1>1
  <2>2. sum[i + 1] = sum[i] + Weight(S[i + 1], type)
    BY <1>2, <2>1
  <2>3. rest[i] = sum[i + 1] /\ rest[i - 1] = sum[i]
    BY <1>1, <2>1
  <2> QED
    BY <1>1, <2>1, <2>2, <2>3
<1> HIDE DEF rest
<1>7. Account(a + Weight(S[1], type), Tail(S), b, type)
  BY <1>3, <1>5, <1>6 DEF Account
<1>8. S[1] \in U
  BY <1>1
<1> QED
  BY <1>7, <1>8 DEF Weight, U

\* Nothing on its way: both ends have the same count.
LEMMA AccountEmpty ==
  ASSUME NEW a \in Nat, NEW b \in Nat, NEW type
  PROVE  Account(a, <<>>, b, type) <=> a = b
<1>1. Len(<<>>) = 0
  OBVIOUS
<1>2. Account(a, <<>>, b, type) => a = b
  BY <1>1 DEF Account
<1>3. ASSUME a = b PROVE Account(a, <<>>, b, type)
  <2> DEFINE sum == [i \in 0..0 |-> a]
  <2>1. sum \in [0..Len(<<>>) -> Nat] /\ sum[0] = a /\ sum[Len(<<>>)] = b
    BY <1>1, <1>3
  <2>2. \A i \in 1..Len(<<>>) : FALSE
    BY <1>1
  <2> HIDE DEF sum
  <2> QED
    BY <2>1, <2>2 DEF Account
<1> QED
  BY <1>2, <1>3

\* A frame adds its bytes at the writer's end.
LEMMA AccountFrame ==
  ASSUME NEW S \in Seq(U), NEW a \in Nat, NEW b \in Nat, NEW type,
         Account(a, S, b, type), NEW t \in Types, NEW size \in Nat \ {0}
  PROVE  Account(a, S \o Frame(t, size), b + (IF t = type THEN size ELSE 0), type)
<1> DEFINE T == S \o Frame(t, size)
           L == Len(S)
           more == IF t = type THEN size ELSE 0
<1>1. /\ L \in Nat /\ T \in Seq(U) /\ Len(T) = L + (size + 1)
      /\ \A i \in 1..L : T[i] = S[i]
      /\ T[L + 1].kind = "length" /\ T[L + 1].type = t /\ T[L + 1].size = size
      /\ \A j \in (L + 2)..(L + (size + 1)) : T[j].kind = "payload"
  BY FrameAdded
<1>2. PICK sum \in [0..L -> Nat] :
        /\ sum[0] = a /\ sum[L] = b
        /\ \A i \in 1..L : sum[i] = sum[i - 1] + Weight(S[i], type)
  BY DEF Account
<1> HIDE DEF T, L
<1>3. more \in Nat /\ Weight(T[L + 1], type) = more
  BY <1>1 DEF Weight
<1> HIDE DEF more
<1> DEFINE new == [i \in 0..Len(T) |-> IF i <= L THEN sum[i] ELSE b + more]
<1>4. new \in [0..Len(T) -> Nat] /\ new[0] = a /\ new[Len(T)] = b + more
  BY <1>1, <1>2, <1>3
<1>5. ASSUME NEW i \in 1..Len(T) PROVE new[i] = new[i - 1] + Weight(T[i], type)
  <2>1. i \in 0..Len(T) /\ i - 1 \in 0..Len(T)
    BY <1>1
  <2>2. CASE i <= L
    <3>1. i \in 1..L /\ i - 1 <= L /\ T[i] = S[i]
      BY <1>1, <2>2
    <3>2. new[i] = sum[i] /\ new[i - 1] = sum[i - 1]
      BY <2>1, <2>2, <3>1
    <3> QED
      BY <1>2, <3>1, <3>2
  <2>3. CASE i = L + 1
    <3>1. ~(i <= L) /\ i - 1 = L
      BY <1>1, <2>3
    <3>2. new[i] = b + more /\ new[i - 1] = b
      BY <1>1, <1>2, <2>1, <3>1
    <3> QED
      BY <1>3, <2>3, <3>2
  <2>4. CASE i > L + 1
    <3>1. ~(i <= L) /\ ~(i - 1 <= L) /\ i \in (L + 2)..(L + (size + 1))
      BY <1>1, <2>4
    <3>2. new[i] = b + more /\ new[i - 1] = b + more
      BY <2>1, <3>1
    <3>3. Weight(T[i], type) = 0
      BY <1>1, <3>1 DEF Weight
    <3> QED
      BY <1>3, <3>2, <3>3
  <2> QED
    BY <1>1, <2>2, <2>3, <2>4
<1> HIDE DEF new
<1>6. Account(a, T, b + more, type)
  BY <1>4, <1>5 DEF Account
<1> QED
  BY <1>6 DEF T, more

\* What is in a stream that has been read from was in it before, at the same distance
\* from its end.
LEMMA TailKeeps ==
  ASSUME NEW S \in Seq(U), S # <<>>, NEW type
  PROVE  /\ Has(S, S[1].type)
         /\ Has(Tail(S), type) => Has(S, type)
         /\ LastFrame(S, type) => LastFrame(Tail(S), type)
         /\ \A types : Within(S, types) => Within(Tail(S), types) /\ S[1].type \in types
         /\ LastFrame(S, S[1].type) /\ S[1].kind = "payload" => Tail(S) = <<>>
<1> DEFINE T == Tail(S)
           L == Len(S)
<1>1. /\ L \in Nat \ {0} /\ T \in Seq(U) /\ Len(T) = L - 1
      /\ \A i \in 1..(L - 1) : T[i] = S[i + 1]
  BY Shift
<1>2. T = <<>> <=> Len(T) = 0
  BY <1>1, EmptySeq
<1> HIDE DEF T
<1>3. Has(S, S[1].type)
  BY <1>1 DEF Has
<1>4. Has(T, type) => Has(S, type)
  <2> SUFFICES ASSUME NEW i \in 1..Len(T), T[i].type = type PROVE Has(S, type)
    BY DEF Has
  <2>1. i + 1 \in 1..L /\ S[i + 1].type = type
    BY <1>1
  <2> QED
    BY <2>1 DEF Has
<1>5. ASSUME LastFrame(S, type) PROVE LastFrame(T, type)
  <2> SUFFICES ASSUME NEW i \in 1..Len(T), T[i].type = type
               PROVE  /\ T[i].size = 1
                      /\ i = IF T[i].kind = "payload" THEN Len(T) ELSE Len(T) - 1
    BY DEF LastFrame
  <2>1. i + 1 \in 1..L /\ S[i + 1] = T[i] /\ i \in Int
    BY <1>1
  <2>2. /\ S[i + 1].size = 1
        /\ i + 1 = IF S[i + 1].kind = "payload" THEN L ELSE L - 1
    BY <1>5, <2>1 DEF LastFrame
  <2> HIDE DEF L
  <2> QED
    BY <1>1, <2>1, <2>2
<1>6. ASSUME NEW types, Within(S, types) PROVE Within(T, types) /\ S[1].type \in types
  BY <1>1, <1>6 DEF Within
<1>7. ASSUME LastFrame(S, S[1].type), S[1].kind = "payload" PROVE T = <<>>
  <2>1. 1 = L
    BY <1>1, <1>7 DEF LastFrame
  <2> QED
    BY <1>1, <1>2, <2>1
<1> QED
  BY <1>3, <1>4, <1>5, <1>6, <1>7 DEF T

\* What is in a stream that a frame is added to.
LEMMA FrameKeeps ==
  ASSUME NEW S \in Seq(U), NEW t \in Types, NEW size \in Nat \ {0}, NEW type
  PROVE  /\ Has(S \o Frame(t, size), type) => Has(S, type) \/ t = type
         /\ ~Has(S, type) /\ (t = type => size = 1) => LastFrame(S \o Frame(t, size), type)
         /\ \A types : Within(S, types) /\ t \in types => Within(S \o Frame(t, size), types)
<1> DEFINE T == S \o Frame(t, size)
           L == Len(S)
<1>1. /\ L \in Nat /\ Len(T) = L + (size + 1)
      /\ \A i \in 1..L : T[i] = S[i]
      /\ T[L + 1].kind = "length" /\ T[L + 1].type = t /\ T[L + 1].size = size
      /\ \A j \in (L + 2)..(L + (size + 1)) :
           T[j].kind = "payload" /\ T[j].type = t /\ T[j].size = size
  BY FrameAdded
<1> HIDE DEF T
<1>2. ASSUME NEW i \in 1..Len(T)
      PROVE  \/ i \in 1..L /\ T[i].type = S[i].type
             \/ /\ T[i].type = t /\ T[i].size = size
                /\ (i = L + 1 /\ T[i].kind = "length") \/ (i > L + 1 /\ T[i].kind = "payload")
  <2>1. CASE i <= L
    BY <1>1, <2>1
  <2>2. CASE i = L + 1
    BY <1>1, <2>2
  <2>3. CASE i > L + 1
    <3>1. i \in (L + 2)..(L + (size + 1))
      BY <1>1, <2>3
    <3> QED
      BY <1>1, <2>3, <3>1
  <2>4. L \in Nat /\ i \in Int
    BY <1>1
  <2> HIDE DEF L
  <2> QED
    BY <2>1, <2>2, <2>3, <2>4
<1>3. Has(T, type) => Has(S, type) \/ t = type
  BY <1>2 DEF Has
<1>4. ASSUME ~Has(S, type), t = type => size = 1 PROVE LastFrame(T, type)
  <2> SUFFICES ASSUME NEW i \in 1..Len(T), T[i].type = type
               PROVE  /\ T[i].size = 1
                      /\ i = IF T[i].kind = "payload" THEN Len(T) ELSE Len(T) - 1
    BY DEF LastFrame
  <2>1. ~(i \in 1..L /\ T[i].type = S[i].type)
    BY <1>4 DEF Has
  <2>2. /\ t = type /\ size = 1 /\ T[i].size = 1
        /\ (i = L + 1 /\ T[i].kind = "length") \/ (i > L + 1 /\ T[i].kind = "payload")
    BY <1>2, <1>4, <2>1
  <2> HIDE DEF L
  <2> QED
    BY <1>1, <2>2
<1>5. ASSUME NEW types, Within(S, types), t \in types PROVE Within(T, types)
  BY <1>2, <1>5 DEF Within
<1> QED
  BY <1>3, <1>4, <1>5 DEF T

\* The empty stream.
LEMMA EmptyStream ==
  /\ <<>> \in Seq(U)
  /\ \A n \in Nat : Aligned(n, <<>>) <=> n = 0
  /\ \A type : ~Has(<<>>, type) /\ LastFrame(<<>>, type)
  /\ \A types : Within(<<>>, types)
<1>1. Len(<<>>) = 0 /\ <<>> \in Seq(U)
  OBVIOUS
<1>2. \A i \in 1..Len(<<>>) : FALSE
  BY <1>1
<1>3. ASSUME NEW n \in Nat PROVE Aligned(n, <<>>) <=> n = 0
  <2>1. Aligned(n, <<>>) => n = 0
    BY <1>1 DEF Aligned
  <2>2. Aligned(0, <<>>)
    <3>1. \A i \in 1..0 : FALSE
      OBVIOUS
    <3> QED
      BY <1>1, <1>2, <3>1 DEF Aligned
  <2> QED
    BY <2>1, <2>2
<1>4. ASSUME NEW type PROVE ~Has(<<>>, type) /\ LastFrame(<<>>, type)
  BY <1>2 DEF Has, LastFrame
<1>5. ASSUME NEW types PROVE Within(<<>>, types)
  BY <1>2 DEF Within
<1> QED
  BY <1>1, <1>3, <1>4, <1>5

\* A reader that takes a length unit owes the bytes of the frame from then on.
LEMMA ReadsLength ==
  ASSUME NEW S \in Seq(U), S # <<>>, Aligned(0, S), NEW a \in Nat, NEW b \in Nat, NEW type,
         Account(a + Pending(0, S, type), S, b, type)
  PROVE  Account(a + Pending(S[1].size, Tail(S), type), Tail(S), b, type)
<1>1. Pending(0, S, type) = 0
  BY DEF Pending
<1>2. Account(a + Weight(S[1], type), Tail(S), b, type)
  BY <1>1, AccountTail
<1>3. Pending(S[1].size, Tail(S), type) = Weight(S[1], type)
  BY AlignedLength DEF Pending, Weight
<1> QED
  BY <1>2, <1>3

\* A payload unit within a frame changes nothing ...
LEMMA ReadsPayload ==
  ASSUME NEW S \in Seq(U), NEW n \in Nat, n > 1, Aligned(n, S), NEW a \in Nat, NEW b \in Nat,
         NEW type, Account(a + Pending(n, S, type), S, b, type)
  PROVE  Account(a + Pending(n - 1, Tail(S), type), Tail(S), b, type)
<1>1. S # <<>> /\ S[1].kind = "payload" /\ Tail(S)[1] = S[1] /\ n > 0 /\ n - 1 > 0
  BY AlignedPayload
<1>2. Pending(n - 1, Tail(S), type) = Pending(n, S, type) /\ Weight(S[1], type) = 0
  BY <1>1 DEF Pending, Weight
<1>3. Pending(n, S, type) \in Nat
  <2>1. S[1] \in U
    BY <1>1, Shift
  <2> QED
    BY <2>1 DEF U, Pending
<1>4. Account(a + Pending(n, S, type) + 0, Tail(S), b, type)
  BY <1>1, <1>2, <1>3, AccountTail
<1> QED
  BY <1>2, <1>3, <1>4

\* ... and the last one pays them.
LEMMA ReadsLast ==
  ASSUME NEW S \in Seq(U), Aligned(1, S), NEW a \in Nat, NEW b \in Nat,
         NEW type, Account(a + Pending(1, S, type), S, b, type)
  PROVE  Account(a + (IF S[1].type = type THEN S[1].size ELSE 0) + Pending(0, Tail(S), type),
                 Tail(S), b, type)
<1> DEFINE k == IF S[1].type = type THEN S[1].size ELSE 0
<1>1. S # <<>> /\ S[1].kind = "payload"
  BY AlignedPayload
<1>2. Pending(1, S, type) = k /\ Pending(0, Tail(S), type) = 0 /\ Weight(S[1], type) = 0
  BY <1>1 DEF Pending, Weight
<1>3. k \in Nat
  <2>1. S[1] \in U
    BY <1>1, Shift
  <2> QED
    BY <2>1 DEF U
<1> HIDE DEF k
<1>4. Account(a + k + 0, Tail(S), b, type)
  BY <1>1, <1>2, <1>3, AccountTail
<1>5. Account(a + k + Pending(0, Tail(S), type), Tail(S), b, type)
  BY <1>2, <1>4
<1> QED
  BY <1>5 DEF k

\* A writer that adds a frame counts its bytes.
LEMMA Writes ==
  ASSUME NEW S \in Seq(U), NEW n \in Nat, Aligned(n, S), NEW a \in Nat, NEW b \in Nat,
         NEW type, Account(a + Pending(n, S, type), S, b, type),
         NEW t \in Types, NEW size \in Nat \ {0}
  PROVE  Account(a + Pending(n, S \o Frame(t, size), type), S \o Frame(t, size),
                 b + (IF t = type THEN size ELSE 0), type)
<1> DEFINE T == S \o Frame(t, size)
<1>1. Pending(n, T, type) = Pending(n, S, type) /\ Pending(n, S, type) \in Nat
  <2>1. CASE n > 0
    <3>1. Len(S) \in Nat /\ n <= Len(S)
      BY LenProperties DEF Aligned
    <3>2. 1 \in 1..Len(S)
      BY <2>1, <3>1
    <3>3. T[1] = S[1] /\ S[1] \in U
      BY <3>2, FrameAdded
    <3> HIDE DEF T
    <3> QED
      BY <2>1, <3>3 DEF Pending, U
  <2>2. CASE ~(n > 0)
    BY <2>2 DEF Pending
  <2> QED
    BY <2>1, <2>2
<1>2. Account(a + Pending(n, S, type), T, b + (IF t = type THEN size ELSE 0), type)
  BY <1>1, AccountFrame
<1> QED
  BY <1>1, <1>2

-----------------------------------------------------------------------------
(* The invariant. *)

ToServer == c2s \o out
ToClient == s2c \o server.out

Shape ==
  /\ command \in {"put", "get"} /\ pc \in {"start", "data", "end", "receive", "done"}
  /\ out \in Seq(U) /\ c2s \in Seq(U) /\ s2c \in Seq(U)
  /\ need \in Nat /\ bytes \in Nat /\ skipped \in Nat
  /\ ended \in BOOLEAN /\ short_write \in BOOLEAN
  /\ server \in [state : {"open", "accepted", "rejected", "finished", "gone"},
                 need : Nat, bytes : Nat, out : Seq(U), stored : BOOLEAN, rejected : BOOLEAN]

\* What the client has still to say.
RequestStream ==
  /\ Aligned(server.need, ToServer)
  /\ command = "put" => Within(ToServer, {"PUT_START", "PUT_DATA", "PUT_END"})
  /\ command = "get" => Within(ToServer, {"GET_REQUEST"})
  /\ LastFrame(ToServer, "PUT_END") /\ LastFrame(ToServer, "GET_REQUEST")
  /\ Has(ToServer, "PUT_END") => pc \in {"end", "receive", "done"}
  /\ command = "get" /\ ToServer # <<>> => server.state \in {"open", "gone"}

Upload ==
  /\ command = "put" /\ server.state \notin {"rejected", "gone"} =>
       Account(server.bytes + Pending(server.need, ToServer, "PUT_DATA"), ToServer, bytes,
               "PUT_DATA")
  /\ server.stored => /\ command = "put" /\ server.state \in {"finished", "gone"}
                      /\ ToServer = <<>> /\ server.bytes = bytes
                      /\ pc \in {"end", "receive", "done"}
  /\ command = "put" /\ server.state = "finished" => server.stored

\* What the daemon has still to say, until the command returns.
ReplyStream ==
  /\ server.state = "open" \/ (command = "put" /\ server.state = "accepted") =>
       ToClient = <<>>
  /\ pc # "done" => Aligned(need, ToClient)
  /\ Has(ToClient, "PUT_RESPONSE") => server.stored
  /\ LastFrame(ToClient, "GET_END")
  /\ Has(ToClient, "GET_END") =>
       server.bytes = FileSize /\ server.state \in {"finished", "gone"}

\* The bytes of content get is done with: written, or in a frame that did not decode.
Taken == bytes + skipped

Download ==
  command = "get" /\ pc # "done" /\ ~short_write =>
    Account(Taken + Pending(need, ToClient, "GET_DATA"), ToClient, server.bytes, "GET_DATA")

Progress ==
  /\ command = "get" => pc \in {"start", "receive", "done"}
  /\ command = "put" /\ pc \in {"end", "receive"} => ended \/ bytes = FileSize
  /\ pc # "done" => exit = "none"
  /\ command = "put" /\ exit = "0" => server.stored /\ (ended \/ bytes = FileSize)
  /\ GetSuccessMeansComplete

IInv == Shape /\ RequestStream /\ Upload /\ ReplyStream /\ Download /\ Progress

\* The two ends of the client's stream, and of the daemon's.
LEMMA Streams ==
  ASSUME Shape
  PROVE  /\ ToServer \in Seq(U) /\ ToClient \in Seq(U)
         /\ c2s # <<>> => ToServer # <<>> /\ Head(c2s) = ToServer[1]
         /\ s2c # <<>> => ToClient # <<>> /\ Head(s2c) = ToClient[1]
         /\ out = <<>> => ToServer = c2s
         /\ server.out = <<>> => ToClient = s2c
         /\ ToClient = <<>> => s2c = <<>> /\ server.out = <<>>
<1>1. out \in Seq(U) /\ c2s \in Seq(U) /\ s2c \in Seq(U) /\ server.out \in Seq(U)
  BY DEF Shape
<1>2. ToServer \in Seq(U) /\ ToClient \in Seq(U)
  BY <1>1, ConcatProperties DEF ToServer, ToClient
<1>3. c2s # <<>> => ToServer # <<>> /\ Head(c2s) = ToServer[1]
  BY <1>1, TailOfStream DEF ToServer
<1>4. s2c # <<>> => ToClient # <<>> /\ Head(s2c) = ToClient[1]
  BY <1>1, TailOfStream DEF ToClient
<1>5. out = <<>> => ToServer = c2s
  BY <1>1, ConcatEmptySeq DEF ToServer
<1>6. server.out = <<>> => ToClient = s2c
  BY <1>1, ConcatEmptySeq DEF ToClient
<1>7. ToClient = <<>> => s2c = <<>> /\ server.out = <<>>
  <2>1. ASSUME ToClient = <<>>, s2c = <<>> PROVE server.out = <<>>
    BY <1>1, <2>1, ConcatEmptySeq DEF ToClient
  <2> QED
    BY <1>4, <2>1
<1> QED
  BY <1>2, <1>3, <1>4, <1>5, <1>6, <1>7

\* A step that leaves the client's stream and its reader alone keeps what is known
\* of the upload, whether or not the daemon dies.
LEMMA UploadKept ==
  ASSUME RequestStream, Upload, ToServer' = ToServer, command' = command,
         command = "put" => bytes' = bytes /\ server'.bytes = server.bytes,
         server'.need = server.need, server'.stored = server.stored,
         server'.state = server.state \/ server'.state = "gone",
         pc \in {"end", "receive", "done"} => pc' \in {"end", "receive", "done"}
  PROVE  RequestStream' /\ Upload'
<1>1. RequestStream'
  BY DEF RequestStream
<1>2. Upload'
  BY DEF Upload
<1> QED
  BY <1>1, <1>2

\* A step that leaves the daemon's stream and its reader alone keeps what is known
\* of the reply.
LEMMA ReplyKept ==
  ASSUME ReplyStream, Download, ToClient' = ToClient, command' = command, need' = need,
         short_write' = short_write, skipped' = skipped, command = "get" => bytes' = bytes,
         server'.bytes = server.bytes, server'.stored = server.stored,
         server'.state = server.state \/ server'.state = "gone",
         pc = "done" => pc' = "done"
  PROVE  ReplyStream' /\ Download'
<1>1. ReplyStream'
  BY DEF ReplyStream
<1>2. Download'
  BY DEF Download, Taken
<1> QED
  BY <1>1, <1>2

\* The first request is on its way, and no reply.
LEMMA InitIInv == Init => IInv
<1> SUFFICES ASSUME Init PROVE IInv
  OBVIOUS
<1> DEFINE t == IF command = "put" THEN "PUT_START" ELSE "GET_REQUEST"
<1>1. t \in Types /\ 1 \in Nat \ {0} /\ command \in {"put", "get"}
  BY DEF Init, Types
<1>2. Frame(t, 1) \in Seq(U)
  BY <1>1, FrameUnits
<1>3. Shape
  BY <1>2, EmptyStream DEF Init, Shape
<1>4. ToServer = <<>> \o Frame(t, 1) /\ ToClient = <<>>
  <2>1. ToClient = <<>> \o <<>>
    BY DEF Init, ToClient
  <2> QED
    BY <2>1, EmptyStream, ConcatEmptySeq DEF Init, ToServer
<1> HIDE DEF t
<1>5. /\ Aligned(0, ToServer)
      /\ \A type : Has(ToServer, type) => type = t
      /\ \A type : LastFrame(ToServer, type)
      /\ \A types : t \in types => Within(ToServer, types)
  <2>1. <<>> \in Seq(U) /\ Aligned(0, <<>>)
    BY EmptyStream
  <2>2. Aligned(0, ToServer)
    BY <1>1, <1>4, <2>1, AlignedFrame
  <2>3. ASSUME NEW type
        PROVE  (Has(ToServer, type) => type = t) /\ LastFrame(ToServer, type)
    BY <1>1, <1>4, <2>1, EmptyStream, FrameKeeps
  <2>4. ASSUME NEW types, t \in types PROVE Within(ToServer, types)
    BY <1>1, <1>4, <2>1, <2>4, EmptyStream, FrameKeeps
  <2> QED
    BY <2>2, <2>3, <2>4
<1>6. Account(0 + Pending(0, ToServer, "PUT_DATA"), ToServer, 0, "PUT_DATA")
  <2>1. Pending(0, <<>>, "PUT_DATA") = 0 /\ t # "PUT_DATA"
    BY DEF Pending, t
  <2>2. Account(0 + Pending(0, <<>>, "PUT_DATA"), <<>>, 0, "PUT_DATA")
    BY <2>1, AccountEmpty
  <2>3. Account(0 + Pending(0, ToServer, "PUT_DATA"), ToServer, 0 + 0, "PUT_DATA")
    BY <1>1, <1>4, <2>1, <2>2, EmptyStream, Writes
  <2> QED
    BY <2>3
<1>7. RequestStream
  BY <1>1, <1>5 DEF Init, RequestStream, t
<1>8. Upload
  BY <1>6 DEF Init, Upload
<1>9. ReplyStream
  BY <1>4, EmptyStream DEF Init, ReplyStream
<1>10. Download
  <2>1. Pending(0, ToClient, "GET_DATA") = 0
    BY DEF Pending
  <2>2. Account(0 + Pending(0, ToClient, "GET_DATA"), ToClient, 0, "GET_DATA")
    BY <1>4, <2>1, AccountEmpty
  <2>3. Taken = 0 /\ need = 0 /\ server.bytes = 0
    BY DEF Init, Taken
  <2> QED
    BY <2>2, <2>3 DEF Download
<1>11. Progress
  BY DEF Init, Progress, GetSuccessMeansComplete
<1> QED
  BY <1>3, <1>7, <1>8, <1>9, <1>10, <1>11 DEF IInv

\* _send_all moves a unit and the stream stays the same.
LEMMA SendUnitIInv ==
  ASSUME IInv, SendUnit
  PROVE  IInv'
<1>1. /\ out \in Seq(U) /\ c2s \in Seq(U) /\ out # <<>>
      /\ c2s' = Append(c2s, Head(out)) /\ out' = Tail(out)
      /\ UNCHANGED <<command, pc, need, bytes, ended, skipped, short_write, exit, s2c, server>>
  BY DEF IInv, Shape, SendUnit, Sending, Continue, output
<1>2. c2s' \in Seq(U) /\ out' \in Seq(U) /\ ToServer' = ToServer
  BY <1>1, StreamKeptByWrite DEF ToServer
<1>3. ToClient' = ToClient
  BY <1>1 DEF ToClient
<1>4. Shape'
  BY <1>1, <1>2 DEF IInv, Shape
<1>5. RequestStream' /\ Upload'
  BY <1>1, <1>2, UploadKept DEF IInv
<1>6. ReplyStream' /\ Download'
  BY <1>1, <1>3, ReplyKept DEF IInv
<1>7. Progress'
  <2>1. Upload /\ Progress
    BY DEF IInv
  <2> QED
    BY <1>1, <2>1 DEF Progress, GetSuccessMeansComplete
<1> QED
  BY <1>4, <1>5, <1>6, <1>7 DEF IInv

\* The command waits, gives up, finds the connection gone, or goes on to its next state.
LEMMA WaitsIInv ==
  ASSUME IInv, Retry \/ ConnectionLost \/ RequestSent \/ EndSent
  PROVE  IInv'
<1>1. /\ UNCHANGED <<command, out, need, bytes, ended, skipped, short_write, c2s, s2c, server>>
      /\ pc # "done"
      /\ \/ pc' = pc /\ exit' = exit
         \/ pc' = "done" /\ exit' = "1"
         \/ exit' = exit /\ pc = "start" /\ pc' = IF command = "put" THEN "data" ELSE "receive"
         \/ exit' = exit /\ pc = "end" /\ pc' = "receive"
  <2>1. CASE Retry
    BY <2>1 DEF Retry, Sending, Receiving, Return, Continue, output
  <2>2. CASE ConnectionLost
    BY <2>2 DEF ConnectionLost, Sending, Receiving, Return, output
  <2>3. CASE RequestSent
    BY <2>3 DEF RequestSent, output
  <2>4. CASE EndSent
    BY <2>4 DEF EndSent, output
  <2> QED
    BY <2>1, <2>2, <2>3, <2>4
<1>2. ToServer' = ToServer /\ ToClient' = ToClient
  BY <1>1 DEF ToServer, ToClient
<1>3. Shape'
  BY <1>1 DEF IInv, Shape
<1>4. RequestStream' /\ Upload'
  BY <1>1, <1>2, UploadKept DEF IInv
<1>5. ReplyStream' /\ Download'
  BY <1>1, <1>2, ReplyKept DEF IInv
<1>6. Progress'
  <2>1. Progress /\ command \in {"put", "get"}
    BY DEF IInv, Shape
  <2> QED
    BY <1>1, <2>1 DEF Progress, GetSuccessMeansComplete
<1> QED
  BY <1>3, <1>4, <1>5, <1>6 DEF IInv

\* put adds a frame to its stream: a chunk, or the end.
LEMMA PutAddsFrame ==
  ASSUME IInv, pc = "data", out = <<>>, UNCHANGED <<command, c2s, server>>,
         NEW t \in {"PUT_DATA", "PUT_END"}, NEW size \in Nat \ {0}, out' = Frame(t, size),
         t = "PUT_DATA" => bytes' = bytes + size,
         t = "PUT_END" => size = 1 /\ bytes' = bytes /\ pc' = "end"
  PROVE  /\ command = "put" /\ ~server.stored
         /\ out' \in Seq(U) /\ RequestStream' /\ Upload'
<1>1. Shape /\ RequestStream /\ Upload /\ Progress
  BY DEF IInv
<1>2. /\ command = "put" /\ bytes \in Nat /\ server.bytes \in Nat /\ server.need \in Nat
      /\ t \in Types /\ ~server.stored
  BY <1>1 DEF Shape, Progress, Upload, Types
<1>3. out' \in Seq(U)
  BY <1>2, FrameUnits
<1>4. ToServer \in Seq(U) /\ ToServer' = ToServer \o Frame(t, size)
  <2>1. ToServer \in Seq(U) /\ ToServer = c2s
    BY <1>1, Streams
  <2> QED
    BY <2>1 DEF ToServer
<1>5. /\ ~Has(ToServer, "PUT_END") /\ ~Has(ToServer, "GET_REQUEST")
      /\ Aligned(server.need, ToServer)
      /\ Within(ToServer, {"PUT_START", "PUT_DATA", "PUT_END"})
  BY <1>1, <1>2 DEF RequestStream, Has, Within
<1>6. Aligned(server.need, ToServer')
  BY <1>2, <1>4, <1>5, AlignedFrame
<1>7. Within(ToServer', {"PUT_START", "PUT_DATA", "PUT_END"})
  BY <1>2, <1>4, <1>5, FrameKeeps
<1>8. LastFrame(ToServer', "PUT_END") /\ LastFrame(ToServer', "GET_REQUEST")
  BY <1>2, <1>4, <1>5, FrameKeeps
<1>9. Has(ToServer', "PUT_END") => t = "PUT_END"
  BY <1>2, <1>4, <1>5, FrameKeeps
<1>10. RequestStream'
  BY <1>2, <1>6, <1>7, <1>8, <1>9 DEF RequestStream
<1>11. Upload'
  <2>1. ASSUME server.state \notin {"rejected", "gone"}
        PROVE  Account(server.bytes + Pending(server.need, ToServer', "PUT_DATA"), ToServer',
                       bytes', "PUT_DATA")
    <3> DEFINE more == IF t = "PUT_DATA" THEN size ELSE 0
    <3>1. Account(server.bytes + Pending(server.need, ToServer, "PUT_DATA"), ToServer, bytes,
                  "PUT_DATA")
      BY <1>1, <1>2, <2>1 DEF Upload
    <3>2. bytes' = bytes + more
      BY <1>2
    <3>3. Account(server.bytes + Pending(server.need, ToServer', "PUT_DATA"), ToServer',
                  bytes + more, "PUT_DATA")
      BY <1>2, <1>4, <1>5, <3>1, Writes
    <3> QED
      BY <3>2, <3>3
  <2>2. server.state # "finished"
    BY <1>1, <1>2 DEF Upload
  <2> QED
    BY <1>2, <2>1, <2>2 DEF Upload
<1> QED
  BY <1>2, <1>3, <1>10, <1>11

\* put reads the file: a chunk, an error, or its end.
LEMMA ReadFileIInv ==
  ASSUME IInv, ReadChunk \/ ReadStops \/ SendEnd
  PROVE  IInv'
<1>1. /\ pc = "data" /\ out = <<>>
      /\ UNCHANGED <<command, need, skipped, short_write, c2s, s2c, server>>
      /\ \/ \E n \in 1..(FileSize - bytes) :
              /\ out' = Frame("PUT_DATA", n) /\ bytes' = bytes + n /\ pc' = pc /\ exit' = exit
              /\ ended' \in BOOLEAN
         \/ /\ out' = out /\ bytes' = bytes /\ pc' = "done" /\ exit' = "1" /\ ended' = ended
         \/ /\ out' = Frame("PUT_END", 1) /\ bytes' = bytes /\ pc' = "end" /\ exit' = exit
            /\ ended' = TRUE \/ (ended' = ended /\ bytes = FileSize)
  <2>1. CASE ReadChunk
    <3> DEFINE left == FileSize - bytes
               to_read == IF left > ChunkSize THEN ChunkSize ELSE left
    <3>1. PICK n \in 1..to_read : /\ out' = Frame("PUT_DATA", n) /\ bytes' = bytes + n
                                  /\ ended' = (ended \/ n < to_read)
      BY <2>1 DEF ReadChunk
    <3>2. FileSize \in Nat /\ ChunkSize \in Nat /\ bytes \in Nat
      BY StreamAssumption DEF IInv, Shape
    <3>3. n \in 1..(FileSize - bytes)
      BY <3>2
    <3>4. ended' \in BOOLEAN
      BY <3>1
    <3>5. /\ pc = "data" /\ out = <<>> /\ pc' = pc /\ exit' = exit
          /\ UNCHANGED <<command, need, skipped, short_write, c2s, s2c, server>>
      BY <2>1 DEF ReadChunk, Continue, output
    <3> HIDE DEF to_read
    <3> QED
      BY <3>1, <3>3, <3>4, <3>5
  <2>2. CASE ReadStops
    BY <2>2 DEF ReadStops, Return, output
  <2>3. CASE SendEnd
    BY <2>3 DEF SendEnd, output
  <2> QED
    BY <2>1, <2>2, <2>3
<1>2. Shape /\ RequestStream /\ Upload /\ ReplyStream /\ Download /\ Progress
  BY DEF IInv
<1>3. command = "put" /\ bytes \in Nat /\ FileSize \in Nat
  BY <1>1, <1>2, StreamAssumption DEF Shape, Progress
<1>4. ToClient' = ToClient
  BY <1>1 DEF ToClient
<1>5. ReplyStream' /\ Download'
  BY <1>1, <1>2, <1>3, <1>4, ReplyKept
<1>6. CASE \E n \in 1..(FileSize - bytes) :
              /\ out' = Frame("PUT_DATA", n) /\ bytes' = bytes + n /\ pc' = pc /\ exit' = exit
              /\ ended' \in BOOLEAN
  <2>1. PICK n \in 1..(FileSize - bytes) :
              /\ out' = Frame("PUT_DATA", n) /\ bytes' = bytes + n /\ pc' = pc /\ exit' = exit
              /\ ended' \in BOOLEAN
    BY <1>6
  <2>2. n \in Nat \ {0} /\ bytes' \in Nat
    BY <1>3, <2>1
  <2>3. ~server.stored /\ out' \in Seq(U) /\ RequestStream' /\ Upload'
    BY <1>1, <2>1, <2>2, PutAddsFrame
  <2>4. Shape'
    BY <1>1, <1>2, <2>1, <2>2, <2>3 DEF Shape
  <2>5. Progress'
    BY <1>1, <1>2, <1>3, <2>1 DEF Progress, GetSuccessMeansComplete
  <2> QED
    BY <1>5, <2>3, <2>4, <2>5 DEF IInv
<1>7. CASE out' = out /\ bytes' = bytes /\ pc' = "done" /\ exit' = "1" /\ ended' = ended
  <2>1. ToServer' = ToServer
    BY <1>1, <1>7 DEF ToServer
  <2>2. RequestStream' /\ Upload'
    BY <1>1, <1>2, <1>7, <2>1, UploadKept
  <2>3. Shape'
    BY <1>1, <1>2, <1>7 DEF Shape
  <2>4. Progress'
    BY <1>1, <1>2, <1>3, <1>7 DEF Progress, GetSuccessMeansComplete
  <2> QED
    BY <1>5, <2>2, <2>3, <2>4 DEF IInv
<1>8. CASE /\ out' = Frame("PUT_END", 1) /\ bytes' = bytes /\ pc' = "end" /\ exit' = exit
           /\ ended' = TRUE \/ (ended' = ended /\ bytes = FileSize)
  <2>1. ~server.stored /\ out' \in Seq(U) /\ RequestStream' /\ Upload'
    BY <1>1, <1>8, PutAddsFrame
  <2>2. Shape'
    BY <1>1, <1>2, <1>8, <2>1 DEF Shape
  <2>3. Progress'
    BY <1>1, <1>2, <1>3, <1>8 DEF Progress, GetSuccessMeansComplete
  <2> QED
    BY <1>5, <2>1, <2>2, <2>3 DEF IInv
<1> QED
  BY <1>1, <1>6, <1>7, <1>8

\* What a received unit does to the counters of the command.
Received(unit) ==
  \/ /\ pc' = "done" /\ exit' = "1" /\ need' \in Nat /\ bytes' = bytes /\ ended' = ended
     /\ skipped' = skipped /\ short_write' = short_write
  \/ /\ need = 0 /\ need' = unit.size
     /\ UNCHANGED <<pc, exit, bytes, ended, skipped, short_write>>
  \/ /\ need > 1 /\ need' = need - 1
     /\ UNCHANGED <<pc, exit, bytes, ended, skipped, short_write>>
  \/ /\ need = 1 /\ need' = 0 /\ command = "put" /\ unit.type = "PUT_RESPONSE"
     /\ pc' = "done" /\ exit' = "0" /\ UNCHANGED <<bytes, ended, skipped, short_write>>
  \/ /\ need = 1 /\ need' = 0 /\ command = "get" /\ unit.type = "GET_START"
     /\ ended' = TRUE /\ UNCHANGED <<pc, exit, bytes, skipped, short_write>>
  \/ /\ need = 1 /\ need' = 0 /\ command = "get" /\ unit.type = "GET_DATA"
     /\ \/ bytes' = bytes + unit.size /\ UNCHANGED <<skipped, short_write>>
        \/ short_write' = TRUE /\ UNCHANGED <<bytes, skipped>>
        \/ skipped' = skipped + unit.size /\ UNCHANGED <<bytes, short_write>>
     /\ UNCHANGED <<pc, exit, ended>>
  \/ /\ need = 1 /\ need' = 0 /\ command = "get" /\ unit.type = "GET_END" /\ short_write = FALSE
     /\ pc' = "done" /\ exit' = "0" /\ UNCHANGED <<bytes, ended, skipped, short_write>>

\* The cases of a received unit.
LEMMA ReceiveCases ==
  ASSUME Shape, ReceiveUnit
  PROVE  /\ pc = "receive" /\ s2c # <<>> /\ s2c' = Tail(s2c)
         /\ UNCHANGED <<command, out, c2s, server>>
         /\ Received(Head(s2c))
<1> DEFINE unit == Head(s2c)
<1>1. /\ pc = "receive" /\ s2c # <<>> /\ s2c' = Tail(s2c)
      /\ UNCHANGED <<command, out, c2s, server>>
      /\ need \in Nat /\ command \in {"put", "get"} /\ short_write \in BOOLEAN
  BY DEF ReceiveUnit, Receiving, Shape
<1>2. \/ /\ need = 0
         /\ Return("1", "receive") /\ UNCHANGED <<need, bytes, ended, skipped, short_write>>
      \/ /\ need = 0 /\ need' = unit.size /\ Continue
         /\ UNCHANGED <<bytes, ended, skipped, short_write>>
      \/ /\ need > 1 /\ need' = need - 1 /\ Continue
         /\ UNCHANGED <<bytes, ended, skipped, short_write>>
      \/ /\ need = 1 /\ need' = 0
         /\ Return("1", "receive") /\ UNCHANGED <<bytes, ended, skipped, short_write>>
      \/ /\ need = 1 /\ need' = 0
         /\ IF command = "put" THEN PutHandles(unit.type, unit.size)
                               ELSE GetHandles(unit.type, unit.size)
  BY DEF ReceiveUnit, output
<1> HIDE DEF unit
<1>3. ASSUME need = 1, need' = 0, command = "put", PutHandles(unit.type, unit.size)
      PROVE  Received(unit)
  BY <1>3 DEF PutHandles, Return, Received, output
<1>4. ASSUME need = 1, need' = 0, command = "get", GetHandles(unit.type, unit.size)
      PROVE  Received(unit)
  <2>1. CASE unit.type = "GET_START" /\ GetHandles(unit.type, unit.size)
    BY <1>4, <2>1 DEF GetHandles, Return, Continue, Received, output
  <2>2. CASE unit.type = "GET_DATA" /\ GetHandles(unit.type, unit.size)
    BY <1>4, <2>2 DEF GetHandles, Return, Continue, Received, output
  <2>3. CASE unit.type = "GET_END" /\ GetHandles(unit.type, unit.size)
    BY <1>1, <1>4, <2>3 DEF GetHandles, Return, Continue, Received, output
  <2>4. CASE /\ unit.type \notin {"GET_START", "GET_DATA", "GET_END"}
             /\ GetHandles(unit.type, unit.size)
    BY <1>4, <2>4 DEF GetHandles, Return, Continue, Received, output
  <2> QED
    BY <1>4, <2>1, <2>2, <2>3, <2>4
<1>5. ASSUME Return("1", "receive"), need' \in Nat, UNCHANGED <<bytes, ended, skipped, short_write>>
      PROVE  Received(unit)
  BY <1>5 DEF Return, Received
<1>6. ASSUME Continue, UNCHANGED <<bytes, ended, skipped, short_write>>,
             \/ need = 0 /\ need' = unit.size
             \/ need > 1 /\ need' = need - 1
      PROVE  Received(unit)
  BY <1>6 DEF Continue, Received
<1>7. need' = need \/ need' = 0 => need' \in Nat
  BY <1>1
<1>8. Received(unit)
  BY <1>1, <1>2, <1>3, <1>4, <1>5, <1>6, <1>7
<1> QED
  BY <1>1, <1>8 DEF unit

\* cli_client_recv_frame reads a unit of the reply.
LEMMA ReceiveUnitIInv ==
  ASSUME IInv, ReceiveUnit
  PROVE  IInv'
<1> DEFINE unit == ToClient[1]
<1>1. Shape /\ RequestStream /\ Upload /\ ReplyStream /\ Download /\ Progress
  BY DEF IInv
<1>2. /\ pc = "receive" /\ s2c # <<>> /\ s2c' = Tail(s2c)
      /\ UNCHANGED <<command, out, c2s, server>>
      /\ Received(unit) /\ ToClient \in Seq(U) /\ ToClient # <<>>
  BY <1>1, ReceiveCases, Streams
<1>3. ToClient' = Tail(ToClient) /\ s2c' \in Seq(U) /\ ToClient' \in Seq(U) /\ unit \in U
  <2>1. server.out \in Seq(U) /\ s2c \in Seq(U)
    BY <1>1 DEF Shape
  <2>2. Tail(s2c) \in Seq(U) /\ Tail(s2c) \o server.out = Tail(s2c \o server.out)
    BY <1>2, <2>1, TailOfStream
  <2>3. Tail(ToClient) \in Seq(U) /\ unit \in U
    BY <1>2, Shift
  <2> QED
    BY <1>2, <2>2, <2>3 DEF ToClient
<1>4. /\ need \in Nat /\ bytes \in Nat /\ skipped \in Nat /\ server.bytes \in Nat
      /\ ended \in BOOLEAN /\ short_write \in BOOLEAN /\ command \in {"put", "get"}
      /\ exit = "none"
  BY <1>1, <1>2 DEF Shape, Progress
<1>5. Aligned(need, ToClient)
  BY <1>1, <1>2 DEF ReplyStream
<1>6. /\ Has(ToClient, unit.type)
      /\ \A type : Has(ToClient', type) => Has(ToClient, type)
      /\ LastFrame(ToClient', "GET_END")
      /\ unit.type = "GET_END" /\ unit.kind = "payload" => ToClient' = <<>>
  BY <1>1, <1>2, <1>3, TailKeeps DEF ReplyStream
<1>7. /\ unit.size \in Nat /\ unit.type \in Types
      /\ need = 0 => Aligned(unit.size, ToClient')
      /\ need > 0 => Aligned(need - 1, ToClient') /\ unit.kind = "payload"
  <2>1. unit.size \in Nat /\ unit.type \in Types
    BY <1>3 DEF U
  <2>2. need = 0 => Aligned(unit.size, ToClient')
    BY <1>2, <1>3, <1>5, AlignedLength
  <2>3. need > 0 => Aligned(need - 1, ToClient') /\ unit.kind = "payload"
    <3>1. ASSUME need > 0 PROVE need \in Nat \ {0}
      BY <1>4, <3>1
    <3> QED
      BY <1>2, <1>3, <1>5, <3>1, AlignedPayload
  <2> QED
    BY <2>1, <2>2, <2>3
<1> HIDE DEF unit
<1>8. ToServer' = ToServer
  BY <1>2 DEF ToServer
<1>9. /\ need' \in Nat /\ bytes' \in Nat /\ skipped' \in Nat
      /\ ended' \in BOOLEAN /\ short_write' \in BOOLEAN
      /\ pc' \in {"receive", "done"} /\ (command = "put" => bytes' = bytes)
  <2>1. need' \in Nat
    BY <1>2, <1>4, <1>7 DEF Received
  <2>2. bytes' \in Nat /\ (command = "put" => bytes' = bytes)
    BY <1>2, <1>4, <1>7 DEF Received
  <2>3. ended' \in BOOLEAN
    BY <1>2, <1>4 DEF Received
  <2>4. short_write' \in BOOLEAN
    BY <1>2, <1>4 DEF Received
  <2>5. pc' \in {"receive", "done"}
    BY <1>2 DEF Received
  <2>6. skipped' \in Nat
    BY <1>2, <1>4, <1>7 DEF Received
  <2> QED
    BY <2>1, <2>2, <2>3, <2>4, <2>5, <2>6
<1>10. Shape'
  BY <1>1, <1>2, <1>3, <1>9 DEF Shape
<1>11. RequestStream' /\ Upload'
  BY <1>1, <1>2, <1>8, <1>9, UploadKept
<1>12. pc' # "done" => Aligned(need', ToClient')
  <2> SUFFICES ASSUME pc' # "done" PROVE Aligned(need', ToClient')
    OBVIOUS
  <2>1. \/ need = 0 /\ need' = unit.size
        \/ need > 0 /\ need' = need - 1
    BY <1>2, <1>4 DEF Received
  <2> QED
    BY <1>7, <2>1
<1>13. ReplyStream'
  BY <1>1, <1>2, <1>6, <1>12 DEF ReplyStream
<1> Taken \in Nat
  BY <1>4 DEF Taken
<1>14. ASSUME command = "get", short_write = FALSE
       PROVE  /\ need = 0 => Account(Taken + Pending(unit.size, ToClient', "GET_DATA"), ToClient',
                                     server.bytes, "GET_DATA")
              /\ need > 1 => Account(Taken + Pending(need - 1, ToClient', "GET_DATA"), ToClient',
                                     server.bytes, "GET_DATA")
              /\ need = 1 =>
                   Account(Taken + (IF unit.type = "GET_DATA" THEN unit.size ELSE 0)
                                 + Pending(0, ToClient', "GET_DATA"), ToClient',
                           server.bytes, "GET_DATA")
  <2>1. Account(Taken + Pending(need, ToClient, "GET_DATA"), ToClient, server.bytes, "GET_DATA")
    BY <1>1, <1>2, <1>14 DEF Download
  <2>2. need = 0 => Account(Taken + Pending(unit.size, ToClient', "GET_DATA"), ToClient',
                            server.bytes, "GET_DATA")
    BY <1>2, <1>3, <1>4, <1>5, <2>1, ReadsLength DEF unit
  <2>3. need > 1 => Account(Taken + Pending(need - 1, ToClient', "GET_DATA"), ToClient',
                            server.bytes, "GET_DATA")
    BY <1>2, <1>3, <1>4, <1>5, <2>1, ReadsPayload
  <2>4. need = 1 => Account(Taken + (IF unit.type = "GET_DATA" THEN unit.size ELSE 0)
                                  + Pending(0, ToClient', "GET_DATA"), ToClient',
                            server.bytes, "GET_DATA")
    BY <1>2, <1>3, <1>4, <1>5, <2>1, ReadsLast DEF unit
  <2> QED
    BY <2>2, <2>3, <2>4
<1>15. Download'
  <2> SUFFICES ASSUME command = "get", pc' # "done", short_write' = FALSE
               PROVE  Account(Taken' + Pending(need', ToClient', "GET_DATA"), ToClient',
                              server.bytes, "GET_DATA")
    BY <1>2, <1>9 DEF Download
  <2>1. short_write = FALSE
    BY <1>2, <1>4 DEF Received
  <2>2. \/ need = 0 /\ need' = unit.size /\ Taken' = Taken
        \/ need > 1 /\ need' = need - 1 /\ Taken' = Taken
        \/ /\ need = 1 /\ need' = 0
           /\ Taken' = Taken + (IF unit.type = "GET_DATA" THEN unit.size ELSE 0)
    BY <1>2, <1>4, <1>7 DEF Received, Taken
  <2> QED
    BY <1>14, <2>1, <2>2
<1>16. Progress'
  <2>1. CASE pc' = "receive"
    BY <1>1, <1>2, <1>4, <1>9, <2>1 DEF Progress, GetSuccessMeansComplete, Received
  <2>2. CASE exit' = "1" /\ pc' = "done"
    BY <1>1, <1>2, <1>4, <2>2 DEF Progress, GetSuccessMeansComplete
  <2>3. CASE /\ command = "put" /\ unit.type = "PUT_RESPONSE"
             /\ pc' = "done" /\ exit' = "0" /\ UNCHANGED <<bytes, ended, skipped, short_write>>
    <3>1. server.stored
      BY <1>1, <1>6, <2>3 DEF ReplyStream
    <3> QED
      BY <1>1, <1>2, <2>3, <3>1 DEF Progress, GetSuccessMeansComplete
  <2>4. CASE /\ need = 1 /\ command = "get" /\ unit.type = "GET_END" /\ short_write = FALSE
             /\ pc' = "done" /\ exit' = "0" /\ UNCHANGED <<bytes, ended, skipped, short_write>>
    <3>1. ToClient' = <<>> /\ server.bytes = FileSize
      BY <1>1, <1>6, <1>7, <2>4 DEF ReplyStream
    <3>2. Account(Taken + 0 + Pending(0, ToClient', "GET_DATA"), ToClient', server.bytes,
                  "GET_DATA")
      BY <1>14, <2>4
    <3>3. Taken + 0 + Pending(0, ToClient', "GET_DATA") = Taken
      BY <1>4 DEF Pending
    <3>4. Taken = FileSize
      BY <1>4, <3>1, <3>2, <3>3, AccountEmpty
    <3> QED
      BY <1>2, <2>4, <3>4 DEF Progress, GetSuccessMeansComplete, Taken
  <2> QED
    BY <1>2, <2>1, <2>2, <2>3, <2>4 DEF Received
<1> QED
  BY <1>10, <1>11, <1>13, <1>15, <1>16 DEF IInv

\* The daemon gives a reply, or part of one: nothing of the request is left.
LEMMA DaemonReplies ==
  ASSUME ReplyStream, Download, Shape, pc # "done", server.out = <<>>,
         ~Has(ToClient, "GET_END"),
         NEW t \in {"ERROR", "PUT_RESPONSE", "GET_START", "GET_DATA", "GET_END"},
         NEW size \in Nat \ {0},
         UNCHANGED <<client, s2c>>, server'.out = Frame(t, size),
         server'.state \notin {"open", "gone"}, server'.state = "accepted" => command = "get",
         server.stored => server'.stored, t = "PUT_RESPONSE" => server'.stored,
         t = "GET_END" => size = 1 /\ server'.bytes = FileSize /\ server'.state = "finished",
         command = "get" => server'.bytes = server.bytes + (IF t = "GET_DATA" THEN size ELSE 0)
  PROVE  ReplyStream' /\ Download' /\ server'.out \in Seq(U)
<1>1. /\ UNCHANGED <<command, pc, need, bytes, skipped, short_write, s2c>>
      /\ need \in Nat /\ Taken \in Nat /\ Taken' = Taken
      /\ server.bytes \in Nat /\ t \in Types
  BY DEF client, output, Shape, Types, Taken
<1>2. server'.out \in Seq(U)
  BY <1>1, FrameUnits
<1>3. ToClient \in Seq(U) /\ ToClient' = ToClient \o Frame(t, size)
  <2>1. ToClient \in Seq(U) /\ ToClient = s2c
    BY Streams
  <2>2. ToClient' = s2c' \o server'.out
    BY DEF ToClient
  <2>3. s2c' = s2c
    BY <1>1
  <2> QED
    BY <2>1, <2>2, <2>3
<1>4. Aligned(need, ToClient) /\ (Has(ToClient, "PUT_RESPONSE") => server.stored)
  BY DEF ReplyStream
<1>5. Aligned(need, ToClient')
  BY <1>1, <1>3, <1>4, AlignedFrame
<1>6. LastFrame(ToClient', "GET_END")
  BY <1>1, <1>3, FrameKeeps
<1>7. /\ Has(ToClient', "GET_END") => t = "GET_END"
      /\ Has(ToClient', "PUT_RESPONSE") => server'.stored
  BY <1>1, <1>3, <1>4, FrameKeeps
<1>8. ReplyStream'
  BY <1>1, <1>5, <1>6, <1>7 DEF ReplyStream
<1>9. Download'
  <2> SUFFICES ASSUME command = "get", ~short_write
               PROVE  Account(Taken + Pending(need, ToClient', "GET_DATA"), ToClient',
                              server'.bytes, "GET_DATA")
    BY <1>1 DEF Download
  <2>1. Account(Taken + Pending(need, ToClient, "GET_DATA"), ToClient, server.bytes, "GET_DATA")
    BY DEF Download
  <2>2. Account(Taken + Pending(need, ToClient', "GET_DATA"), ToClient',
                server.bytes + (IF t = "GET_DATA" THEN size ELSE 0), "GET_DATA")
    BY <1>1, <1>3, <1>4, <2>1, Writes
  <2> QED
    BY <2>2
<1> QED
  BY <1>2, <1>8, <1>9

\* The daemon moves a unit of its reply into the socket, or dies.
LEMMA DaemonWritesIInv ==
  ASSUME IInv, ServerWrites \/ ServerDies
  PROVE  IInv'
<1>1. Shape /\ RequestStream /\ Upload /\ ReplyStream /\ Download /\ Progress
  BY DEF IInv
<1>2. server \in [state : {"open", "accepted", "rejected", "finished", "gone"},
                  need : Nat, bytes : Nat, out : Seq(U), stored : BOOLEAN, rejected : BOOLEAN]
      /\ s2c \in Seq(U)
  BY <1>1 DEF Shape
<1>3. UNCHANGED <<command, pc, out, need, bytes, ended, skipped, short_write, exit, c2s>>
  BY DEF ServerWrites, ServerDies, client, output
<1>4. /\ server' \in [state : {"open", "accepted", "rejected", "finished", "gone"},
                      need : Nat, bytes : Nat, out : Seq(U), stored : BOOLEAN,
                      rejected : BOOLEAN]
      /\ server'.need = server.need /\ server'.bytes = server.bytes
      /\ server'.stored = server.stored
      /\ server'.state = server.state \/ server'.state = "gone"
      /\ s2c' \in Seq(U) /\ ToClient' = ToClient
  <2>1. CASE ServerWrites
    <3>1. server.out # <<>> /\ s2c' = Append(s2c, Head(server.out))
          /\ server' = [server EXCEPT !.out = Tail(server.out)]
      BY <2>1 DEF ServerWrites
    <3>2. Append(s2c, Head(server.out)) \in Seq(U) /\ Tail(server.out) \in Seq(U)
          /\ Append(s2c, Head(server.out)) \o Tail(server.out) = s2c \o server.out
      BY <1>2, <3>1, StreamKeptByWrite
    <3>3. server'.out = Tail(server.out)
      BY <1>2, <3>1
    <3>4. ToClient' = ToClient
      BY <3>1, <3>2, <3>3 DEF ToClient
    <3> QED
      BY <1>2, <3>1, <3>2, <3>4
  <2>2. CASE ServerDies
    <3>1. s2c' = s2c /\ server' = [server EXCEPT !.state = "gone"]
      BY <2>2 DEF ServerDies
    <3>2. server'.out = server.out
      BY <1>2, <3>1
    <3>3. ToClient' = ToClient
      BY <3>1, <3>2 DEF ToClient
    <3> QED
      BY <1>2, <3>1, <3>3
  <2> QED
    BY <2>1, <2>2
<1>5. ToServer' = ToServer
  BY <1>3 DEF ToServer
<1>6. Shape'
  BY <1>1, <1>3, <1>4 DEF Shape
<1>7. RequestStream' /\ Upload'
  BY <1>1, <1>3, <1>4, <1>5, UploadKept
<1>8. ReplyStream' /\ Download'
  BY <1>1, <1>3, <1>4, ReplyKept
<1>9. Progress'
  BY <1>1, <1>3, <1>4 DEF Progress, GetSuccessMeansComplete
<1> QED
  BY <1>6, <1>7, <1>8, <1>9 DEF IInv

\* The daemon serves the content of a get, or reports an error.
LEMMA ServerServesIInv ==
  ASSUME IInv, ServerServes
  PROVE  IInv'
<1>1. Shape /\ RequestStream /\ Upload /\ ReplyStream /\ Download /\ Progress
  BY DEF IInv
<1>2. server \in [state : {"open", "accepted", "rejected", "finished", "gone"},
                  need : Nat, bytes : Nat, out : Seq(U), stored : BOOLEAN, rejected : BOOLEAN]
  BY <1>1 DEF Shape
<1>3. /\ pc # "done" /\ command = "get" /\ server.state = "accepted" /\ server.out = <<>>
      /\ UNCHANGED <<client, c2s, s2c>>
      /\ UNCHANGED <<command, pc, out, need, bytes, ended, skipped, short_write, exit>>
  BY DEF ServerServes, client, output
<1> DEFINE Served(t, size) ==
        /\ server' \in [state : {"open", "accepted", "rejected", "finished", "gone"},
                        need : Nat, bytes : Nat, out : Seq(U), stored : BOOLEAN,
                        rejected : BOOLEAN]
        /\ server'.out = Frame(t, size) /\ server'.stored = server.stored
        /\ server'.need = server.need
        /\ server'.state \in {"accepted", "rejected", "finished"}
        /\ t = "GET_END" => size = 1 /\ server'.bytes = FileSize /\ server'.state = "finished"
        /\ server'.bytes = server.bytes + (IF t = "GET_DATA" THEN size ELSE 0)
<1>4. PICK t \in {"ERROR", "GET_DATA", "GET_END"}, size \in Nat \ {0} : Served(t, size)
  <2>1. CASE \E n \in 1..(FileSize - server.bytes) :
               server' = [server EXCEPT !.bytes = @ + n, !.out = Frame("GET_DATA", n)]
    <3>1. PICK n \in 1..(FileSize - server.bytes) :
               server' = [server EXCEPT !.bytes = @ + n, !.out = Frame("GET_DATA", n)]
      BY <2>1
    <3>2. n \in Nat \ {0} /\ server.bytes + n \in Nat
      BY <1>2, StreamAssumption
    <3>3. "GET_DATA" \in Types
      BY DEF Types
    <3>4. Frame("GET_DATA", n) \in Seq(U)
      BY <3>2, <3>3, FrameUnits
    <3>5. Served("GET_DATA", n)
      BY <1>2, <1>3, <3>1, <3>2, <3>4
    <3> HIDE DEF Served
    <3> QED
      BY <3>2, <3>5
  <2>2. CASE /\ server.bytes = FileSize
             /\ server' = [server EXCEPT !.state = "finished", !.out = Frame("GET_END", 1)]
    <3>1. "GET_END" \in Types /\ 1 \in Nat \ {0}
      BY DEF Types
    <3>2. Frame("GET_END", 1) \in Seq(U)
      BY <3>1, FrameUnits
    <3>3. /\ server'.out = Frame("GET_END", 1) /\ server'.stored = server.stored
          /\ server'.need = server.need /\ server'.state = "finished"
          /\ server'.bytes = server.bytes
      BY <1>2, <2>2
    <3>4. server' \in [state : {"open", "accepted", "rejected", "finished", "gone"},
                       need : Nat, bytes : Nat, out : Seq(U), stored : BOOLEAN,
                       rejected : BOOLEAN]
      BY <1>2, <2>2, <3>2
    <3>5. server.bytes = server.bytes + 0
      BY <1>2
    <3>6. Served("GET_END", 1)
      BY <2>2, <3>3, <3>4, <3>5
    <3> HIDE DEF Served
    <3> QED
      BY <3>1, <3>6
  <2>3. CASE server' = Reject(server)
    <3>1. "ERROR" \in Types /\ 1 \in Nat \ {0}
      BY DEF Types
    <3>2. Frame("ERROR", 1) \in Seq(U)
      BY <3>1, FrameUnits
    <3>3. /\ server'.out = Frame("ERROR", 1) /\ server'.stored = server.stored
          /\ server'.need = server.need /\ server'.state = "rejected"
          /\ server'.bytes = server.bytes
      BY <1>2, <2>3 DEF Reject
    <3>4. server' \in [state : {"open", "accepted", "rejected", "finished", "gone"},
                       need : Nat, bytes : Nat, out : Seq(U), stored : BOOLEAN,
                       rejected : BOOLEAN]
      BY <1>2, <2>3, <3>2 DEF Reject
    <3>5. server.bytes = server.bytes + 0
      BY <1>2
    <3>6. Served("ERROR", 1)
      BY <3>3, <3>4, <3>5
    <3> HIDE DEF Served
    <3> QED
      BY <3>1, <3>6
  <2> HIDE DEF Served
  <2> QED
    BY <2>1, <2>2, <2>3 DEF ServerServes
<1>5. ToServer' = ToServer /\ ToServer = <<>> /\ ~server.stored
  <2>1. ToServer' = ToServer
    BY <1>3 DEF ToServer
  <2> QED
    BY <1>1, <1>3, <2>1 DEF RequestStream, Upload
<1>6. ~Has(ToClient, "GET_END")
  BY <1>1, <1>3 DEF ReplyStream
<1>7. ReplyStream' /\ Download'
  BY <1>1, <1>3, <1>4, <1>6, DaemonReplies
<1>8. RequestStream' /\ Upload'
  BY <1>1, <1>3, <1>4, <1>5 DEF RequestStream, Upload
<1>9. Shape'
  BY <1>1, <1>3, <1>4 DEF Shape
<1>10. Progress'
  BY <1>1, <1>3, <1>4 DEF Progress, GetSuccessMeansComplete
<1> QED
  BY <1>7, <1>8, <1>9, <1>10 DEF IInv

\* The daemon reads a unit of the request and waits for the rest of the frame.
LEMMA DaemonReadsPart ==
  ASSUME IInv, ServerReads, NEW n \in Nat, server' = [server EXCEPT !.need = n],
         \/ server.need = 0 /\ n = Head(c2s).size
         \/ server.need > 1 /\ n = server.need - 1
         \/ server.need = 1 /\ n = 0 /\ server.state = "rejected"
  PROVE  IInv'
<1> DEFINE unit == ToServer[1]
<1>1. Shape /\ RequestStream /\ Upload /\ ReplyStream /\ Download /\ Progress
  BY DEF IInv
<1>2. server \in [state : {"open", "accepted", "rejected", "finished", "gone"},
                  need : Nat, bytes : Nat, out : Seq(U), stored : BOOLEAN, rejected : BOOLEAN]
      /\ bytes \in Nat
  BY <1>1 DEF Shape
<1>3. /\ c2s # <<>> /\ c2s' = Tail(c2s) /\ server.state # "gone"
      /\ UNCHANGED <<command, pc, out, need, bytes, ended, skipped, short_write, exit, s2c>>
  BY DEF ServerReads, client, output
<1>4. /\ server'.need = n /\ server'.state = server.state /\ server'.bytes = server.bytes
      /\ server'.stored = server.stored /\ server'.out = server.out
      /\ server' \in [state : {"open", "accepted", "rejected", "finished", "gone"},
                      need : Nat, bytes : Nat, out : Seq(U), stored : BOOLEAN,
                      rejected : BOOLEAN]
  BY <1>2
<1>5. /\ ToServer \in Seq(U) /\ ToServer # <<>> /\ unit = Head(c2s)
      /\ ToServer' = Tail(ToServer) /\ c2s' \in Seq(U) /\ ToServer' \in Seq(U)
  <2>1. out \in Seq(U) /\ c2s \in Seq(U)
    BY <1>1 DEF Shape
  <2>2. Tail(c2s) \in Seq(U) /\ Tail(c2s) \o out = Tail(c2s \o out)
    BY <1>3, <2>1, TailOfStream
  <2>3. ToServer \in Seq(U) /\ ToServer # <<>> /\ unit = Head(c2s)
    BY <1>1, <1>3, Streams
  <2>4. ToServer' = Tail(ToServer)
    BY <1>3, <2>2 DEF ToServer
  <2>5. Tail(ToServer) \in Seq(U)
    BY <2>3, Shift
  <2> QED
    BY <1>3, <2>2, <2>3, <2>4, <2>5
<1>6. ToClient' = ToClient
  BY <1>3, <1>4 DEF ToClient
<1>7. ~server.stored
  BY <1>1, <1>5 DEF Upload
<1>8. Aligned(server.need, ToServer)
  BY <1>1 DEF RequestStream
<1>9. Aligned(n, ToServer')
  <2>1. CASE server.need = 0
    BY <1>5, <1>8, <2>1, AlignedLength
  <2>2. CASE server.need > 0
    <3>1. server.need \in Nat \ {0} /\ n = server.need - 1
      BY <1>2, <2>2
    <3> QED
      BY <1>5, <1>8, <3>1, AlignedPayload
  <2> QED
    BY <1>2, <2>1, <2>2
<1>10. /\ \A type : Has(ToServer', type) => Has(ToServer, type)
       /\ \A type : LastFrame(ToServer, type) => LastFrame(ToServer', type)
       /\ \A types : Within(ToServer, types) => Within(ToServer', types)
  BY <1>5, TailKeeps
<1>11. RequestStream'
  BY <1>1, <1>3, <1>4, <1>5, <1>9, <1>10 DEF RequestStream
<1>12. ASSUME command = "put", server.state # "rejected"
       PROVE  Account(server.bytes + Pending(n, ToServer', "PUT_DATA"), ToServer', bytes,
                      "PUT_DATA")
  <2>1. Account(server.bytes + Pending(server.need, ToServer, "PUT_DATA"), ToServer, bytes,
                "PUT_DATA")
    BY <1>1, <1>3, <1>12 DEF Upload
  <2>2. CASE server.need = 0
    <3>1. n = unit.size
      BY <1>5, <2>2
    <3> QED
      BY <1>2, <1>5, <1>8, <2>1, <2>2, <3>1, ReadsLength
  <2>3. CASE server.need > 1
    <3>1. n = server.need - 1
      BY <1>2, <2>3
    <3> QED
      BY <1>2, <1>5, <1>8, <2>1, <2>3, <3>1, ReadsPayload
  <2> QED
    BY <1>12, <2>2, <2>3
<1>13. Upload'
  BY <1>1, <1>3, <1>4, <1>7, <1>12 DEF Upload
<1>14. ReplyStream' /\ Download'
  BY <1>1, <1>3, <1>4, <1>6, ReplyKept
<1>15. Shape'
  BY <1>1, <1>3, <1>4, <1>5 DEF Shape
<1>16. Progress'
  BY <1>1, <1>3, <1>4 DEF Progress, GetSuccessMeansComplete
<1> QED
  BY <1>11, <1>13, <1>14, <1>15, <1>16 DEF IInv

\* A whole frame has reached the daemon: what it does with it.
LEMMA DaemonHandles ==
  ASSUME IInv, ServerReads, server.need = 1, server.state # "rejected"
  PROVE  \/ server' = [server EXCEPT !.need = 0, !.state = "rejected", !.rejected = TRUE,
                                     !.out = Frame("ERROR", 1)]
         \/ /\ Head(c2s).type = "PUT_START"
            /\ server' = [server EXCEPT !.need = 0, !.state = "accepted"]
         \/ /\ Head(c2s).type = "PUT_DATA"
            /\ server' = [server EXCEPT !.need = 0, !.bytes = @ + Head(c2s).size]
         \/ /\ Head(c2s).type = "PUT_END"
            /\ server' = [server EXCEPT !.need = 0, !.state = "finished", !.stored = TRUE,
                                        !.out = Frame("PUT_RESPONSE", 1)]
         \/ /\ Head(c2s).type = "GET_REQUEST"
            /\ server' = [server EXCEPT !.need = 0, !.state = "accepted",
                                        !.out = Frame("GET_START", 1)]
<1> DEFINE unit == Head(c2s)
           s == [server EXCEPT !.need = 0]
<1>1. Shape /\ RequestStream /\ c2s # <<>>
  BY DEF IInv, ServerReads
<1>2. server \in [state : {"open", "accepted", "rejected", "finished", "gone"},
                  need : Nat, bytes : Nat, out : Seq(U), stored : BOOLEAN, rejected : BOOLEAN]
  BY <1>1 DEF Shape
<1>3. [server EXCEPT !.need = @ - 1] = s /\ s.need = 0
  BY <1>2
<1>4. server' \in ServerHandles(s, unit.type, unit.size)
  BY <1>2, <1>3 DEF ServerReads
<1>5. unit.type \in {"PUT_START", "PUT_DATA", "PUT_END", "GET_REQUEST"}
  <2>1. ToServer \in Seq(U) /\ ToServer # <<>> /\ unit = ToServer[1]
    BY <1>1, Streams
  <2>2. command \in {"put", "get"}
    BY <1>1 DEF Shape
  <2>3. \A types : Within(ToServer, types) => unit.type \in types
    BY <2>1, TailKeeps
  <2> QED
    BY <1>1, <2>2, <2>3 DEF RequestStream
<1>6. s.state # "rejected"
  BY <1>2
<1> HIDE DEF unit
<1>7. /\ Reject(s) = [server EXCEPT !.need = 0, !.state = "rejected", !.rejected = TRUE,
                                    !.out = Frame("ERROR", 1)]
      /\ [s EXCEPT !.state = "accepted"] = [server EXCEPT !.need = 0, !.state = "accepted"]
      /\ [s EXCEPT !.bytes = @ + unit.size] = [server EXCEPT !.need = 0, !.bytes = @ + unit.size]
      /\ [s EXCEPT !.state = "finished", !.stored = TRUE, !.out = Frame("PUT_RESPONSE", 1)]
           = [server EXCEPT !.need = 0, !.state = "finished", !.stored = TRUE,
                            !.out = Frame("PUT_RESPONSE", 1)]
      /\ [s EXCEPT !.state = "accepted", !.out = Frame("GET_START", 1)]
           = [server EXCEPT !.need = 0, !.state = "accepted", !.out = Frame("GET_START", 1)]
  BY <1>2 DEF Reject
<1> HIDE DEF s
<1>8. \/ server' = Reject(s)
      \/ unit.type = "PUT_START" /\ server' = [s EXCEPT !.state = "accepted"]
      \/ unit.type = "PUT_DATA" /\ server' = [s EXCEPT !.bytes = @ + unit.size]
      \/ /\ unit.type = "PUT_END"
         /\ server' = [s EXCEPT !.state = "finished", !.stored = TRUE,
                                !.out = Frame("PUT_RESPONSE", 1)]
      \/ /\ unit.type = "GET_REQUEST"
         /\ server' = [s EXCEPT !.state = "accepted", !.out = Frame("GET_START", 1)]
  BY <1>4, <1>5, <1>6 DEF ServerHandles
<1> QED
  BY <1>7, <1>8 DEF unit

\* The daemon handles a whole frame.
LEMMA DaemonHandlesIInv ==
  ASSUME IInv, ServerReads, server.need = 1, server.state # "rejected"
  PROVE  IInv'
<1> DEFINE unit == ToServer[1]
           Servers == [state : {"open", "accepted", "rejected", "finished", "gone"},
                       need : Nat, bytes : Nat, out : Seq(U), stored : BOOLEAN,
                       rejected : BOOLEAN]
<1>1. Shape /\ RequestStream /\ Upload /\ ReplyStream /\ Download /\ Progress
  BY DEF IInv
<1>2. server \in Servers /\ bytes \in Nat /\ command \in {"put", "get"}
  BY <1>1 DEF Shape
<1>3. /\ c2s # <<>> /\ c2s' = Tail(c2s) /\ server.state # "gone" /\ pc # "done"
      /\ UNCHANGED <<client, s2c>>
      /\ UNCHANGED <<command, pc, out, need, bytes, ended, skipped, short_write, exit, s2c>>
  BY DEF ServerReads, client, output
<1>4. /\ ToServer \in Seq(U) /\ ToServer # <<>> /\ unit = Head(c2s) /\ unit \in U
      /\ ToServer' = Tail(ToServer) /\ c2s' \in Seq(U) /\ ToServer' \in Seq(U)
  <2>1. out \in Seq(U) /\ c2s \in Seq(U)
    BY <1>1 DEF Shape
  <2>2. Tail(c2s) \in Seq(U) /\ Tail(c2s) \o out = Tail(c2s \o out)
    BY <1>3, <2>1, TailOfStream
  <2>3. ToServer \in Seq(U) /\ ToServer # <<>> /\ unit = Head(c2s)
    BY <1>1, <1>3, Streams
  <2>4. ToServer' = Tail(ToServer)
    BY <1>3, <2>2 DEF ToServer
  <2>5. Tail(ToServer) \in Seq(U) /\ unit \in U
    BY <2>3, Shift
  <2> QED
    BY <1>3, <2>2, <2>3, <2>4, <2>5
<1>5. ~server.stored /\ (command = "put" => server.state # "finished")
  BY <1>1, <1>4 DEF Upload
<1>6. ToClient = <<>> /\ server.out = <<>> /\ (command = "get" => server.state = "open")
  <2>1. command = "get" => server.state = "open"
    BY <1>1, <1>3, <1>4 DEF RequestStream
  <2>2. ToClient = <<>>
    BY <1>1, <1>2, <1>3, <1>5, <2>1 DEF ReplyStream
  <2> QED
    BY <1>1, <2>1, <2>2, Streams
<1>7. Aligned(1, ToServer) /\ Aligned(0, ToServer') /\ unit.kind = "payload"
  <2>1. Aligned(1, ToServer)
    BY <1>1 DEF RequestStream
  <2>2. 1 \in Nat \ {0} /\ 1 - 1 = 0
    OBVIOUS
  <2> QED
    BY <1>4, <2>1, <2>2, AlignedPayload
<1>8. /\ Has(ToServer, unit.type)
      /\ \A type : Has(ToServer', type) => Has(ToServer, type)
      /\ \A type : LastFrame(ToServer, type) => LastFrame(ToServer', type)
      /\ \A types : Within(ToServer, types) => Within(ToServer', types) /\ unit.type \in types
      /\ LastFrame(ToServer, unit.type) => ToServer' = <<>>
  BY <1>4, <1>7, TailKeeps
<1> HIDE DEF unit
<1>9. /\ command = "put" => unit.type # "GET_REQUEST"
      /\ command = "get" => unit.type = "GET_REQUEST"
      /\ unit.type \in {"PUT_END", "GET_REQUEST"} => ToServer' = <<>>
      /\ unit.type = "PUT_END" => pc \in {"end", "receive", "done"}
  BY <1>1, <1>8 DEF RequestStream
<1>10. ASSUME server'.need = 0 PROVE RequestStream'
  <2>1. command = "get" => ToServer' = <<>>
    BY <1>9
  <2> QED
    BY <1>1, <1>3, <1>7, <1>8, <1>10, <2>1 DEF RequestStream
<1>11. command = "put" =>
         Account(server.bytes + (IF unit.type = "PUT_DATA" THEN unit.size ELSE 0)
                              + Pending(0, ToServer', "PUT_DATA"), ToServer', bytes, "PUT_DATA")
  <2> SUFFICES ASSUME command = "put"
               PROVE  Account(server.bytes + (IF unit.type = "PUT_DATA" THEN unit.size ELSE 0)
                                + Pending(0, ToServer', "PUT_DATA"), ToServer', bytes, "PUT_DATA")
    OBVIOUS
  <2>1. Account(server.bytes + Pending(1, ToServer, "PUT_DATA"), ToServer, bytes, "PUT_DATA")
    BY <1>1, <1>3 DEF Upload
  <2> QED
    BY <1>2, <1>4, <1>7, <2>1, ReadsLast DEF unit
<1>12. ASSUME server'.stored = server.stored \/ (command = "put" /\ server'.stored)
       PROVE  Progress'
  BY <1>1, <1>3, <1>12 DEF Progress, GetSuccessMeansComplete
<1>13. ASSUME server' \in Servers PROVE Shape'
  BY <1>1, <1>3, <1>4, <1>13 DEF Shape
<1>14. "ERROR" \in Types /\ "PUT_RESPONSE" \in Types /\ "GET_START" \in Types /\ 1 \in Nat \ {0}
  BY DEF Types
<1>15. ~Has(ToClient, "GET_END")
  BY <1>6, EmptyStream
<1>16. CASE server' = [server EXCEPT !.need = 0, !.state = "rejected", !.rejected = TRUE,
                                     !.out = Frame("ERROR", 1)]
  <2>1. Frame("ERROR", 1) \in Seq(U)
    BY <1>14, FrameUnits
  <2>2. /\ server'.need = 0 /\ server'.state = "rejected" /\ server'.bytes = server.bytes
        /\ server'.stored = server.stored /\ server'.out = Frame("ERROR", 1)
    BY <1>2, <1>16
  <2>3. server' \in Servers
    BY <1>2, <1>16, <2>1
  <2>4. server.bytes = server.bytes + 0
    BY <1>2
  <2>5. ReplyStream' /\ Download'
    BY <1>1, <1>3, <1>6, <1>14, <1>15, <2>2, <2>4, DaemonReplies
  <2>6. Upload'
    BY <1>5, <2>2 DEF Upload
  <2> QED
    BY <1>10, <1>12, <1>13, <2>2, <2>3, <2>5, <2>6 DEF IInv
<1>17. CASE unit.type = "PUT_START" /\ server' = [server EXCEPT !.need = 0, !.state = "accepted"]
  <2>1. /\ server'.need = 0 /\ server'.state = "accepted" /\ server'.bytes = server.bytes
        /\ server'.stored = server.stored /\ server'.out = server.out /\ server' \in Servers
    BY <1>2, <1>17
  <2>2. ToClient' = ToClient /\ command = "put"
    BY <1>2, <1>3, <1>9, <1>17, <2>1 DEF ToClient
  <2>3. ReplyStream' /\ Download'
    BY <1>1, <1>3, <1>6, <1>15, <2>1, <2>2, EmptyStream DEF ReplyStream, Download
  <2>4. server.bytes + 0 = server.bytes
    BY <1>2
  <2>5. Upload'
    BY <1>3, <1>5, <1>11, <1>17, <2>1, <2>2, <2>4 DEF Upload
  <2> QED
    BY <1>10, <1>12, <1>13, <2>1, <2>3, <2>5 DEF IInv
<1>18. CASE unit.type = "PUT_DATA" /\ server' = [server EXCEPT !.need = 0, !.bytes = @ + unit.size]
  <2>1. unit.size \in Nat
    BY <1>4 DEF U
  <2>2. /\ server'.need = 0 /\ server'.state = server.state
        /\ server'.bytes = server.bytes + unit.size
        /\ server'.stored = server.stored /\ server'.out = server.out /\ server' \in Servers
    <3> DEFINE sum == server.bytes + unit.size
    <3>1. sum \in Nat
      BY <1>2, <2>1
    <3>2. server' = [server EXCEPT !.need = 0, !.bytes = sum]
      BY <1>18
    <3> HIDE DEF sum
    <3>3. /\ server'.need = 0 /\ server'.state = server.state /\ server'.bytes = sum
          /\ server'.stored = server.stored /\ server'.out = server.out
      BY <1>2, <3>2
    <3>4. server' \in Servers
      BY <1>2, <3>1, <3>2
    <3> QED
      BY <3>3, <3>4 DEF sum
  <2>3. ToClient' = ToClient /\ command = "put"
    BY <1>2, <1>3, <1>9, <1>18, <2>2 DEF ToClient
  <2>4. ReplyStream' /\ Download'
    BY <1>1, <1>3, <1>15, <2>2, <2>3 DEF ReplyStream, Download
  <2>5. Upload'
    BY <1>3, <1>5, <1>11, <1>18, <2>2, <2>3 DEF Upload
  <2> QED
    BY <1>10, <1>12, <1>13, <2>2, <2>4, <2>5 DEF IInv
<1>19. CASE /\ unit.type = "PUT_END"
            /\ server' = [server EXCEPT !.need = 0, !.state = "finished", !.stored = TRUE,
                                        !.out = Frame("PUT_RESPONSE", 1)]
  <2>1. Frame("PUT_RESPONSE", 1) \in Seq(U)
    BY <1>14, FrameUnits
  <2>2. /\ server'.need = 0 /\ server'.state = "finished" /\ server'.bytes = server.bytes
        /\ server'.stored = TRUE /\ server'.out = Frame("PUT_RESPONSE", 1)
    BY <1>2, <1>19
  <2>3. server' \in Servers
    BY <1>2, <1>19, <2>1
  <2>4. command = "put" /\ ToServer' = <<>> /\ pc \in {"end", "receive", "done"}
    BY <1>2, <1>9, <1>19
  <2>5. ReplyStream' /\ Download'
    BY <1>1, <1>3, <1>6, <1>14, <1>15, <2>2, <2>4, DaemonReplies
  <2>6. server.bytes = bytes /\ server.bytes + 0 + Pending(0, ToServer', "PUT_DATA") = bytes
    <3>1. server.bytes + 0 + Pending(0, ToServer', "PUT_DATA") = server.bytes
      BY <1>2 DEF Pending
    <3>2. Account(server.bytes, <<>>, bytes, "PUT_DATA")
      BY <1>11, <1>19, <2>4, <3>1
    <3> QED
      BY <1>2, <3>1, <3>2, AccountEmpty
  <2>7. Account(server.bytes + Pending(0, ToServer', "PUT_DATA"), ToServer', bytes, "PUT_DATA")
    <3>1. server.bytes + 0 = server.bytes
      BY <1>2
    <3> QED
      BY <1>11, <1>19, <2>4, <3>1
  <2>8. Upload'
    BY <1>3, <2>2, <2>4, <2>6, <2>7 DEF Upload
  <2> QED
    BY <1>10, <1>12, <1>13, <2>2, <2>3, <2>4, <2>5, <2>8 DEF IInv
<1>20. CASE /\ unit.type = "GET_REQUEST"
            /\ server' = [server EXCEPT !.need = 0, !.state = "accepted",
                                        !.out = Frame("GET_START", 1)]
  <2>1. Frame("GET_START", 1) \in Seq(U)
    BY <1>14, FrameUnits
  <2>2. /\ server'.need = 0 /\ server'.state = "accepted" /\ server'.bytes = server.bytes
        /\ server'.stored = server.stored /\ server'.out = Frame("GET_START", 1)
    BY <1>2, <1>20
  <2>3. server' \in Servers
    BY <1>2, <1>20, <2>1
  <2>4. command = "get" /\ server.bytes = server.bytes + 0
    BY <1>2, <1>9, <1>20
  <2>5. ReplyStream' /\ Download'
    BY <1>1, <1>3, <1>6, <1>14, <1>15, <2>2, <2>4, DaemonReplies
  <2>6. Upload'
    BY <1>3, <1>5, <2>2, <2>4 DEF Upload
  <2> QED
    BY <1>10, <1>12, <1>13, <2>2, <2>3, <2>5, <2>6 DEF IInv
<1> QED
  BY <1>4, <1>16, <1>17, <1>18, <1>19, <1>20, DaemonHandles

\* Every step preserves the invariant.
LEMMA NextIInv == IInv /\ [Next]_vars => IInv'
<1> SUFFICES ASSUME IInv, [Next]_vars PROVE IInv'
  OBVIOUS
<1>1. CASE SendUnit
  BY <1>1, SendUnitIInv
<1>2. CASE Retry \/ ConnectionLost \/ RequestSent \/ EndSent
  BY <1>2, WaitsIInv
<1>3. CASE ReadChunk \/ ReadStops \/ SendEnd
  BY <1>3, ReadFileIInv
<1>4. CASE ReceiveUnit
  BY <1>4, ReceiveUnitIInv
<1>5. CASE ServerReads
  <2>1. /\ server \in [state : {"open", "accepted", "rejected", "finished", "gone"},
                       need : Nat, bytes : Nat, out : Seq(U), stored : BOOLEAN,
                       rejected : BOOLEAN]
        /\ c2s # <<>> /\ Shape
    BY <1>5 DEF IInv, Shape, ServerReads
  <2>2. CASE server.need = 0
    <3>1. Head(c2s).size \in Nat
      <4>1. Head(c2s) = ToServer[1] /\ ToServer \in Seq(U) /\ ToServer # <<>>
        BY <2>1, Streams
      <4>2. ToServer[1] \in U
        BY <4>1, Shift
      <4> QED
        BY <4>1, <4>2 DEF U
    <3>2. server' = [server EXCEPT !.need = Head(c2s).size]
      BY <1>5, <2>2 DEF ServerReads
    <3> QED
      BY <1>5, <2>2, <3>1, <3>2, DaemonReadsPart
  <2>3. CASE server.need > 1
    <3>1. server.need - 1 \in Nat
      BY <2>1, <2>3
    <3>2. server' = [server EXCEPT !.need = server.need - 1]
      BY <1>5, <2>1, <2>3 DEF ServerReads
    <3> QED
      BY <1>5, <2>3, <3>1, <3>2, DaemonReadsPart
  <2>4. CASE server.need = 1 /\ server.state = "rejected"
    <3> DEFINE s == [server EXCEPT !.need = @ - 1]
    <3>1. s = [server EXCEPT !.need = 0] /\ s.need = 0 /\ s.state = "rejected"
      BY <2>1, <2>4
    <3>2. server' \in ServerHandles(s, Head(c2s).type, Head(c2s).size)
      BY <1>5, <2>4, <3>1 DEF ServerReads
    <3> HIDE DEF s
    <3>3. server' = [server EXCEPT !.need = 0]
      BY <3>1, <3>2 DEF ServerHandles
    <3> QED
      BY <1>5, <2>4, <3>3, DaemonReadsPart
  <2>5. CASE server.need = 1 /\ server.state # "rejected"
    BY <1>5, <2>5, DaemonHandlesIInv
  <2>6. server.need = 0 \/ server.need = 1 \/ server.need > 1
    BY <2>1
  <2> QED
    BY <2>2, <2>3, <2>4, <2>5, <2>6
<1>6. CASE ServerServes
  BY <1>6, ServerServesIInv
<1>7. CASE ServerWrites \/ ServerDies
  BY <1>7, DaemonWritesIInv
<1>8. CASE UNCHANGED vars
  <2>1. UNCHANGED <<command, pc, out, need, bytes, ended, skipped, short_write, exit, c2s, s2c, server>>
    BY <1>8 DEF vars, client, output
  <2>2. Shape /\ RequestStream /\ Upload /\ ReplyStream /\ Download /\ Progress
    BY DEF IInv
  <2>3. ToServer' = ToServer /\ ToClient' = ToClient
    BY <2>1 DEF ToServer, ToClient
  <2>4. RequestStream' /\ Upload'
    BY <2>1, <2>2, <2>3, UploadKept
  <2>5. ReplyStream' /\ Download'
    BY <2>1, <2>2, <2>3, ReplyKept
  <2>6. Shape'
    BY <2>1, <2>2 DEF Shape
  <2>7. Progress'
    BY <2>1, <2>2 DEF Progress, GetSuccessMeansComplete
  <2> QED
    BY <2>4, <2>5, <2>6, <2>7 DEF IInv
<1> QED
  BY <1>1, <1>2, <1>3, <1>4, <1>5, <1>6, <1>7, <1>8 DEF Next, ClientStep, Done

\* The invariant holds in every reachable state.
LEMMA AlwaysIInv == Spec => []IInv
  BY InitIInv, NextIInv, PTL DEF Spec

-----------------------------------------------------------------------------
(* Results *)

\* Whatever partial sends, partial receives and retries happen in _send_all and
\* _recv_all, and whenever the daemon dies, a reader between two frames finds a
\* length unit next.
THEOREM ReadersStayAligned == Spec => []FramesAligned
<1>1. IInv => FramesAligned
  <2> SUFFICES ASSUME IInv PROVE FramesAligned
    OBVIOUS
  <2>1. Shape /\ RequestStream /\ ReplyStream
    BY DEF IInv
  <2>2. ASSUME pc # "done", need = 0, s2c # <<>> PROVE Head(s2c).kind = "length"
    <3>1. ToClient \in Seq(U) /\ ToClient # <<>> /\ Head(s2c) = ToClient[1]
      BY <2>1, <2>2, Streams
    <3>2. Aligned(0, ToClient)
      BY <2>1, <2>2 DEF ReplyStream
    <3> QED
      BY <3>1, <3>2, AlignedLength
  <2>3. ASSUME server.need = 0, c2s # <<>> PROVE Head(c2s).kind = "length"
    <3>1. ToServer \in Seq(U) /\ ToServer # <<>> /\ Head(c2s) = ToServer[1]
      BY <2>1, <2>3, Streams
    <3>2. Aligned(0, ToServer)
      BY <2>1, <2>3 DEF RequestStream
    <3> QED
      BY <3>1, <3>2, AlignedLength
  <2> QED
    BY <2>2, <2>3 DEF FramesAligned
<1> QED
  BY <1>1, AlwaysIInv, PTL

\* cmd_put exits 0 only when the daemon has stored every byte that was read, and that
\* is the whole file unless the file shrank under the upload.
THEOREM PutReportsTheTruth == Spec => []PutSuccessMeansStored
<1>1. IInv => PutSuccessMeansStored
  BY DEF IInv, Upload, Progress, PutSuccessMeansStored
<1> QED
  BY <1>1, AlwaysIInv, PTL

\* cmd_get exits 0 only when fwrite has taken every byte of the content but those of
\* the data frames that did not decode.
THEOREM GetReportsTheTruth == Spec => []GetSuccessMeansComplete
<1>1. IInv => GetSuccessMeansComplete
  BY DEF IInv, Progress
<1> QED
  BY <1>1, AlwaysIInv, PTL
=============================================================================
