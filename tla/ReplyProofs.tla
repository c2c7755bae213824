---------------------------- MODULE ReplyProofs ----------------------------
(***************************************************************************)
(* Theorems about Session: which reply belongs to which command, whose     *)
(* result a caller is given, and that it implements module Measurement.    *)
(***************************************************************************)
EXTENDS DeliveryProofs

USE SocketAssumption, WriteCapAssumption

(***************************************************************************)
(* The numbers of the replies in a stream                                  *)
(***************************************************************************)
(* How many of r replies have been handled when s is the unread stream.    *)
HandledOf(s, r) == IF s = <<>> THEN r ELSE Head(s).n - Counts(Head(s))

(* The frames of s carry the numbers up to r, one more with every reply.   *)
Numbered(s, r) ==
  /\ \A k \in DOMAIN s : s[k].n <= r /\ Counts(s[k]) <= s[k].n
  /\ \A k, l \in DOMAIN s : k < l => s[k].n + Counts(s[l]) <= s[l].n
  /\ \A k \in DOMAIN s : k + 1 \in DOMAIN s => s[k + 1].n = s[k].n + Counts(s[k + 1])
  /\ s # <<>> => s[Len(s)].n = r

(* The elements of a sequence that grows, and of one that is consumed.     *)
LEMMA AppendFacts ==
  ASSUME NEW S, NEW s \in Seq(S), NEW e \in S
  PROVE  /\ Append(s, e) \in Seq(S) /\ Append(s, e) # <<>>
         /\ Len(s) \in Nat /\ Len(Append(s, e)) = Len(s) + 1
         /\ DOMAIN s = 1..Len(s) /\ DOMAIN Append(s, e) = 1..(Len(s) + 1)
         /\ \A k \in 1..Len(s) : Append(s, e)[k] = s[k]
         /\ Append(s, e)[Len(s) + 1] = e
         /\ Head(Append(s, e)) = IF s = <<>> THEN e ELSE Head(s)
OBVIOUS

(* The elements that are left when the first is taken.                     *)
LEMMA TailFacts ==
  ASSUME NEW S, NEW s \in Seq(S), s # <<>>
  PROVE  /\ Head(s) \in S /\ Head(s) = s[1] /\ Tail(s) \in Seq(S)
         /\ Len(s) \in Nat \ {0} /\ Len(Tail(s)) = Len(s) - 1
         /\ DOMAIN s = 1..Len(s) /\ DOMAIN Tail(s) = 1..(Len(s) - 1)
         /\ \A k \in 1..(Len(s) - 1) : Tail(s)[k] = s[k + 1]
         /\ Tail(s) = <<>> => Len(s) = 1
         /\ Tail(s) # <<>> => Len(s) > 1 /\ Head(Tail(s)) = s[2]
<1>0. /\ Head(s) \in S /\ Tail(s) \in Seq(S) /\ Len(Tail(s)) = Len(s) - 1
      /\ \A k \in 1..Len(Tail(s)) : Tail(s)[k] = s[k + 1]
  BY HeadTailProperties
<1>1. /\ Head(s) \in S /\ Head(s) = s[1] /\ Tail(s) \in Seq(S)
      /\ Len(s) \in Nat \ {0} /\ Len(Tail(s)) = Len(s) - 1
      /\ DOMAIN s = 1..Len(s)
      /\ \A k \in 1..(Len(s) - 1) : Tail(s)[k] = s[k + 1]
  <2>1. Len(s) \in Nat \ {0}
    BY EmptySeq
  <2>2. DOMAIN s = 1..Len(s)
    BY LenProperties
  <2>3. Head(s) = s[1]
    BY <2>1
  <2>4. 1..Len(Tail(s)) = 1..(Len(s) - 1)
    BY <1>0
  <2>5. \A k \in 1..(Len(s) - 1) : Tail(s)[k] = s[k + 1]
    BY <1>0, <2>4, Zenon
  <2> QED
    BY <1>0, <2>1, <2>2, <2>3, <2>5
<1>2. DOMAIN Tail(s) = 1..(Len(s) - 1)
  BY <1>1, LenProperties
<1>3. ASSUME Tail(s) = <<>> PROVE Len(s) = 1
  <2>1. Len(Tail(s)) = 0 /\ Len(s) \in Nat /\ Len(Tail(s)) = Len(s) - 1
    BY <1>1, <1>3
  <2> QED
    BY <2>1
<1>4. ASSUME Tail(s) # <<>> PROVE Len(s) > 1 /\ Head(Tail(s)) = s[2]
  <2>1. Len(Tail(s)) # 0
    BY <1>1, <1>4, EmptySeq
  <2>2. Len(s) > 1 /\ 1 \in 1..(Len(s) - 1)
    BY <1>1, <2>1
  <2>3. Head(Tail(s)) = Tail(s)[1] /\ Tail(s)[1] = s[2]
    BY <1>1, <2>2
  <2> QED
    BY <2>2, <2>3
<1> QED
  BY <1>1, <1>2, <1>3, <1>4

(* A frame has a number and counts as one reply or none.                   *)
LEMMA FrameNumber ==
  ASSUME NEW f \in Frames
  PROVE  f.n \in Nat /\ Counts(f) \in {0, 1}
BY DEF Frames, Counts

(* Reading a frame: the count of handled replies follows.                  *)
LEMMA NumberedTail ==
  ASSUME NEW s \in Seq(Frames), NEW r \in Nat, s # <<>>, Numbered(s, r)
  PROVE  /\ Numbered(Tail(s), r)
         /\ HandledOf(s, r) \in Nat /\ HandledOf(s, r) <= r
         /\ HandledOf(Tail(s), r) = HandledOf(s, r) + Counts(Head(s))
         /\ HandledOf(Tail(s), r) \in Nat /\ HandledOf(Tail(s), r) <= r
<1> DEFINE t == Tail(s)
<1>1. /\ Head(s) \in Frames /\ Head(s) = s[1] /\ t \in Seq(Frames)
      /\ Len(s) \in Nat \ {0} /\ Len(t) = Len(s) - 1
      /\ DOMAIN s = 1..Len(s) /\ DOMAIN t = 1..(Len(s) - 1)
      /\ \A k \in 1..(Len(s) - 1) : t[k] = s[k + 1]
      /\ t = <<>> => Len(s) = 1
      /\ t # <<>> => Len(s) > 1 /\ Head(t) = s[2]
  BY TailFacts
<1>2. \A k \in DOMAIN s : s[k].n \in Nat /\ Counts(s[k]) \in {0, 1}
  BY <1>1, FrameNumber
<1>3. Numbered(t, r)
  <2>1. \A k \in DOMAIN t : k + 1 \in DOMAIN s /\ t[k] = s[k + 1]
    BY <1>1
  <2>2. \A k \in DOMAIN t : t[k].n <= r /\ Counts(t[k]) <= t[k].n
    BY <2>1 DEF Numbered
  <2>3. \A k, l \in DOMAIN t : k < l => t[k].n + Counts(t[l]) <= t[l].n
    <3> TAKE k, l \in DOMAIN t
    <3>1. k < l => k + 1 < l + 1
      BY <1>1
    <3> QED
      BY <2>1, <3>1 DEF Numbered
  <2>4. \A k \in DOMAIN t : k + 1 \in DOMAIN t => t[k + 1].n = t[k].n + Counts(t[k + 1])
    BY <2>1 DEF Numbered
  <2>5. t # <<>> => t[Len(t)].n = r
    <3>1. t # <<>> => Len(t) \in DOMAIN t /\ t[Len(t)] = s[Len(s)]
      BY <1>1
    <3> QED
      BY <3>1 DEF Numbered
  <2> QED
    BY <2>2, <2>3, <2>4, <2>5 DEF Numbered
<1>4. HandledOf(s, r) = s[1].n - Counts(s[1]) /\ 1 \in DOMAIN s
  BY <1>1 DEF HandledOf
<1>5. HandledOf(t, r) = s[1].n
  <2>1. CASE t = <<>>
    BY <1>1, <2>1 DEF Numbered, HandledOf
  <2>2. CASE t # <<>>
    <3>1. 2 \in DOMAIN s /\ s[2].n = s[1].n + Counts(s[2])
      <4>1. 1 + 1 \in DOMAIN s /\ 1 + 1 = 2
        BY <1>1, <2>2
      <4> QED
        BY <1>4, <4>1 DEF Numbered
    <3>2. s[1].n \in Nat /\ s[2].n \in Nat /\ Counts(s[2]) \in {0, 1}
      BY <1>2, <1>4, <3>1
    <3>3. HandledOf(t, r) = s[2].n - Counts(s[2])
      BY <1>1, <2>2 DEF HandledOf
    <3> QED
      BY <3>1, <3>2, <3>3
  <2> QED
    BY <2>1, <2>2
<1>6. s[1].n <= r /\ Counts(s[1]) <= s[1].n
  BY <1>4 DEF Numbered
<1>7. s[1].n \in Nat /\ Counts(s[1]) \in {0, 1}
  BY <1>2, <1>4
<1>8. Counts(Head(s)) = Counts(s[1])
  BY <1>1
<1> QED
  BY <1>3, <1>4, <1>5, <1>6, <1>7, <1>8

(* Every reply in the stream comes after those handled, and the later of   *)
(* two after the earlier.                                                  *)
LEMMA NumberedBounds ==
  ASSUME NEW s \in Seq(Frames), NEW r \in Nat, Numbered(s, r)
  PROVE  /\ HandledOf(s, r) \in Nat /\ HandledOf(s, r) <= r
         /\ \A k \in DOMAIN s : HandledOf(s, r) + Counts(s[k]) <= s[k].n /\ s[k].n <= r
         /\ \A k \in DOMAIN s : k > 1 => HandledOf(s, r) + Counts(s[1]) + Counts(s[k]) <= s[k].n
<1>1. CASE s = <<>>
  BY <1>1 DEF HandledOf
<1>2. CASE s # <<>>
  <2>1. /\ HandledOf(s, r) = s[1].n - Counts(s[1])
        /\ DOMAIN s = 1..Len(s) /\ Len(s) \in Nat \ {0}
    BY <1>2, TailFacts DEF HandledOf
  <2>2. \A k \in DOMAIN s : s[k].n \in Nat /\ Counts(s[k]) \in {0, 1}
    BY <2>1, FrameNumber
  <2>3. HandledOf(s, r) \in Nat /\ HandledOf(s, r) <= r
    BY <1>2, NumberedTail
  <2>4. 1 \in DOMAIN s
    BY <2>1
  <2>5. \A k \in DOMAIN s : k = 1 \/ s[1].n + Counts(s[k]) <= s[k].n
    BY <2>1, <2>4 DEF Numbered
  <2>6. \A k \in DOMAIN s : s[k].n <= r
    BY DEF Numbered
  <2>7. \A k \in DOMAIN s : k > 1 => HandledOf(s, r) + Counts(s[1]) + Counts(s[k]) <= s[k].n
    BY <2>1, <2>2, <2>4, <2>5
  <2>8. ASSUME NEW k \in DOMAIN s PROVE HandledOf(s, r) + Counts(s[k]) <= s[k].n
    BY <2>1, <2>2, <2>4, <2>5
  <2> QED
    BY <2>3, <2>6, <2>7, <2>8
<1> QED
  BY <1>1, <1>2

(* Sending a frame: nothing more is handled by that.                       *)
LEMMA NumberedAppend ==
  ASSUME NEW s \in Seq(Frames), NEW r \in Nat, Numbered(s, r),
         NEW f \in Frames, f.n = r + Counts(f)
  PROVE  /\ Numbered(Append(s, f), f.n)
         /\ HandledOf(Append(s, f), f.n) = HandledOf(s, r)
<1> DEFINE t == Append(s, f)
<1>1. /\ t \in Seq(Frames) /\ t # <<>>
      /\ Len(s) \in Nat /\ Len(t) = Len(s) + 1
      /\ DOMAIN s = 1..Len(s) /\ DOMAIN t = 1..(Len(s) + 1)
      /\ \A k \in 1..Len(s) : t[k] = s[k]
      /\ t[Len(s) + 1] = f
      /\ Head(t) = IF s = <<>> THEN f ELSE Head(s)
  BY AppendFacts
<1>2. \A k \in DOMAIN s : s[k].n \in Nat /\ Counts(s[k]) \in {0, 1}
  BY <1>1, FrameNumber
<1>3. f.n \in Nat /\ Counts(f) \in {0, 1}
  BY FrameNumber
<1>4. \A k \in DOMAIN t : (k \in DOMAIN s /\ t[k] = s[k]) \/ (k = Len(s) + 1 /\ t[k] = f)
  BY <1>1
<1>5. \A k \in DOMAIN s : s[k].n <= r /\ Counts(s[k]) <= s[k].n
  BY DEF Numbered
<1> HIDE DEF t
<1>6. \A k \in DOMAIN t : t[k].n <= f.n /\ Counts(t[k]) <= t[k].n
  BY <1>2, <1>3, <1>4, <1>5
<1>7. \A k, l \in DOMAIN t : k < l => t[k].n + Counts(t[l]) <= t[l].n
  <2> TAKE k, l \in DOMAIN t
  <2> HAVE k < l
  <2>1. k \in DOMAIN s /\ t[k] = s[k]
    BY <1>1, <1>4
  <2>2. CASE l \in DOMAIN s /\ t[l] = s[l]
    BY <2>1, <2>2 DEF Numbered
  <2>3. CASE t[l] = f
    BY <1>2, <1>3, <1>5, <2>1, <2>3
  <2> QED
    BY <1>4, <2>2, <2>3
<1>8. \A k \in DOMAIN t : k + 1 \in DOMAIN t => t[k + 1].n = t[k].n + Counts(t[k + 1])
  <2> TAKE k \in DOMAIN t
  <2> HAVE k + 1 \in DOMAIN t
  <2>1. k \in DOMAIN s /\ t[k] = s[k]
    BY <1>1, <1>4
  <2>2. CASE k + 1 \in DOMAIN s /\ t[k + 1] = s[k + 1]
    BY <2>1, <2>2 DEF Numbered
  <2>3. CASE k + 1 = Len(s) + 1 /\ t[k + 1] = f
    <3>1. k = Len(s) /\ s # <<>>
      BY <1>1, <2>1, <2>3
    <3>2. s[k].n = r
      BY <3>1 DEF Numbered
    <3> QED
      BY <2>1, <2>3, <3>2
  <2> QED
    BY <1>4, <2>2, <2>3
<1>9. t[Len(t)].n = f.n
  BY <1>1
<1>10. HandledOf(t, f.n) = HandledOf(s, r)
  BY <1>1, <1>3 DEF HandledOf
<1>11. Numbered(t, f.n)
  BY <1>6, <1>7, <1>8, <1>9 DEF Numbered
<1> QED
  BY <1>10, <1>11 DEF t

(***************************************************************************)
(* The stream, the reply queue and the commands that wait for a reply      *)
(***************************************************************************)
(* The replies in the stream s find their jobs in the reply queue q.       *)
InLine(s, r, q) ==
  /\ Numbered(s, r)
  /\ \A k \in DOMAIN s : s[k].t \in ReplyKinds =>
       LET place == s[k].n - HandledOf(s, r) IN place \in DOMAIN q /\ q[place] = s[k].of

(* Behind them q lists the commands e, which no reply has been sent for.   *)
Expected(s, r, q, e) ==
  LET answered == r - HandledOf(s, r) IN
  /\ Len(q) = answered + Len(e)
  /\ \A k \in DOMAIN e : q[answered + k] = e[k].of

(* A reply or another frame is sent.                                       *)
LEMMA InLineAppend ==
  ASSUME NEW s \in Seq(Frames), NEW r \in Nat, NEW q \in Seq(JobOrNil), InLine(s, r, q),
         NEW f \in Frames, f.n = r + Counts(f),
         f.t \in ReplyKinds => /\ r + 1 - HandledOf(s, r) \in DOMAIN q
                               /\ q[r + 1 - HandledOf(s, r)] = f.of
  PROVE  InLine(Append(s, f), f.n, q)
<1>1. /\ Len(s) \in Nat /\ DOMAIN s = 1..Len(s) /\ DOMAIN Append(s, f) = 1..(Len(s) + 1)
      /\ \A k \in 1..Len(s) : Append(s, f)[k] = s[k]
      /\ Append(s, f)[Len(s) + 1] = f
  BY AppendFacts
<1>2. /\ Numbered(Append(s, f), f.n)
      /\ HandledOf(Append(s, f), f.n) = HandledOf(s, r)
  BY NumberedAppend DEF InLine
<1>3. f.t \in ReplyKinds => f.n = r + 1
  BY DEF Counts
<1> SUFFICES ASSUME NEW k \in DOMAIN Append(s, f), Append(s, f)[k].t \in ReplyKinds
             PROVE  LET place == Append(s, f)[k].n - HandledOf(s, r) IN
                    place \in DOMAIN q /\ q[place] = Append(s, f)[k].of
  BY <1>2 DEF InLine
<1>4. CASE k \in DOMAIN s
  BY <1>1, <1>4 DEF InLine
<1>5. CASE k = Len(s) + 1
  <2>1. Append(s, f)[k] = f
    BY <1>1, <1>5
  <2>2. f.t \in ReplyKinds
    BY <2>1, Zenon
  <2>3. f.n - HandledOf(s, r) = r + 1 - HandledOf(s, r)
    BY <1>3, <2>2, NumberedBounds DEF InLine
  <2> QED
    BY <2>1, <2>2, <2>3
<1> QED
  BY <1>1, <1>4, <1>5

(* The daemon sends a frame that is not a reply ...                        *)
LEMMA FrameSent ==
  ASSUME NEW s \in Seq(Frames), NEW r \in Nat, NEW q \in Seq(JobOrNil), InLine(s, r, q),
         NEW f \in Frames, f.n = r, f.t \notin ReplyKinds
  PROVE  /\ InLine(Append(s, f), r, q)
         /\ \A e : Expected(s, r, q, e) => Expected(Append(s, f), r, q, e)
<1>1. f.n = r + Counts(f)
  BY DEF Counts
<1>2. InLine(Append(s, f), f.n, q)
  BY <1>1, InLineAppend
<1>3. HandledOf(Append(s, f), f.n) = HandledOf(s, r)
  BY <1>1, NumberedAppend DEF InLine
<1> QED
  BY <1>2, <1>3 DEF Expected

(* ... or the reply to the first command that waits for one.               *)
LEMMA ReplySent ==
  ASSUME NEW s \in Seq(Frames), NEW r \in Nat, NEW q \in Seq(JobOrNil), InLine(s, r, q),
         NEW e \in Seq(Commands), Expected(s, r, q, e), e # <<>>,
         NEW f \in Frames, f.n = r + 1, f.t \in ReplyKinds, f.of = Head(e).of
  PROVE  /\ InLine(Append(s, f), f.n, q)
         /\ Expected(Append(s, f), f.n, q, Tail(e))
<1> DEFINE h == HandledOf(s, r)
<1>1. f.n = r + Counts(f)
  BY DEF Counts
<1>2. h \in Nat /\ h <= r
  BY NumberedBounds DEF InLine
<1>3. /\ Head(e) = e[1] /\ Len(e) \in Nat \ {0} /\ Len(Tail(e)) = Len(e) - 1
      /\ DOMAIN e = 1..Len(e) /\ DOMAIN Tail(e) = 1..(Len(e) - 1)
      /\ \A k \in 1..(Len(e) - 1) : Tail(e)[k] = e[k + 1]
  BY TailFacts
<1>4. DOMAIN q = 1..Len(q) /\ Len(q) \in Nat
  BY LenProperties
<1>5. Len(q) = (r - h) + Len(e) /\ \A k \in DOMAIN e : q[(r - h) + k] = e[k].of
  BY DEF Expected
<1>6. HandledOf(Append(s, f), f.n) = h
  BY <1>1, NumberedAppend DEF InLine
<1> HIDE DEF h
<1>7. r + 1 - h \in DOMAIN q /\ q[r + 1 - h] = f.of
  <2>1. q[(r - h) + 1] = e[1].of
    BY <1>3, <1>5
  <2>2. (r - h) + 1 = r + 1 - h /\ r + 1 - h \in 1..Len(q)
    BY <1>2, <1>3, <1>5
  <2> QED
    BY <1>3, <1>4, <2>1, <2>2
<1>8. InLine(Append(s, f), f.n, q)
  BY <1>1, <1>7, InLineAppend DEF h
<1>9. Len(q) = (r + 1 - h) + Len(Tail(e))
  BY <1>2, <1>3, <1>4, <1>5
<1>10. ASSUME NEW k \in DOMAIN Tail(e) PROVE q[(r + 1 - h) + k] = Tail(e)[k].of
  <2>1. k + 1 \in DOMAIN e /\ Tail(e)[k] = e[k + 1] /\ k \in Nat
    BY <1>3
  <2>2. (r - h) + (k + 1) = (r + 1 - h) + k
    BY <1>2, <2>1
  <2> QED
    BY <1>5, <2>1, <2>2
<1>11. /\ Len(q) = (f.n - HandledOf(Append(s, f), f.n)) + Len(Tail(e))
       /\ \A k \in DOMAIN Tail(e) :
            q[(f.n - HandledOf(Append(s, f), f.n)) + k] = Tail(e)[k].of
  <2>1. f.n - HandledOf(Append(s, f), f.n) = r + 1 - h
    BY <1>2, <1>6
  <2> QED
    BY <1>9, <1>10, <2>1
<1>12. Expected(Append(s, f), f.n, q, Tail(e))
  BY <1>11 DEF Expected
<1> QED
  BY <1>8, <1>12

(* The reader handles a frame: a reply takes the head of the queue, which  *)
(* is the job of the reply.                                                *)
LEMMA FrameRead ==
  ASSUME NEW s \in Seq(Frames), NEW r \in Nat, NEW q \in Seq(JobOrNil), InLine(s, r, q), s # <<>>
  PROVE  /\ Head(s).t \notin ReplyKinds =>
              /\ InLine(Tail(s), r, q)
              /\ \A e : Expected(s, r, q, e) => Expected(Tail(s), r, q, e)
         /\ Head(s).t \in ReplyKinds =>
              /\ q # <<>> /\ Head(q) = Head(s).of
              /\ InLine(Tail(s), r, Tail(q))
              /\ \A e \in Seq(Commands) : Expected(s, r, q, e) => Expected(Tail(s), r, Tail(q), e)
<1> DEFINE h == HandledOf(s, r)
           t == Tail(s)
<1>1. /\ Head(s) \in Frames /\ Head(s) = s[1] /\ Len(s) \in Nat \ {0}
      /\ DOMAIN s = 1..Len(s) /\ DOMAIN t = 1..(Len(s) - 1)
      /\ \A k \in 1..(Len(s) - 1) : t[k] = s[k + 1]
  BY TailFacts
<1>2. /\ Numbered(t, r) /\ HandledOf(t, r) = h + Counts(s[1])
      /\ h \in Nat /\ h <= r /\ HandledOf(t, r) <= r
  BY <1>1, NumberedTail DEF InLine
<1>3. \A k \in DOMAIN s : s[k].t \in ReplyKinds => s[k].n - h \in DOMAIN q /\ q[s[k].n - h] = s[k].of
  BY DEF InLine
<1>4. \A k \in DOMAIN t : k + 1 \in DOMAIN s /\ k + 1 > 1 /\ t[k] = s[k + 1]
  BY <1>1
<1>5. \A k \in DOMAIN s : k > 1 => h + Counts(s[1]) + Counts(s[k]) <= s[k].n
  BY NumberedBounds DEF InLine
<1>6. \A k \in DOMAIN s : s[k].n \in Nat
  BY <1>1, FrameNumber
<1>7. h = s[1].n - Counts(s[1])
  BY <1>1 DEF HandledOf
<1> HIDE DEF h, t
<1>8. ASSUME Head(s).t \notin ReplyKinds
      PROVE  InLine(t, r, q) /\ \A e : Expected(s, r, q, e) => Expected(t, r, q, e)
  <2>1. HandledOf(t, r) = h
    BY <1>1, <1>2, <1>8 DEF Counts
  <2> QED
    BY <1>2, <1>3, <1>4, <2>1 DEF InLine, Expected, h
<1>9. ASSUME Head(s).t \in ReplyKinds
      PROVE  /\ q # <<>> /\ Head(q) = Head(s).of
             /\ InLine(t, r, Tail(q))
             /\ \A e \in Seq(Commands) : Expected(s, r, q, e) => Expected(t, r, Tail(q), e)
  <2>0. s[1] = Head(s) /\ Counts(s[1]) = 1
    BY <1>1, <1>9 DEF Counts
  <2>1. Counts(s[1]) = 1 /\ HandledOf(t, r) = h + 1 /\ s[1].n - h = 1
    <3>1. s[1].n \in Nat
      BY <1>1, <1>6
    <3> QED
      BY <1>2, <1>7, <2>0, <3>1
  <2>2. 1 \in DOMAIN q /\ q[1] = s[1].of
    BY <1>1, <1>3, <1>9, <2>1
  <2>3. q # <<>>
    BY <2>2
  <2>4. /\ Head(q) = q[1] /\ Len(q) \in Nat \ {0} /\ Len(Tail(q)) = Len(q) - 1
        /\ DOMAIN q = 1..Len(q) /\ DOMAIN Tail(q) = 1..(Len(q) - 1)
        /\ \A k \in 1..(Len(q) - 1) : Tail(q)[k] = q[k + 1]
    BY <2>3, TailFacts
  <2>5. ASSUME NEW k \in DOMAIN t, t[k].t \in ReplyKinds
        PROVE  t[k].n - (h + 1) \in DOMAIN Tail(q) /\ Tail(q)[t[k].n - (h + 1)] = t[k].of
    <3>1. k + 1 \in DOMAIN s /\ k + 1 > 1 /\ t[k] = s[k + 1]
      BY <1>4
    <3>2. t[k].n \in Nat /\ h + 1 + 1 <= t[k].n
      BY <1>5, <1>6, <2>1, <2>5, <3>1 DEF Counts
    <3>3. t[k].n - h \in DOMAIN q /\ q[t[k].n - h] = t[k].of
      BY <1>3, <2>5, <3>1
    <3>4. t[k].n - (h + 1) \in 1..(Len(q) - 1) /\ (t[k].n - (h + 1)) + 1 = t[k].n - h
      BY <1>2, <2>4, <3>2, <3>3
    <3> QED
      BY <2>4, <3>3, <3>4
  <2>6. InLine(t, r, Tail(q))
    BY <1>2, <2>1, <2>5 DEF InLine
  <2>7. ASSUME NEW e \in Seq(Commands), Expected(s, r, q, e) PROVE Expected(t, r, Tail(q), e)
    <3>1. Len(q) = (r - h) + Len(e) /\ \A k \in DOMAIN e : q[(r - h) + k] = e[k].of
      BY <2>7 DEF Expected, h
    <3>2. Len(e) \in Nat /\ DOMAIN e = 1..Len(e)
      BY LenProperties
    <3>3. Len(Tail(q)) = (r - (h + 1)) + Len(e)
      BY <1>2, <2>4, <3>1, <3>2
    <3>4. ASSUME NEW k \in DOMAIN e PROVE Tail(q)[(r - (h + 1)) + k] = e[k].of
      <4>1. k \in 1..Len(e) /\ h + 1 <= r
        BY <1>2, <2>1, <3>2
      <4>2. /\ (r - (h + 1)) + k \in 1..(Len(q) - 1)
            /\ ((r - (h + 1)) + k) + 1 = (r - h) + k
        BY <1>2, <2>4, <3>1, <3>2, <4>1
      <4> QED
        BY <2>4, <3>1, <4>2
    <3> QED
      BY <2>1, <3>3, <3>4 DEF Expected
  <2> QED
    BY <2>2, <2>3, <2>4, <2>6, <2>7, <1>1
<1> QED
  BY <1>8, <1>9 DEF t

(* The writer registers a command.                                         *)
LEMMA Registered ==
  ASSUME NEW s \in Seq(Frames), NEW r \in Nat, NEW q \in Seq(JobOrNil), InLine(s, r, q),
         NEW c \in Commands
  PROVE  /\ InLine(s, r, Append(q, c.of))
         /\ \A e \in Seq(Commands) :
              Expected(s, r, q, e) => Expected(s, r, Append(q, c.of), Append(e, c))
<1> DEFINE h == HandledOf(s, r)
           p == Append(q, c.of)
<1>1. c.of \in JobOrNil
  BY DEF Commands, JobOrNil
<1>2. /\ Len(q) \in Nat /\ Len(p) = Len(q) + 1
      /\ DOMAIN q = 1..Len(q) /\ DOMAIN p = 1..(Len(q) + 1)
      /\ \A k \in 1..Len(q) : p[k] = q[k]
      /\ p[Len(q) + 1] = c.of
  BY <1>1, AppendFacts
<1>3. h \in Nat /\ h <= r
  BY NumberedBounds DEF InLine
<1> HIDE DEF h, p
<1>4. \A k \in DOMAIN q : k \in DOMAIN p /\ p[k] = q[k]
  BY <1>2
<1>5. InLine(s, r, p)
  BY <1>4 DEF InLine
<1>6. ASSUME NEW e \in Seq(Commands), Expected(s, r, q, e) PROVE Expected(s, r, p, Append(e, c))
  <2>1. Len(q) = (r - h) + Len(e) /\ \A k \in DOMAIN e : q[(r - h) + k] = e[k].of
    BY <1>6 DEF Expected, h
  <2>2. /\ Len(e) \in Nat /\ Len(Append(e, c)) = Len(e) + 1
        /\ DOMAIN e = 1..Len(e) /\ DOMAIN Append(e, c) = 1..(Len(e) + 1)
        /\ \A k \in 1..Len(e) : Append(e, c)[k] = e[k]
        /\ Append(e, c)[Len(e) + 1] = c
    BY AppendFacts
  <2>3. Len(p) = (r - h) + Len(Append(e, c))
    BY <1>2, <1>3, <2>1, <2>2
  <2>4. ASSUME NEW k \in DOMAIN Append(e, c) PROVE p[(r - h) + k] = Append(e, c)[k].of
    <3>1. CASE k \in DOMAIN e
      <4>1. (r - h) + k \in 1..Len(q)
        BY <1>3, <2>1, <2>2, <3>1
      <4> QED
        BY <1>2, <2>1, <2>2, <3>1, <4>1
    <3>2. CASE k = Len(e) + 1
      <4>1. (r - h) + k = Len(q) + 1
        BY <1>3, <2>1, <2>2, <3>2
      <4> QED
        BY <1>2, <2>2, <3>2, <4>1
    <3> QED
      BY <2>2, <3>1, <3>2
  <2> QED
    BY <2>3, <2>4 DEF Expected, h
<1> QED
  BY <1>5, <1>6 DEF p

(***************************************************************************)
(* What the daemon does to its connection                                  *)
(***************************************************************************)
Frame(kind, j, i, n) == [t |-> kind, of |-> j, id |-> i, n |-> n]

(* The queues and the tasks of g after a step.                             *)
Link(g, commands, stream, accepted, running, sent) ==
  /\ toDaemon'[g] = commands /\ toClient'[g] = stream /\ replies'[g] = sent
  /\ tasks'[g] = accepted /\ live'[g] = running

(* It answers a command (a trace it accepts or rejects, a halt), sends a   *)
(* frame of its own, or goes away.                                         *)
Accepts(g) ==
  LET j == Head(toDaemon[g]).of
      i == Len(tasks[g]) + 1
      f == Frame("okid", j, i, replies[g] + 1)
  IN /\ toDaemon[g] # <<>> /\ j \in Jobs /\ i \in Ids /\ f \in Frames
     /\ Link(g, Tail(toDaemon[g]), Append(toClient[g], f), Append(tasks[g], j),
             live[g] \cup {i}, replies[g] + 1)

Rejects(g) ==
  LET f == Frame("err", Head(toDaemon[g]).of, 0, replies[g] + 1)
  IN /\ toDaemon[g] # <<>> /\ Head(toDaemon[g]).t = "trace" /\ f \in Frames
     /\ Link(g, Tail(toDaemon[g]), Append(toClient[g], f), tasks[g], live[g], replies[g] + 1)

(* The reply to a halt, perhaps with the partial DATA of the task.         *)
Halts(g, kind) ==
  LET c == Head(toDaemon[g])
      f == Frame(kind, c.of, 0, replies[g] + 1)
      last == Frame("final", tasks[g][c.id], c.id, replies[g] + 1)
  IN /\ toDaemon[g] # <<>> /\ c.t = "halt" /\ c.of = Nil /\ f \in Frames
     /\ \/ Link(g, Tail(toDaemon[g]), Append(toClient[g], f), tasks[g], live[g] \ {c.id},
                replies[g] + 1)
        \/ /\ c.id \in live[g] /\ last \in Frames
           /\ Link(g, Tail(toDaemon[g]), Append(Append(toClient[g], f), last), tasks[g],
                   live[g] \ {c.id}, replies[g] + 1)

Sends(g, i, kind) ==
  LET f == Frame(kind, tasks[g][i], i, replies[g])
  IN /\ i \in live[g] /\ f \in Frames
     /\ Link(g, toDaemon[g], Append(toClient[g], f), tasks[g],
             IF kind = "inprogress" THEN live[g] ELSE live[g] \ {i}, replies[g])

Chatters(g, kind) ==
  LET f == Frame(kind, Nil, 0, replies[g])
  IN /\ f \in Frames
     /\ Link(g, toDaemon[g], Append(toClient[g], f), tasks[g], live[g], replies[g])

Leaves(g) ==
  /\ peer'[g] = "down"
  /\ Link(g, <<>>, toClient[g], tasks[g], {}, replies[g])

DaemonMoves(g) ==
  /\ peer[g] = "up"
  /\ \/ Leaves(g)
     \/ /\ peer'[g] = "up"
        /\ \/ Accepts(g) \/ Rejects(g)
           \/ \E kind \in {"halted", "err"} : Halts(g, kind)
           \/ \E i \in live[g], kind \in DataKinds : Sends(g, i, kind)
           \/ \E kind \in {"noise", "bad"} : Chatters(g, kind)

(* A frame put into the stream, and one more behind it.                    *)
LEMMA AppendedFrames ==
  ASSUME NEW g \in Gens, TypeOK, NEW f \in Frames
  PROVE  /\ Append(toClient[g], f) \o <<>> = Append(toClient[g], f)
         /\ \A last \in Frames :
              Append(toClient[g], f) \o <<last>> = Append(Append(toClient[g], f), last)
<1> DEFINE s == Append(toClient[g], f)
<1>1. s \in Seq(Frames)
  BY AppendProperties DEF TypeOK, SocketTypeOK
<1> HIDE DEF s
<1>2. s \o <<>> = s
  BY <1>1, ConcatEmptySeq
<1>3. \A last \in Frames : Append(s, last) = s \o <<last>>
  BY <1>1, AppendIsConcat
<1> QED
  BY <1>2, <1>3 DEF s

(* What a step of the daemon does to both directions of a connection.      *)
LEMMA DaemonFacts ==
  ASSUME NEW g \in Gens, TypeOK, DaemonStep(g)
  PROVE  DaemonMoves(g)
<1> DEFINE c == Head(toDaemon[g])
<1>0. /\ <<>> \in Seq(Frames) /\ replies[g] \in Nat /\ replies[g] + 1 \in Nat
      /\ \A i \in live[g] : i \in Ids /\ tasks[g][i] \in Jobs
  BY DEF TypeOK, SocketTypeOK
<1>1. toDaemon[g] # <<>> => c \in Commands /\ c.of \in JobOrNil /\ (c.t = "trace" => c.of \in Jobs)
                            /\ (c.t = "halt" => c.of = Nil)
  BY HeadCommand DEF TypeOK, Commands
<1>2. CASE AcceptTrace(g)
  <2> DEFINE i == Len(tasks[g]) + 1
  <2>1. /\ toDaemon[g] # <<>> /\ c.t = "trace" /\ Answer(g, "okid", i, <<>>) /\ i \in Ids
        /\ tasks'[g] = Append(tasks[g], c.of) /\ live'[g] = live[g] \cup {i}
        /\ peer[g] = "up" /\ peer'[g] = "up"
    <3>1. /\ toDaemon[g] # <<>> /\ c.t = "trace" /\ Answer(g, "okid", i, <<>>)
          /\ peer[g] = "up" /\ peer' = peer /\ Len(tasks[g]) < MaxId
          /\ tasks' = [tasks EXCEPT ![g] = Append(@, c.of)] /\ live' = [live EXCEPT ![g] = @ \cup {i}]
      BY <1>2 DEF AcceptTrace, Room, NextCommand
    <3>2. g \in DOMAIN tasks /\ g \in DOMAIN live /\ Len(tasks[g]) \in Nat
      BY DEF TypeOK, SocketTypeOK
    <3> QED
      BY <3>1, <3>2, SocketAssumption DEF Ids
  <2>2. c.of \in Jobs
    BY <1>1, <2>1
  <2>5. PICK f \in Frames : f = Frame("okid", c.of, i, replies[g] + 1)
    BY <1>0, <2>1, <2>2, TaskFrame DEF Frame
  <2>3. /\ toDaemon'[g] = Tail(toDaemon[g]) /\ replies'[g] = replies[g] + 1
        /\ toClient'[g] = Append(toClient[g], f)
    <3>1. /\ toDaemon'[g] = Tail(toDaemon[g]) /\ replies'[g] = replies[g] + 1
          /\ toClient'[g] = Append(toClient[g], f) \o <<>>
      BY <2>1, <2>5 DEF Answer, Frame, TypeOK, SocketTypeOK
    <3> QED
      BY <3>1, AppendedFrames
  <2>4. Accepts(g)
    BY <2>1, <2>2, <2>3, <2>5 DEF Accepts, Link
  <2> QED
    BY <2>1, <2>4 DEF DaemonMoves
<1>3. CASE RejectTrace(g)
  <2>1. /\ toDaemon[g] # <<>> /\ c.t = "trace" /\ Answer(g, "err", 0, <<>>)
        /\ tasks'[g] = tasks[g] /\ live'[g] = live[g] /\ peer[g] = "up" /\ peer'[g] = "up"
    BY <1>3 DEF RejectTrace, Room, NextCommand
  <2>2. PICK f \in Frames : f = Frame("err", c.of, 0, replies[g] + 1)
    BY <1>0, <1>1, <2>1, OtherFrame DEF Frame
  <2>3. /\ toDaemon'[g] = Tail(toDaemon[g]) /\ replies'[g] = replies[g] + 1
        /\ toClient'[g] = Append(toClient[g], f)
    <3>1. /\ toDaemon'[g] = Tail(toDaemon[g]) /\ replies'[g] = replies[g] + 1
          /\ toClient'[g] = Append(toClient[g], f) \o <<>>
      BY <2>1, <2>2 DEF Answer, Frame, TypeOK, SocketTypeOK
    <3> QED
      BY <3>1, AppendedFrames
  <2>4. Rejects(g)
    BY <2>1, <2>2, <2>3 DEF Rejects, Link
  <2> QED
    BY <2>1, <2>4 DEF DaemonMoves
<1>4. CASE AnswerHalt(g)
  <2> DEFINE last == Frame("final", tasks[g][c.id], c.id, replies[g] + 1)
  <2>1. /\ toDaemon[g] # <<>> /\ c.t = "halt" /\ c.of = Nil
        /\ tasks'[g] = tasks[g] /\ live'[g] = live[g] \ {c.id} /\ peer[g] = "up" /\ peer'[g] = "up"
    BY <1>1, <1>4 DEF AnswerHalt, Room, NextCommand, TypeOK, SocketTypeOK
  <2>2. c.id \in live[g] => last \in Frames
    BY <1>0, TaskFrame DEF Frame, DataKinds
  <2>3. PICK kind \in {"halted", "err"} : \/ Answer(g, kind, 0, <<>>)
                                          \/ c.id \in live[g] /\ Answer(g, kind, 0, <<last>>)
    BY <1>4 DEF AnswerHalt, Frame
  <2>4. PICK f \in Frames : f = Frame(kind, c.of, 0, replies[g] + 1)
    BY <1>0, <1>1, <2>1, OtherFrame DEF Frame
  <2>5. Halts(g, kind)
    <3>1. CASE Answer(g, kind, 0, <<>>)
      <4>1. /\ toDaemon'[g] = Tail(toDaemon[g]) /\ replies'[g] = replies[g] + 1
            /\ toClient'[g] = Append(toClient[g], f)
        <5>1. /\ toDaemon'[g] = Tail(toDaemon[g]) /\ replies'[g] = replies[g] + 1
              /\ toClient'[g] = Append(toClient[g], f) \o <<>>
          BY <2>4, <3>1 DEF Answer, Frame, TypeOK, SocketTypeOK
        <5> QED
          BY <5>1, AppendedFrames
      <4> QED
        BY <2>1, <2>4, <4>1 DEF Halts, Link
    <3>2. CASE c.id \in live[g] /\ Answer(g, kind, 0, <<last>>)
      <4>1. /\ toDaemon'[g] = Tail(toDaemon[g]) /\ replies'[g] = replies[g] + 1
            /\ toClient'[g] = Append(Append(toClient[g], f), last)
        <5> HIDE DEF last
        <5>1. /\ toDaemon'[g] = Tail(toDaemon[g]) /\ replies'[g] = replies[g] + 1
              /\ toClient'[g] = Append(toClient[g], f) \o <<last>>
          BY <2>4, <3>2 DEF Answer, Frame, TypeOK, SocketTypeOK
        <5> QED
          BY <2>2, <3>2, <5>1, AppendedFrames
      <4> QED
        BY <2>1, <2>2, <2>4, <3>2, <4>1 DEF Halts, Link
    <3> QED
      BY <2>3, <3>1, <3>2
  <2> QED
    BY <2>1, <2>5 DEF DaemonMoves
<1>5. ASSUME NEW i \in live[g], NEW kind \in DataKinds, SendData(g, i, kind)
      PROVE  DaemonMoves(g)
  <2>1. Frame(kind, tasks[g][i], i, replies[g]) \in Frames
    BY <1>0, TaskFrame DEF Frame
  <2>2. peer[g] = "up" /\ peer'[g] = "up" /\ Sends(g, i, kind)
    BY <1>5, <2>1 DEF SendData, Room, Sends, Link, Frame, TypeOK, SocketTypeOK
  <2> QED
    BY <2>2 DEF DaemonMoves
<1>6. CASE SendOther(g)
  <2>1. PICK kind \in {"noise", "bad"} \cap Events :
          /\ Room(g) /\ UNCHANGED <<peer, toDaemon, tasks, live, replies>>
          /\ toClient' = [toClient EXCEPT ![g] = Append(@, Frame(kind, Nil, 0, replies[g]))]
    BY <1>6 DEF SendOther, Frame
  <2>2. Frame(kind, Nil, 0, replies[g]) \in Frames
    BY <1>0, OtherFrame DEF Frame, JobOrNil
  <2>3. peer[g] = "up" /\ peer'[g] = "up" /\ Chatters(g, kind)
    BY <2>1, <2>2 DEF Room, Chatters, Link, TypeOK, SocketTypeOK
  <2> QED
    BY <2>3 DEF DaemonMoves
<1>7. CASE Drop(g)
  <2>1. peer[g] = "up" /\ Leaves(g)
    BY <1>7 DEF Drop, Leaves, Link, TypeOK, SocketTypeOK
  <2> QED
    BY <2>1 DEF DaemonMoves
<1> QED
  BY <1>2, <1>3, <1>4, <1>5, <1>6, <1>7 DEF DaemonStep, DaemonAnswer

(***************************************************************************)
(* ReplyAlignment                                                          *)
(***************************************************************************)
(* The commands a reply is still to be sent for: those on their way to the *)
(* daemon and the one being written, registered already.                   *)
Waiting(g) == IF writer[g].pc = "write" THEN Append(toDaemon[g], writer[g].req) ELSE toDaemon[g]

InOrder(g) ==
  /\ InLine(toClient[g], replies[g], replyQ[g])
  /\ peer[g] = "up" => Expected(toClient[g], replies[g], replyQ[g], Waiting(g))

AlignInv == \A g \in Gens : state[g] = "open" => InOrder(g)

(* The types of the queues of one connection.                              *)
LEMMA LinkTypes ==
  ASSUME NEW g \in Gens, TypeOK
  PROVE  /\ toDaemon[g] \in Seq(Commands) /\ toClient[g] \in Seq(Frames) /\ replies[g] \in Nat
         /\ writeCh[g] \in Seq(Commands) /\ replyQ[g] \in Seq(JobOrNil)
         /\ writer[g].req \in Commands /\ tasks[g] \in Seq(Jobs) /\ Waiting(g) \in Seq(Commands)
<1>1. /\ toDaemon[g] \in Seq(Commands) /\ toClient[g] \in Seq(Frames) /\ replies[g] \in Nat
      /\ writeCh[g] \in Seq(Commands) /\ replyQ[g] \in Seq(JobOrNil)
      /\ writer[g].req \in Commands /\ tasks[g] \in Seq(Jobs)
  BY DEF TypeOK, SocketTypeOK, ConnTypeOK
<1>2. Waiting(g) \in Seq(Commands)
  BY <1>1, AppendProperties DEF Waiting
<1> QED
  BY <1>1, <1>2

(* The daemon takes the command that has waited longest.                   *)
LEMMA WaitingHead ==
  ASSUME NEW g \in Gens, TypeOK, toDaemon[g] # <<>>, UNCHANGED writer
  PROVE  /\ Waiting(g) # <<>> /\ Head(Waiting(g)) = Head(toDaemon[g])
         /\ toDaemon'[g] = Tail(toDaemon[g]) => Waiting(g)' = Tail(Waiting(g))
<1>1. toDaemon[g] \in Seq(Commands) /\ writer[g].req \in Commands
  BY LinkTypes
<1>2. /\ Append(toDaemon[g], writer[g].req) # <<>>
      /\ Head(Append(toDaemon[g], writer[g].req)) = Head(toDaemon[g])
      /\ Tail(Append(toDaemon[g], writer[g].req)) = Append(Tail(toDaemon[g]), writer[g].req)
  BY <1>1, HeadTailAppend, AppendProperties
<1> QED
  BY <1>2 DEF Waiting

(* The daemon sends its replies in the order of the commands.              *)
LEMMA DaemonInOrder ==
  ASSUME NEW g \in Gens, TypeOK, InOrder(g), DaemonStep(g), UNCHANGED <<writer, replyQ>>
  PROVE  InOrder(g)'
<1> DEFINE s == toClient[g]
           r == replies[g]
           q == replyQ[g]
           e == Waiting(g)
           c == Head(toDaemon[g])
<1>1. s \in Seq(Frames) /\ r \in Nat /\ q \in Seq(JobOrNil) /\ e \in Seq(Commands)
  BY LinkTypes
<1>2. DaemonMoves(g)
  BY DaemonFacts
<1>3. InLine(s, r, q) /\ Expected(s, r, q, e)
  BY <1>2 DEF InOrder, DaemonMoves
<1>4. toDaemon[g] # <<>> =>
        /\ e # <<>> /\ Head(e) = c
        /\ toDaemon'[g] = Tail(toDaemon[g]) => Waiting(g)' = Tail(e)
  BY WaitingHead
<1>5. toDaemon'[g] = toDaemon[g] => Waiting(g)' = e
  BY DEF Waiting
<1> HIDE DEF s, r, q, e
<1>6. ASSUME NEW f \in Frames, f.t \notin ReplyKinds, f.n = r
      PROVE  InLine(Append(s, f), r, q) /\ Expected(Append(s, f), r, q, e)
  BY <1>1, <1>3, <1>6, FrameSent
<1>7. ASSUME NEW f \in Frames, f.t \in ReplyKinds, f.n = r + 1, f.of = c.of, toDaemon[g] # <<>>
      PROVE  InLine(Append(s, f), r + 1, q) /\ Expected(Append(s, f), r + 1, q, Tail(e))
  <2>1. f.of = Head(e).of /\ e # <<>>
    BY <1>4, <1>7
  <2>2. InLine(Append(s, f), f.n, q) /\ Expected(Append(s, f), f.n, q, Tail(e))
    BY <1>1, <1>3, <1>7, <2>1, ReplySent
  <2> QED
    BY <1>7, <2>2
<1>8. CASE Leaves(g)
  BY <1>3, <1>8 DEF Leaves, Link, InOrder, s, r, q
<1>9. CASE Accepts(g)
  <2> DEFINE f == Frame("okid", c.of, Len(tasks[g]) + 1, r + 1)
  <2>1. /\ toDaemon[g] # <<>> /\ f \in Frames /\ toDaemon'[g] = Tail(toDaemon[g])
        /\ toClient'[g] = Append(s, f) /\ replies'[g] = r + 1
    BY <1>9 DEF Accepts, Link, s, r
  <2>2. f.t \in ReplyKinds /\ f.n = r + 1 /\ f.of = c.of
    BY DEF Frame, ReplyKinds
  <2> HIDE DEF f
  <2> QED
    BY <1>4, <1>7, <2>1, <2>2 DEF InOrder, q
<1>10. CASE Rejects(g)
  <2> DEFINE f == Frame("err", c.of, 0, r + 1)
  <2>1. /\ toDaemon[g] # <<>> /\ f \in Frames /\ toDaemon'[g] = Tail(toDaemon[g])
        /\ toClient'[g] = Append(s, f) /\ replies'[g] = r + 1
    BY <1>10 DEF Rejects, Link, s, r
  <2>2. f.t \in ReplyKinds /\ f.n = r + 1 /\ f.of = c.of
    BY DEF Frame, ReplyKinds
  <2> HIDE DEF f
  <2> QED
    BY <1>4, <1>7, <2>1, <2>2 DEF InOrder, q
<1>11. ASSUME NEW kind \in {"halted", "err"}, Halts(g, kind)
       PROVE  InOrder(g)'
  <2> DEFINE f == Frame(kind, c.of, 0, r + 1)
             last == Frame("final", tasks[g][c.id], c.id, r + 1)
  <2>1. /\ toDaemon[g] # <<>> /\ f \in Frames /\ toDaemon'[g] = Tail(toDaemon[g])
        /\ toClient'[g] = Append(s, f) \/ (last \in Frames /\ toClient'[g] = Append(Append(s, f), last))
        /\ replies'[g] = r + 1
    BY <1>11 DEF Halts, Link, s, r
  <2>2. f.t \in ReplyKinds /\ f.n = r + 1 /\ f.of = c.of
    BY DEF Frame, ReplyKinds
  <2>3. last.t \notin ReplyKinds /\ last.n = r + 1
    BY DEF Frame, ReplyKinds
  <2> HIDE DEF f, last
  <2>4. InLine(Append(s, f), r + 1, q) /\ Expected(Append(s, f), r + 1, q, Tail(e))
    BY <1>7, <2>1, <2>2
  <2>5. ASSUME last \in Frames
        PROVE  /\ InLine(Append(Append(s, f), last), r + 1, q)
               /\ Expected(Append(Append(s, f), last), r + 1, q, Tail(e))
    <3> DEFINE t == Append(s, f)
               n == r + 1
    <3>1. t \in Seq(Frames) /\ n \in Nat
      BY <1>1, <2>1, AppendProperties
    <3>2. InLine(t, n, q) /\ Expected(t, n, q, Tail(e)) /\ last.n = n
      BY <2>3, <2>4
    <3> HIDE DEF t, n
    <3>3. InLine(Append(t, last), n, q) /\ Expected(Append(t, last), n, q, Tail(e))
      BY <1>1, <2>3, <2>5, <3>1, <3>2, FrameSent
    <3> QED
      BY <3>3 DEF t, n
  <2> QED
    BY <1>4, <2>1, <2>4, <2>5 DEF InOrder, q
<1>12. ASSUME NEW i \in live[g], NEW kind \in DataKinds, Sends(g, i, kind)
       PROVE  InOrder(g)'
  <2> DEFINE f == Frame(kind, tasks[g][i], i, r)
  <2>1. /\ f \in Frames /\ toDaemon'[g] = toDaemon[g] /\ toClient'[g] = Append(s, f)
        /\ replies'[g] = r
    BY <1>12 DEF Sends, Link, s, r
  <2>2. f.t \notin ReplyKinds /\ f.n = r
    BY DEF Frame, ReplyKinds, DataKinds
  <2> HIDE DEF f
  <2> QED
    BY <1>5, <1>6, <2>1, <2>2 DEF InOrder, q
<1>13. ASSUME NEW kind \in {"noise", "bad"}, Chatters(g, kind)
       PROVE  InOrder(g)'
  <2> DEFINE f == Frame(kind, Nil, 0, r)
  <2>1. /\ f \in Frames /\ toDaemon'[g] = toDaemon[g] /\ toClient'[g] = Append(s, f)
        /\ replies'[g] = r
    BY <1>13 DEF Chatters, Link, s, r
  <2>2. f.t \notin ReplyKinds /\ f.n = r
    BY DEF Frame, ReplyKinds
  <2> HIDE DEF f
  <2> QED
    BY <1>5, <1>6, <2>1, <2>2 DEF InOrder, q
<1> QED
  BY <1>2, <1>8, <1>9, <1>10, <1>11, <1>12, <1>13 DEF DaemonMoves

(* fail leaves no connection open.                                         *)
LEMMA FailNotOpen ==
  ASSUME NEW g \in Gens, TypeOK, NEW why, Fail(g, why)
  PROVE  state'[g] # "open"
BY DEF Fail, TypeOK, ConnTypeOK

(* The writer registers before it writes, the reader takes one entry for   *)
(* every reply and none for anything else.                                 *)
LEMMA ConnInOrder ==
  ASSUME NEW g \in Gens, TypeOK, state[g] = "open" => InOrder(g), ConnStep(g), state'[g] = "open"
  PROVE  InOrder(g)'
<1> DEFINE s == toClient[g]
           r == replies[g]
           q == replyQ[g]
           e == Waiting(g)
<1>1. s \in Seq(Frames) /\ r \in Nat /\ q \in Seq(JobOrNil) /\ e \in Seq(Commands)
  BY LinkTypes
<1>2. ASSUME UNCHANGED <<state, socketVars, replyQ, writer>> PROVE InOrder(g)'
  BY <1>2 DEF InOrder, Waiting, socketVars
<1>3. CASE WriterTake(g)
  <2> DEFINE req == Head(writeCh[g])
  <2>1. /\ writeCh[g] # <<>> /\ state[g] = "open" /\ e = toDaemon[g]
        /\ replyQ'[g] = Append(q, req.of) /\ writer'[g] = [pc |-> "write", req |-> req]
        /\ UNCHANGED socketVars
    BY <1>3 DEF WriterTake, Waiting, TypeOK, ConnTypeOK
  <2>2. req \in Commands
    BY <2>1, QueueFacts
  <2>3. Waiting(g)' = Append(e, req)
    <3>1. writer'[g].pc = "write" /\ writer'[g].req = req /\ toDaemon'[g] = toDaemon[g]
      BY <2>1 DEF socketVars
    <3> HIDE DEF req, e
    <3> QED
      BY <2>1, <3>1 DEF Waiting
  <2> HIDE DEF req, s, r, q, e
  <2>4. InLine(s, r, q) /\ (peer[g] = "up" => Expected(s, r, q, e))
    BY <2>1 DEF InOrder, s, r, q, e
  <2>5. InLine(s, r, Append(q, req.of))
        /\ (peer[g] = "up" => Expected(s, r, Append(q, req.of), Append(e, req)))
    BY <1>1, <2>2, <2>4, Registered
  <2> QED
    BY <2>1, <2>3, <2>5 DEF InOrder, socketVars, s, r
<1>4. CASE WriterSend(g)
  <2>1. /\ writer[g].pc = "write" /\ toDaemon'[g] = Append(toDaemon[g], writer[g].req)
        /\ writer'[g].pc = "idle"
        /\ UNCHANGED <<state, peer, toClient, replies, replyQ>>
    BY <1>4 DEF WriterSend, Transmit, WriterIdle, TypeOK, SocketTypeOK, ConnTypeOK
  <2>2. Waiting(g)' = Waiting(g)
    BY <2>1 DEF Waiting
  <2> QED
    BY <2>1, <2>2 DEF InOrder
<1>5. CASE WriterError(g) \/ ReadBad(g) \/ ReadEnd(g)
  BY <1>5, FailNotOpen DEF WriterError, ReadBad, ReadEnd
<1>6. CASE WriterQuit(g)
  BY <1>6 DEF WriterQuit, dead
<1>7. CASE FailStep(g)
  BY <1>2, <1>7 DEF FailStep, FailDeliver, FailSend, FailDone, TypeOK, ConnTypeOK
<1>8. CASE SetId(g) \/ HaltIfCanceled(g) \/ TakeData(g) \/ ReadDeliver(g) \/ ReadSend(g)
  BY <1>2, <1>8 DEF SetId, HaltIfCanceled, TakeData, ReadDeliver, ReadSend
<1>9. ASSUME Consume(g), s # <<>>, UNCHANGED <<state, writer>>
      PROVE  /\ InLine(s, r, q) /\ (peer[g] = "up" => Expected(s, r, q, e))
             /\ toClient'[g] = Tail(s) /\ replies'[g] = r /\ peer'[g] = peer[g]
             /\ Waiting(g)' = e
  BY <1>9 DEF Consume, InOrder, Waiting, TypeOK, SocketTypeOK
<1>10. CASE ReadOkId(g) \/ ReadHalted(g) \/ ReadErr(g)
  <2>1. /\ Consume(g) /\ s # <<>> /\ UNCHANGED <<state, writer>> /\ PopReply(g)
        /\ Head(s).t \in ReplyKinds
    BY <1>10 DEF ReadOkId, ReadHalted, ReadErr, Receive, frame, ReplyKinds
  <2>2. replyQ'[g] = IF q = <<>> THEN q ELSE Tail(q)
    BY <2>1 DEF PopReply, TypeOK, ConnTypeOK
  <2> HIDE DEF s, r, q, e
  <2>3. /\ q # <<>> /\ InLine(Tail(s), r, Tail(q))
        /\ peer[g] = "up" => Expected(Tail(s), r, Tail(q), e)
    BY <1>1, <1>9, <2>1, FrameRead
  <2> QED
    BY <1>9, <2>1, <2>2, <2>3 DEF InOrder
<1>11. CASE ReadData(g) \/ ReadNoise(g)
  <2>1. /\ Consume(g) /\ s # <<>> /\ UNCHANGED <<state, writer, replyQ>>
        /\ Head(s).t \notin ReplyKinds
    BY <1>11 DEF ReadData, ReadNoise, Receive, frame, ReplyKinds, DataKinds, connVars
  <2>2. replyQ'[g] = q
    BY <2>1
  <2> HIDE DEF s, r, q, e
  <2>3. InLine(Tail(s), r, q) /\ (peer[g] = "up" => Expected(Tail(s), r, q, e))
    BY <1>1, <1>9, <2>1, FrameRead
  <2> QED
    BY <1>9, <2>1, <2>2, <2>3 DEF InOrder
<1> QED
  BY <1>3, <1>4, <1>5, <1>6, <1>7, <1>8, <1>10, <1>11 DEF ConnStep, WriterStep, ReaderStep, Read

(* What any step does to connection g: nothing, or one of these.           *)
Dialled(g) ==
  /\ state[g] = "none" /\ state'[g] = "open" /\ Pristine(g) /\ peer'[g] = "up"
  /\ UNCHANGED <<toDaemon, toClient, tasks, live, replies>>
  /\ UNCHANGED <<cause, writeCh, replyQ, ids, victims, writer, reader, jobVars, lostHalts>>
  /\ UNCHANGED <<cur, outcome>>

ClosedBy(g) ==
  /\ Fail(g, "closed") /\ closed
  /\ UNCHANGED <<writeCh, writer, reader, jobVars, lostHalts, callerVars, closed>>

ActsOn(g) ==
  \/ Connection(g)
  \/ Daemon(g)
  \/ \E j \in Jobs : Caller(j)
  \/ ClosedBy(g)
  \/ Dialled(g)

(* Every step leaves a connection alone or acts on it in one of the ways   *)
(* listed in ActsOn.                                                       *)
LEMMA StepActsOn ==
  ASSUME TypeOK, LifeInv, [Next]_vars, NEW g \in Gens
  PROVE  Untouched(g) \/ ActsOn(g)
<1>1. ASSUME NEW h \in Gens, Connection(h) PROVE Untouched(g) \/ ActsOn(g)
  BY <1>1, ConnElsewhere DEF Connection, ActsOn, TypeOK
<1>2. ASSUME NEW h \in Gens, Daemon(h) PROVE Untouched(g) \/ ActsOn(g)
  <2>1. CASE h = g
    BY <1>2, <2>1 DEF ActsOn
  <2>2. CASE h # g
    <3>1. DaemonStep(h) /\ UNCHANGED connVars /\ SocketTypeOK
      BY <1>2 DEF Daemon, TypeOK
    <3>2. UNCHANGED <<peer[g], toDaemon[g], toClient[g], tasks[g], live[g], replies[g]>>
      BY <2>2, <3>1, DaemonElsewhere
    <3> QED
      BY <3>1, <3>2 DEF Untouched, connVars
  <2> QED
    BY <2>1, <2>2
<1>3. ASSUME NEW h \in Gens, Fail(h, "closed"), closed,
             UNCHANGED <<writeCh, writer, reader, jobVars, lostHalts, callerVars, closed>>
      PROVE  Untouched(g) \/ ActsOn(g)
  <2>1. CASE h = g
    BY <1>3, <2>1 DEF ActsOn, ClosedBy
  <2>2. CASE h # g
    <3>1. SocketTypeOK /\ ConnTypeOK
      BY DEF TypeOK
    <3> QED
      BY <1>3, <2>2, <3>1, FailElsewhere DEF Untouched
  <2> QED
    BY <2>1, <2>2
<1>4. CASE SuperClosed
  BY <1>3, <1>4 DEF SuperClosed, TypeOK
<1>5. CASE CloseFail
  <2>1. closed /\ closeConn \in Gens
    BY <1>5 DEF CloseFail, TypeOK, GenOrNone, LifeInv
  <2> QED
    BY <1>3, <1>5, <2>1 DEF CloseFail
<1>6. CASE DialSucceeds
  <2> DEFINE new == gen + 1
  <2>1. /\ new \in Gens /\ new > gen /\ state' = [state EXCEPT ![new] = "open"]
        /\ peer' = [peer EXCEPT ![new] = "up"]
        /\ UNCHANGED <<toDaemon, toClient, tasks, live, replies>>
        /\ UNCHANGED <<cause, writeCh, replyQ, ids, victims, writer, reader, jobVars, lostHalts>>
        /\ UNCHANGED <<cur, outcome>>
    BY <1>6 DEF DialSucceeds, Connect, TypeOK, Gens
  <2>2. state[new] = "none" /\ Pristine(new)
    BY <2>1 DEF LifeInv
  <2>3. CASE g = new
    BY <2>1, <2>2, <2>3 DEF ActsOn, Dialled, TypeOK, ConnTypeOK, SocketTypeOK
  <2>4. CASE g # new
    BY <2>1, <2>4 DEF Untouched, TypeOK, ConnTypeOK, SocketTypeOK
  <2> QED
    BY <2>3, <2>4
<1>7. CASE UNCHANGED <<socketVars, connVars>>
  BY <1>7 DEF Untouched, socketVars, connVars
<1>8. CASE ConnLost \/ SuperEnd \/ SleepTimer \/ SleepClosed \/ DialFails \/ CloseStart
            \/ CloseRead \/ CloseEnd \/ UNCHANGED vars
  BY <1>7, <1>8 DEF ConnLost, SuperEnd, SleepTimer, SleepClosed, DialFails, CloseStart, CloseRead,
                     CloseEnd, vars
<1> QED
  BY <1>1, <1>2, <1>4, <1>5, <1>6, <1>8 DEF ActsOn, Next, Supervise, Closing, AtRest

(* The queues of a connection nobody has used yet are in order.            *)
LEMMA EmptyInOrder ==
  InLine(<<>>, 0, <<>>) /\ Expected(<<>>, 0, <<>>, <<>>)
<1>1. HandledOf(<<>>, 0) = 0 /\ Numbered(<<>>, 0)
  BY DEF HandledOf, Numbered
<1> QED
  BY <1>1 DEF InLine, Expected

(* On an open connection the reply queue lists the commands whose reply    *)
(* the reader has not handled, in the order of the replies.                *)
THEOREM RepliesInOrder == Spec => []AlignInv
<1>1. Init => AlignInv
  <2> SUFFICES ASSUME Init, NEW g \in Gens, state[g] = "open" PROVE InOrder(g)
    BY DEF AlignInv
  <2>1. /\ toClient[g] = <<>> /\ toDaemon[g] = <<>> /\ replies[g] = 0 /\ replyQ[g] = <<>>
        /\ writer[g].pc = "idle"
    BY DEF Init, SocketInit, ConnInit, WriterIdle
  <2> QED
    BY <2>1, EmptyInOrder DEF InOrder, Waiting
<1>2. TypeOK /\ LifeInv /\ AlignInv /\ [Next]_vars => AlignInv'
  <2> SUFFICES ASSUME TypeOK, LifeInv, AlignInv, [Next]_vars, NEW g \in Gens, state'[g] = "open"
               PROVE  InOrder(g)'
    BY DEF AlignInv
  <2>1. state[g] = "open" => InOrder(g)
    BY DEF AlignInv
  <2>2. CASE Untouched(g)
    BY <2>1, <2>2 DEF Untouched, InOrder, Waiting
  <2>3. CASE Connection(g)
    BY <2>1, <2>3, ConnInOrder DEF Connection
  <2>4. CASE Daemon(g)
    <3>1. DaemonStep(g) /\ UNCHANGED <<state, writer, replyQ>>
      BY <2>4 DEF Daemon, connVars
    <3> QED
      BY <2>1, <3>1, DaemonInOrder
  <2>5. ASSUME NEW j \in Jobs, Caller(j) PROVE InOrder(g)'
    BY <2>1, <2>5 DEF Caller, socketVars, InOrder, Waiting
  <2>6. CASE ClosedBy(g)
    BY <2>6, FailNotOpen DEF ClosedBy
  <2>7. CASE Dialled(g)
    <3>1. (/\ toClient[g] = <<>> /\ toDaemon[g] = <<>> /\ replies[g] = 0 /\ replyQ[g] = <<>>
           /\ writer[g].pc = "idle")'
      BY <2>7 DEF Dialled, Pristine, WriterIdle
    <3> QED
      BY <3>1, EmptyInOrder DEF InOrder, Waiting
  <2> QED
    BY <2>2, <2>3, <2>4, <2>5, <2>6, <2>7, StepActsOn DEF ActsOn
<1> QED
  BY <1>1, <1>2, TypeCorrect, ConnectionLife, PTL DEF Spec

(* Every reply finds its own command at the head of the reply queue.       *)
THEOREM RepliesFindTheirJob == Spec => []ReplyAlignment
<1>1. TypeOK /\ AlignInv => ReplyAlignment
  <2> SUFFICES ASSUME TypeOK, AlignInv, NEW g \in Gens, state[g] = "open" PROVE Aligned(g)
    BY DEF ReplyAlignment
  <2> DEFINE h == Handled(g)
             d == toDaemon[g]
             q == replyQ[g]
             req == writer[g].req
  <2>1. h = HandledOf(toClient[g], replies[g])
    BY DEF Handled, HandledOf, frame
  <2>2. /\ InLine(toClient[g], replies[g], q)
        /\ peer[g] = "up" => Expected(toClient[g], replies[g], q, Waiting(g))
    BY DEF AlignInv, InOrder
  <2>3. \A k \in DOMAIN toClient[g] : toClient[g][k].t \in ReplyKinds =>
          toClient[g][k].n - h \in DOMAIN q /\ q[toClient[g][k].n - h] = toClient[g][k].of
    BY <2>1, <2>2 DEF InLine
  <2>4. ASSUME peer[g] = "up"
        PROVE  /\ \A k \in DOMAIN d : q[(replies[g] - h) + k] = d[k].of
               /\ Len(q) = (replies[g] - h) + Len(d) + (IF writer[g].pc = "write" THEN 1 ELSE 0)
               /\ writer[g].pc = "write" => q[Len(q)] = req.of
    <3>1. d \in Seq(Commands) /\ req \in Commands /\ replies[g] \in Nat /\ q \in Seq(JobOrNil)
      BY LinkTypes
    <3>2. h \in Nat /\ h <= replies[g]
      BY <2>1, <2>2, LinkTypes, NumberedBounds DEF InLine
    <3>3. /\ Len(d) \in Nat /\ Len(Append(d, req)) = Len(d) + 1
          /\ DOMAIN d = 1..Len(d) /\ DOMAIN Append(d, req) = 1..(Len(d) + 1)
          /\ \A k \in 1..Len(d) : Append(d, req)[k] = d[k]
          /\ Append(d, req)[Len(d) + 1] = req
      BY <3>1, AppendFacts
    <3>4. /\ Len(q) = (replies[g] - h) + Len(Waiting(g))
          /\ \A k \in DOMAIN Waiting(g) : q[(replies[g] - h) + k] = Waiting(g)[k].of
      BY <2>1, <2>2, <2>4 DEF Expected
    <3> HIDE DEF h, d, q, req
    <3>5. CASE writer[g].pc # "write"
      <4>1. Waiting(g) = d
        BY <3>5 DEF Waiting, d
      <4> QED
        BY <3>2, <3>3, <3>4, <3>5, <4>1
    <3>6. CASE writer[g].pc = "write"
      <4>1. Waiting(g) = Append(d, req)
        BY <3>6 DEF Waiting, d, req
      <4>2. \A k \in DOMAIN d : k \in DOMAIN Waiting(g) /\ Waiting(g)[k] = d[k]
        BY <3>3, <4>1
      <4>3. Len(q) = (replies[g] - h) + Len(d) + 1
        BY <3>1, <3>2, <3>3, <3>4, <4>1
      <4>4. (replies[g] - h) + (Len(d) + 1) = Len(q) /\ Len(d) + 1 \in DOMAIN Waiting(g)
        BY <3>1, <3>2, <3>3, <4>1, <4>3
      <4>5. q[Len(q)] = req.of
        BY <3>3, <3>4, <4>1, <4>4
      <4> QED
        BY <3>4, <3>6, <4>2, <4>3, <4>5
    <3> QED
      BY <3>5, <3>6
  <2> QED
    BY <2>3, <2>4 DEF Aligned
<1> QED
  BY <1>1, TypeCorrect, RepliesInOrder, PTL

(***************************************************************************)
(* ExactDelivery and HaltsOwnTask                                          *)
(***************************************************************************)
Taken == {"result", "parse", "rejected"}
IsTask(g, i, j) == i \in DOMAIN tasks[g] /\ tasks[g][i] = j

(* A frame with an id is about the task of that id.                        *)
FramesTrue(g) == \A f \in Range(toClient[g]) : f.t \in {"okid"} \cup DataKinds => IsTask(g, f.id, f.of)

(* Only Close ends a connection while both goroutines go on: a connection  *)
(* that died of itself has lost its reader, or its writer together with    *)
(* the reply queue, so that no reply can be popped for another job.        *)
Cut(g) ==
  \/ cause[g] = "none"
  \/ reader[g].pc = "stopped"
  \/ writer[g].pc = "stopped" /\ replyQ[g] = <<>>

(* The id table and the reader know the tasks by their ids.                *)
TableTrue(g) == \A i \in Ids : ids[g][i] # Nil => IsTask(g, i, ids[g][i])
ReaderTrue(g) ==
  /\ reader[g].pc \in {"bound", "idset", "found"} => IsTask(g, reader[g].id, reader[g].job)
  /\ reader[g].pc \in {"found", "taken"} => reader[g].res.of = reader[g].job

Lawful(g) == Cut(g) /\ TableTrue(g) /\ ReaderTrue(g)

(* The commands of g that the daemon has not read.                         *)
Orders(g) == UNION {Range(writeCh[g]), Range(toDaemon[g]),
                    IF writer[g].pc = "write" THEN {writer[g].req} ELSE {}}
HaltsTrue(g) == \A i \in Ids : Halt(i) \in Orders(g) => i \in DOMAIN tasks[g] /\ canceled[tasks[g][i]]

DeliveryOf(g) ==
  /\ FramesTrue(g)
  /\ cause[g] # "closed" => Lawful(g) /\ HaltsTrue(g)

(* What a job has been told is about itself, unless Close interfered.      *)
JobTrue(j) ==
  /\ ch[j] # None => cur[j] \in Gens /\ pc[j] \in Late
  /\ ch[j].k \in Taken => ch[j].of = j \/ cause[cur[j]] = "closed"
  /\ outcome[j].k \in Taken =>
       pc[j] \in Late /\ cur[j] \in Gens /\ (outcome[j].of = j \/ cause[cur[j]] = "closed")
  /\ jid[j] # 0 => /\ cur[j] \in Gens /\ pc[j] \in Late
                   /\ cause[cur[j]] # "closed" => IsTask(cur[j], jid[j], j)
  /\ pc[j] = "halt" => canceled[j]

DeliveryInv == (\A g \in Gens : DeliveryOf(g)) /\ (\A j \in Jobs : JobTrue(j))

(* The goroutines and fail only take frames off the stream.                *)
LEMMA FailStream ==
  ASSUME NEW g \in Gens, TypeOK, NEW why, Fail(g, why)
  PROVE  /\ Range(toClient'[g]) \subseteq Range(toClient[g]) /\ UNCHANGED <<tasks, replies>>
         /\ Range(toDaemon'[g]) \subseteq Range(toDaemon[g])
<1>1. CASE state[g] # "open"
  BY <1>1 DEF Fail, socketVars
<1>2. CASE state[g] = "open"
  <2>1. PICK kept \in 0..Len(toClient[g]) :
          /\ toClient' = [toClient EXCEPT ![g] = SubSeq(toClient[g], 1, kept)]
          /\ toDaemon' = [toDaemon EXCEPT ![g] = <<>>] /\ UNCHANGED <<tasks, replies>>
    BY <1>2 DEF Fail, CloseSocket
  <2>2. toClient'[g] = SubSeq(toClient[g], 1, kept) /\ toDaemon'[g] = <<>>
    BY <2>1 DEF TypeOK, SocketTypeOK
  <2>3. Range(SubSeq(toClient[g], 1, kept)) \subseteq Range(toClient[g])
    BY LinkTypes, RangeFacts
  <2>4. Range(<<>>) = {}
    BY DEF Range
  <2> QED
    BY <2>1, <2>2, <2>3, <2>4
<1> QED
  BY <1>1, <1>2

(* Writer, reader and fail put nothing into the stream of frames.          *)
LEMMA ConnStream ==
  ASSUME NEW g \in Gens, TypeOK, ConnStep(g)
  PROVE  Range(toClient'[g]) \subseteq Range(toClient[g]) /\ UNCHANGED <<tasks, replies>>
<1>1. ASSUME Consume(g), toClient[g] # <<>>
      PROVE  Range(toClient'[g]) \subseteq Range(toClient[g]) /\ UNCHANGED <<tasks, replies>>
  <2>1. toClient'[g] = Tail(toClient[g]) /\ UNCHANGED <<tasks, replies>>
    BY <1>1 DEF Consume, TypeOK, SocketTypeOK
  <2>2. Range(toClient[g]) = {Head(toClient[g])} \cup Range(Tail(toClient[g]))
    BY <1>1, LinkTypes, RangeFacts
  <2> QED
    BY <2>1, <2>2
<1>2. CASE WriterError(g) \/ ReadBad(g) \/ ReadEnd(g)
  BY <1>2, FailStream DEF WriterError, ReadBad, ReadEnd
<1>3. CASE WriterTake(g) \/ WriterSend(g) \/ WriterQuit(g)
  BY <1>3 DEF WriterTake, WriterSend, WriterQuit, Transmit, socketVars
<1>4. CASE FailStep(g)
  BY <1>4 DEF FailStep, FailDeliver, FailSend, FailDone, socketVars
<1>5. CASE ReadOkId(g) \/ ReadHalted(g) \/ ReadErr(g) \/ ReadData(g) \/ ReadNoise(g)
  BY <1>1, <1>5 DEF ReadOkId, ReadHalted, ReadErr, ReadData, ReadNoise, Receive
<1>6. CASE SetId(g) \/ HaltIfCanceled(g) \/ TakeData(g) \/ ReadDeliver(g) \/ ReadSend(g)
  BY <1>6 DEF SetId, HaltIfCanceled, TakeData, ReadDeliver, ReadSend, socketVars
<1> QED
  BY <1>2, <1>3, <1>4, <1>5, <1>6 DEF ConnStep, WriterStep, ReaderStep, Read

(* A task keeps its id.                                                    *)
LEMMA TasksGrow ==
  ASSUME NEW g \in Gens, TypeOK, LifeInv, [Next]_vars, NEW i, NEW j, IsTask(g, i, j)
  PROVE  IsTask(g, i, j)'
<1>1. ASSUME tasks'[g] = tasks[g] PROVE IsTask(g, i, j)'
  BY <1>1 DEF IsTask
<1>2. ASSUME NEW k \in Jobs, tasks'[g] = Append(tasks[g], k) PROVE IsTask(g, i, j)'
  <2>1. /\ Len(tasks[g]) \in Nat /\ DOMAIN tasks[g] = 1..Len(tasks[g])
        /\ DOMAIN Append(tasks[g], k) = 1..(Len(tasks[g]) + 1)
        /\ \A n \in 1..Len(tasks[g]) : Append(tasks[g], k)[n] = tasks[g][n]
    BY LinkTypes, AppendFacts
  <2> QED
    BY <1>2, <2>1 DEF IsTask
<1>3. CASE Daemon(g)
  <2>1. DaemonMoves(g)
    BY <1>3, DaemonFacts DEF Daemon
  <2> QED
    BY <1>1, <1>2, <2>1 DEF DaemonMoves, Leaves, Accepts, Rejects, Halts, Sends, Chatters, Link
<1>4. CASE Connection(g)
  BY <1>1, <1>4, ConnStream DEF Connection
<1>5. CASE ClosedBy(g)
  BY <1>1, <1>5, FailStream DEF ClosedBy
<1>6. ASSUME NEW k \in Jobs, Caller(k) PROVE IsTask(g, i, j)'
  BY <1>1, <1>6 DEF Caller, socketVars
<1>7. CASE Dialled(g) \/ Untouched(g)
  BY <1>1, <1>7 DEF Dialled, Untouched
<1> QED
  BY <1>3, <1>4, <1>5, <1>6, <1>7, StepActsOn DEF ActsOn

(* A job that was given up stays so.                                       *)
LEMMA CanceledStays ==
  ASSUME TypeOK, [Next]_vars, NEW j \in Jobs, canceled[j]
  PROVE  canceled'[j]
<1> USE DEF TypeOK, ConnTypeOK
<1>1. ASSUME NEW k \in Jobs, Caller(k) PROVE canceled'[j]
  BY <1>1 DEF Caller, CallerStep, Start, Acquire, Lookup, Wake, Submit, GiveUpEarly, ReturnResult,
              GiveUp, MarkCanceled, SendHalt, Finish, jobVars
<1>2. ASSUME NEW h \in Gens, Connection(h) PROVE UNCHANGED canceled
  BY <1>2 DEF Connection, ConnStep, WriterStep, ReaderStep, FailStep, Read, WriterTake, WriterSend,
              WriterError, WriterQuit, FailDeliver, FailSend, FailDone, ReadOkId, ReadHalted,
              ReadErr, ReadData, ReadNoise, ReadBad, ReadEnd, SetId, HaltIfCanceled, TakeData,
              ReadDeliver, ReadSend, jobVars, connVars
<1>3. CASE UNCHANGED canceled
  BY <1>3
<1> QED
  BY <1>1, <1>2, <1>3
  DEF Next, Daemon, Supervise, ConnLost, SuperClosed, SuperEnd, SleepTimer, SleepClosed, DialFails,
      DialSucceeds, CloseStart, Closing, CloseRead, CloseFail, CloseEnd, AtRest, vars, connVars, jobVars

(* A connection that Close took down stays so.                             *)
LEMMA ClosedStays ==
  ASSUME TypeOK, LifeInv, [Next]_vars, NEW g \in Gens, cause[g] = "closed"
  PROVE  cause'[g] = "closed"
<1>1. LifeOf(g)
  BY DEF LifeInv
<1> QED
  BY <1>1, LifeMoves DEF Lives, LifeOf

(* The same after the step, of an id and a job known before it.            *)
WillBeTask(g, i, j) == i \in DOMAIN tasks'[g] /\ tasks'[g][i] = j

(* The daemon puts the right task on every frame.                          *)
LEMMA DaemonFramesTrue ==
  ASSUME NEW g \in Gens, TypeOK, FramesTrue(g), DaemonStep(g)
  PROVE  FramesTrue(g)'
<1> DEFINE s == toClient[g]
           Right(f) == f.t \in {"okid"} \cup DataKinds => WillBeTask(g, f.id, f.of)
<1>1. s \in Seq(Frames) /\ tasks[g] \in Seq(Jobs)
  BY LinkTypes
<1>2. DaemonMoves(g)
  BY DaemonFacts
<1>3. \A i \in live[g] : i \in DOMAIN tasks[g]
  BY DEF TypeOK, SocketTypeOK
<1>4. ASSUME NEW f \in Frames, toClient'[g] = Append(s, f), Right(f),
             \A e \in Range(s) : e.t \in {"okid"} \cup DataKinds => WillBeTask(g, e.id, e.of)
      PROVE  FramesTrue(g)'
  <2>1. Range(Append(s, f)) = Range(s) \cup {f}
    BY <1>1, RangeFacts
  <2> QED
    BY <1>4, <2>1 DEF FramesTrue, IsTask, WillBeTask
<1>5. ASSUME tasks'[g] = tasks[g]
      PROVE  \A e \in Range(s) : e.t \in {"okid"} \cup DataKinds => WillBeTask(g, e.id, e.of)
  BY <1>5 DEF FramesTrue, IsTask, WillBeTask
<1>6. CASE Leaves(g)
  BY <1>6 DEF Leaves, Link, FramesTrue, IsTask
<1>7. CASE Accepts(g)
  <2> DEFINE j == Head(toDaemon[g]).of
             i == Len(tasks[g]) + 1
             f == Frame("okid", j, i, replies[g] + 1)
  <2>1. j \in Jobs /\ f \in Frames /\ toClient'[g] = Append(s, f) /\ tasks'[g] = Append(tasks[g], j)
    BY <1>7 DEF Accepts, Link
  <2>2. /\ DOMAIN tasks[g] = 1..Len(tasks[g]) /\ DOMAIN tasks'[g] = 1..i /\ Len(tasks[g]) \in Nat
        /\ \A k \in 1..Len(tasks[g]) : tasks'[g][k] = tasks[g][k]
        /\ tasks'[g][i] = j
    BY <1>1, <2>1, AppendFacts
  <2>3. Right(f)
    BY <2>2 DEF Frame, WillBeTask
  <2>4. \A e \in Range(s) : e.t \in {"okid"} \cup DataKinds => WillBeTask(g, e.id, e.of)
    BY <2>2 DEF FramesTrue, IsTask, WillBeTask
  <2> HIDE DEF f
  <2> QED
    BY <1>4, <2>1, <2>3, <2>4
<1>8. CASE Rejects(g)
  <2> DEFINE f == Frame("err", Head(toDaemon[g]).of, 0, replies[g] + 1)
  <2>1. f \in Frames /\ toClient'[g] = Append(s, f) /\ tasks'[g] = tasks[g]
    BY <1>8 DEF Rejects, Link
  <2>2. Right(f)
    BY DEF Frame, DataKinds
  <2> HIDE DEF f
  <2> QED
    BY <1>4, <1>5, <2>1, <2>2
<1>9. ASSUME NEW kind \in {"halted", "err"}, Halts(g, kind)
      PROVE  FramesTrue(g)'
  <2> DEFINE c == Head(toDaemon[g])
             f == Frame(kind, c.of, 0, replies[g] + 1)
             last == Frame("final", tasks[g][c.id], c.id, replies[g] + 1)
  <2>1. /\ f \in Frames /\ tasks'[g] = tasks[g]
        /\ \/ toClient'[g] = Append(s, f)
           \/ c.id \in live[g] /\ last \in Frames /\ toClient'[g] = Append(Append(s, f), last)
    BY <1>9 DEF Halts, Link
  <2>2. Right(f)
    BY DEF Frame, DataKinds
  <2>3. c.id \in live[g] => Right(last)
    BY <1>3, <2>1 DEF Frame, WillBeTask
  <2> HIDE DEF f, last
  <2>4. CASE toClient'[g] = Append(s, f)
    BY <1>4, <1>5, <2>1, <2>2, <2>4
  <2>5. CASE c.id \in live[g] /\ last \in Frames /\ toClient'[g] = Append(Append(s, f), last)
    <3>1. Range(Append(s, f)) = Range(s) \cup {f} /\ Append(s, f) \in Seq(Frames)
      BY <1>1, <2>1, RangeFacts, AppendProperties
    <3>2. \A t \in Seq(Frames) : Range(Append(t, last)) = Range(t) \cup {last}
      BY <2>5, RangeFacts
    <3>3. Range(toClient'[g]) = Range(s) \cup {f, last}
      BY <2>5, <3>1, <3>2
    <3>4. \A e \in Range(s) : e.t \in {"okid"} \cup DataKinds => WillBeTask(g, e.id, e.of)
      BY <1>5, <2>1
    <3> QED
      BY <2>2, <2>3, <2>5, <3>3, <3>4 DEF FramesTrue, IsTask, WillBeTask
  <2> QED
    BY <2>1, <2>4, <2>5
<1>10. ASSUME NEW i \in live[g], NEW kind \in DataKinds, Sends(g, i, kind)
       PROVE  FramesTrue(g)'
  <2> DEFINE f == Frame(kind, tasks[g][i], i, replies[g])
  <2>1. f \in Frames /\ toClient'[g] = Append(s, f) /\ tasks'[g] = tasks[g]
    BY <1>10 DEF Sends, Link
  <2>2. Right(f)
    BY <1>3, <2>1 DEF Frame, WillBeTask
  <2> HIDE DEF f
  <2> QED
    BY <1>4, <1>5, <2>1, <2>2
<1>11. ASSUME NEW kind \in {"noise", "bad"}, Chatters(g, kind)
       PROVE  FramesTrue(g)'
  <2> DEFINE f == Frame(kind, Nil, 0, replies[g])
  <2>1. f \in Frames /\ toClient'[g] = Append(s, f) /\ tasks'[g] = tasks[g]
    BY <1>11 DEF Chatters, Link
  <2>2. Right(f)
    BY DEF Frame, DataKinds
  <2> HIDE DEF f
  <2> QED
    BY <1>4, <1>5, <2>1, <2>2
<1> QED
  BY <1>2, <1>6, <1>7, <1>8, <1>9, <1>10, <1>11 DEF DaemonMoves

(* A frame keeps naming its task, since the task list only grows.          *)
LEMMA FramesTrueStep ==
  ASSUME NEW g \in Gens, TypeOK, LifeInv, [Next]_vars, FramesTrue(g)
  PROVE  FramesTrue(g)'
<1>1. ASSUME Range(toClient'[g]) \subseteq Range(toClient[g]) PROVE FramesTrue(g)'
  BY <1>1, TasksGrow DEF FramesTrue
<1>2. CASE Connection(g)
  BY <1>1, <1>2, ConnStream DEF Connection
<1>3. CASE Daemon(g)
  BY <1>3, DaemonFramesTrue DEF Daemon
<1>4. CASE ClosedBy(g)
  BY <1>1, <1>4, FailStream DEF ClosedBy
<1>5. ASSUME NEW j \in Jobs, Caller(j) PROVE FramesTrue(g)'
  BY <1>1, <1>5 DEF Caller, socketVars
<1>6. CASE Dialled(g) \/ Untouched(g)
  BY <1>1, <1>6 DEF Dialled, Untouched
<1> QED
  BY <1>2, <1>3, <1>4, <1>5, <1>6, StepActsOn DEF ActsOn

(***************************************************************************)
(* Which halts are given                                                   *)
(***************************************************************************)
(* A halt is queued by the reader, for a job that was given up before its  *)
(* id came, or by the caller that gives up.                                *)
HaltedByReader(g, i) == reader[g].pc = "idset" /\ canceled[reader[g].job] /\ reader[g].id = i
HaltedByCaller(g, i) == \E j \in Jobs : pc[j] = "halt" /\ cur[j] = g /\ jid[j] = i

(* halt puts at most one command into one write queue.                     *)
LEMMA QueueHalt ==
  ASSUME NEW g \in Gens, TypeOK, NEW h \in Gens, NEW n \in Nat, NEW j, EnqueueHalt(h, n, j)
  PROVE  /\ Range(writeCh'[g]) \subseteq Range(writeCh[g]) \cup {Halt(n)}
         /\ h # g => writeCh'[g] = writeCh[g]
<1>1. writeCh[g] \in Seq(Commands) /\ Halt(n) \in Commands
  BY LinkTypes DEF Halt, Commands
<1>2. Range(Append(writeCh[g], Halt(n))) = Range(writeCh[g]) \cup {Halt(n)}
  BY <1>1, RangeFacts
<1>3. writeCh' = writeCh \/ writeCh' = [writeCh EXCEPT ![h] = Append(@, Halt(n))]
  BY DEF EnqueueHalt
<1>4. writeCh'[g] = writeCh[g] \/ (h = g /\ writeCh'[g] = Append(writeCh[g], Halt(n)))
  BY <1>3 DEF TypeOK, ConnTypeOK
<1> QED
  BY <1>2, <1>4

(* So does the submission of a job.                                        *)
LEMMA QueueTrace ==
  ASSUME NEW g \in Gens, TypeOK, NEW h, NEW j \in Jobs,
         writeCh' = [writeCh EXCEPT ![h] = Append(@, Trace(j))]
  PROVE  Range(writeCh'[g]) \subseteq Range(writeCh[g]) \cup {Trace(j)}
<1>1. writeCh[g] \in Seq(Commands) /\ Trace(j) \in Commands
  BY LinkTypes DEF Trace, Commands
<1>2. Range(Append(writeCh[g], Trace(j))) = Range(writeCh[g]) \cup {Trace(j)}
  BY <1>1, RangeFacts
<1>3. writeCh'[g] = writeCh[g] \/ writeCh'[g] = Append(writeCh[g], Trace(j))
  BY DEF TypeOK, ConnTypeOK
<1> QED
  BY <1>2, <1>3

(* Of the goroutines of a connection only the reader, in bindID, makes a   *)
(* new halt.                                                               *)
LEMMA ConnOrders ==
  ASSUME NEW g \in Gens, TypeOK, ConnStep(g), NEW i \in Ids, Halt(i) \in Orders(g)'
  PROVE  Halt(i) \in Orders(g) \/ HaltedByReader(g, i)
<1>0. /\ writeCh[g] \in Seq(Commands) /\ toDaemon[g] \in Seq(Commands) /\ writer[g].req \in Commands
      /\ Range(<<>>) = {}
  BY LinkTypes DEF Range
<1>1. CASE WriterTake(g)
  <2> DEFINE req == Head(writeCh[g])
  <2>1. /\ writeCh[g] # <<>> /\ writeCh'[g] = Tail(writeCh[g])
        /\ writer'[g] = [pc |-> "write", req |-> req] /\ toDaemon'[g] = toDaemon[g]
    BY <1>1 DEF WriterTake, TypeOK, ConnTypeOK, socketVars
  <2>2. Range(writeCh[g]) = {req} \cup Range(Tail(writeCh[g]))
    BY <1>0, <2>1, RangeFacts
  <2> QED
    BY <2>1, <2>2 DEF Orders
<1>2. CASE WriterSend(g)
  <2>1. /\ writer[g].pc = "write" /\ toDaemon'[g] = Append(toDaemon[g], writer[g].req)
        /\ writer'[g].pc = "idle" /\ writeCh'[g] = writeCh[g]
    BY <1>2 DEF WriterSend, Transmit, WriterIdle, TypeOK, SocketTypeOK, ConnTypeOK
  <2>2. Range(toDaemon'[g]) = Range(toDaemon[g]) \cup {writer[g].req}
    BY <1>0, <2>1, RangeFacts
  <2> QED
    BY <2>1, <2>2 DEF Orders
<1>3. CASE WriterError(g) \/ ReadBad(g) \/ ReadEnd(g)
  <2>1. PICK why : Fail(g, why)
    BY <1>3 DEF WriterError, ReadBad, ReadEnd
  <2>2. writeCh'[g] = writeCh[g] /\ (writer'[g].pc = "write" => writer'[g] = writer[g])
    BY <1>3 DEF WriterError, ReadBad, ReadEnd, WriterStopped, TypeOK, ConnTypeOK
  <2> QED
    BY <2>1, <2>2, FailStream DEF Orders
<1>4. CASE WriterQuit(g)
  BY <1>4 DEF WriterQuit, Orders, WriterStopped, TypeOK, ConnTypeOK, socketVars
<1>5. CASE FailStep(g) \/ SetId(g) \/ TakeData(g) \/ ReadDeliver(g) \/ ReadSend(g)
  BY <1>5 DEF FailStep, FailDeliver, FailSend, FailDone, SetId, TakeData, ReadDeliver, ReadSend,
              Orders, socketVars
<1>6. CASE ReadOkId(g) \/ ReadHalted(g) \/ ReadErr(g) \/ ReadData(g) \/ ReadNoise(g)
  BY <1>6 DEF ReadOkId, ReadHalted, ReadErr, ReadData, ReadNoise, Consume, Orders, connVars
<1>7. CASE HaltIfCanceled(g)
  <2>1. /\ reader[g].pc = "idset" /\ UNCHANGED <<writer, toDaemon>>
        /\ \/ writeCh' = writeCh
           \/ canceled[reader[g].job] /\ EnqueueHalt(g, reader[g].id, reader[g].job)
    BY <1>7 DEF HaltIfCanceled, socketVars
  <2>2. reader[g].id \in Nat
    BY DEF TypeOK, ConnTypeOK, Ids
  <2>3. CASE canceled[reader[g].job] /\ EnqueueHalt(g, reader[g].id, reader[g].job)
    <3>1. Range(writeCh'[g]) \subseteq Range(writeCh[g]) \cup {Halt(reader[g].id)}
      BY <2>2, <2>3, QueueHalt
    <3>2. Halt(i) \in Orders(g) \/ Halt(i) = Halt(reader[g].id)
      BY <2>1, <3>1 DEF Orders
    <3> QED
      BY <2>1, <2>3, <3>2 DEF Halt, HaltedByReader
  <2> QED
    BY <2>1, <2>3 DEF Orders
<1> QED
  BY <1>1, <1>2, <1>3, <1>4, <1>5, <1>6, <1>7 DEF ConnStep, WriterStep, ReaderStep, Read

(* The daemon only takes commands off the socket.                          *)
LEMMA DaemonOrders ==
  ASSUME NEW g \in Gens, TypeOK, DaemonStep(g), UNCHANGED <<writeCh, writer>>
  PROVE  Orders(g)' \subseteq Orders(g)
<1>1. DaemonMoves(g)
  BY DaemonFacts
<1>2. toDaemon'[g] = <<>> \/ toDaemon'[g] = toDaemon[g]
        \/ (toDaemon[g] # <<>> /\ toDaemon'[g] = Tail(toDaemon[g]))
  BY <1>1 DEF DaemonMoves, Leaves, Accepts, Rejects, Halts, Sends, Chatters, Link
<1>3. toDaemon[g] # <<>> => Range(Tail(toDaemon[g])) \subseteq Range(toDaemon[g])
  BY LinkTypes, RangeFacts
<1>4. Range(<<>>) = {}
  BY DEF Range
<1> QED
  BY <1>2, <1>3, <1>4 DEF Orders

(* A new halt comes from bindID or from the caller's own halt.             *)
LEMMA OrdersStep ==
  ASSUME NEW g \in Gens, TypeOK, LifeInv, [Next]_vars, NEW i \in Ids, Halt(i) \in Orders(g)'
  PROVE  Halt(i) \in Orders(g) \/ HaltedByReader(g, i) \/ HaltedByCaller(g, i)
<1>1. CASE Connection(g)
  BY <1>1, ConnOrders DEF Connection
<1>2. CASE Daemon(g)
  BY <1>2, DaemonOrders DEF Daemon, connVars
<1>3. CASE ClosedBy(g)
  BY <1>3, FailStream DEF ClosedBy, Orders
<1>4. CASE Dialled(g) \/ Untouched(g)
  BY <1>4 DEF Dialled, Untouched, Orders
<1>5. ASSUME NEW j \in Jobs, Caller(j)
      PROVE  Halt(i) \in Orders(g) \/ HaltedByCaller(g, i)
  <2>1. UNCHANGED <<toDaemon, writer>>
    BY <1>5 DEF Caller, socketVars
  <2>2. CASE writeCh' = writeCh
    BY <2>1, <2>2 DEF Orders
  <2>3. CASE Submit(j) /\ writeCh' = [writeCh EXCEPT ![cur[j]] = Append(@, Trace(j))]
    <3>1. Range(writeCh'[g]) \subseteq Range(writeCh[g]) \cup {Trace(j)}
      BY <2>3, QueueTrace
    <3>2. Halt(i) # Trace(j)
      BY DEF Halt, Trace
    <3> QED
      BY <2>1, <3>1, <3>2 DEF Orders
  <2>4. CASE SendHalt(j)
    <3>1. pc[j] = "halt" /\ EnqueueHalt(cur[j], jid[j], j) /\ jid[j] \in Nat
      BY <2>4 DEF SendHalt, TypeOK, ConnTypeOK, Ids
    <3>2. CASE cur[j] = g
      <4>1. Range(writeCh'[g]) \subseteq Range(writeCh[g]) \cup {Halt(jid[j])}
        BY <3>1, <3>2, QueueHalt
      <4>2. Halt(i) \in Orders(g) \/ Halt(i) = Halt(jid[j])
        BY <2>1, <4>1 DEF Orders
      <4> QED
        BY <3>1, <3>2, <4>2 DEF Halt, HaltedByCaller
    <3>3. CASE cur[j] # g
      <4>1. writeCh'[g] = writeCh[g]
        BY <3>1, <3>3 DEF EnqueueHalt, TypeOK, ConnTypeOK
      <4> QED
        BY <2>1, <4>1 DEF Orders
    <3> QED
      BY <3>2, <3>3
  <2> QED
    BY <1>5, <2>2, <2>3, <2>4
    DEF Caller, CallerStep, Start, Acquire, Lookup, Wake, Submit, GiveUpEarly, ReturnResult, GiveUp,
        MarkCanceled, Finish
<1> QED
  BY <1>1, <1>2, <1>3, <1>4, <1>5, StepActsOn DEF ActsOn

(***************************************************************************)
(* What the tables and the reader know                                     *)
(***************************************************************************)
(* The job popped for a reply is the job the daemon replies to.            *)
LEMMA HeadReply ==
  ASSUME NEW g \in Gens, TypeOK, LifeInv, state[g] = "open" => InOrder(g), Cut(g),
         NEW kinds, Receive(g, kinds), frame(g).t \in ReplyKinds, NextReply(g) # Nil
  PROVE  NextReply(g) = frame(g).of
<1>1. reader[g].pc = "idle" /\ toClient[g] # <<>> /\ replyQ[g] # <<>> /\ NextReply(g) = Head(replyQ[g])
  BY DEF Receive, NextReply
<1>2. cause[g] = "none"
  BY <1>1 DEF Cut
<1>3. state[g] = "open"
  BY <1>2 DEF LifeInv, LifeOf, Receive
<1>4. Head(replyQ[g]) = Head(toClient[g]).of
  BY <1>1, <1>3, LinkTypes, FrameRead DEF InOrder, frame
<1> QED
  BY <1>1, <1>4 DEF frame

(* fail clears both tables; its caller is about to stop.                   *)
LEMMA FailLawful ==
  ASSUME NEW g \in Gens, TypeOK, LifeInv, NEW why, Fail(g, why), Lawful(g),
         \/ why # "closed" /\ reader'[g] = reader[g] /\ writer'[g].pc = "stopped"
         \/ reader'[g] = ReaderStopped,
         writer'[g].pc = writer[g].pc \/ writer'[g].pc = "stopped"
  PROVE  Lawful(g)'
<1>1. UNCHANGED tasks
  BY FailStream
<1>2. \A i, j : IsTask(g, i, j) => IsTask(g, i, j)'
  BY <1>1 DEF IsTask
<1>3. ReaderTrue(g)'
  BY <1>2 DEF Lawful, ReaderTrue, ReaderStopped
<1>4. CASE state[g] = "open"
  <2>1. replyQ'[g] = <<>> /\ ids'[g] = NoIds
    BY <1>4 DEF Fail, TypeOK, ConnTypeOK
  <2>2. TableTrue(g)'
    BY <2>1 DEF TableTrue, NoIds
  <2>3. Cut(g)'
    BY <2>1 DEF Cut, ReaderStopped
  <2> QED
    BY <1>3, <2>2, <2>3 DEF Lawful
<1>5. CASE state[g] # "open"
  <2>1. UNCHANGED <<cause, ids, replyQ>>
    BY <1>5 DEF Fail
  <2>2. TableTrue(g)'
    BY <1>2, <2>1 DEF Lawful, TableTrue
  <2>3. Cut(g)'
    BY <2>1 DEF Lawful, Cut, ReaderStopped
  <2> QED
    BY <1>3, <2>2, <2>3 DEF Lawful
<1> QED
  BY <1>4, <1>5

(* The goroutines bind an id to the job at the head of the reply queue,    *)
(* which by AlignInv is the one it was made for, and keep that to the end. *)
LEMMA ConnLawful ==
  ASSUME NEW g \in Gens, TypeOK, LifeInv, state[g] = "open" => InOrder(g), FramesTrue(g),
         Lawful(g), ConnStep(g)
  PROVE  Lawful(g)'
<1>1. UNCHANGED tasks
  BY ConnStream
<1>2. \A i, j : IsTask(g, i, j) => IsTask(g, i, j)'
  BY <1>1 DEF IsTask
<1>3. Cut(g) /\ TableTrue(g) /\ ReaderTrue(g)
  BY DEF Lawful
<1>4. ASSUME UNCHANGED <<cause[g], ids[g], reader[g]>>,
             writer'[g].pc = "stopped" \/ writer[g].pc # "stopped",
             replyQ[g] = <<>> => replyQ'[g] = <<>> \/ writer[g].pc # "stopped"
      PROVE  Lawful(g)'
  <2>1. TableTrue(g)' /\ ReaderTrue(g)'
    BY <1>2, <1>3, <1>4 DEF TableTrue, ReaderTrue
  <2>2. Cut(g)'
    BY <1>3, <1>4 DEF Cut
  <2> QED
    BY <2>1, <2>2 DEF Lawful
<1>5. ASSUME PopReply(g) PROVE replyQ[g] = <<>> => replyQ'[g] = <<>>
  BY <1>5 DEF PopReply, TypeOK, ConnTypeOK
<1>6. CASE WriterTake(g) \/ WriterQuit(g)
  BY <1>4, <1>6 DEF WriterTake, WriterQuit, WriterStopped, TypeOK, ConnTypeOK
<1>7. CASE WriterSend(g) \/ FailStep(g)
  BY <1>4, <1>7 DEF WriterSend, FailStep, FailDeliver, FailSend, FailDone
<1>8. CASE WriterError(g)
  <2>1. Fail(g, "unavailable") /\ reader'[g] = reader[g] /\ writer'[g].pc = "stopped"
    BY <1>8 DEF WriterError, WriterStopped, TypeOK, ConnTypeOK
  <2> QED
    BY <2>1, FailLawful
<1>9. CASE ReadBad(g) \/ ReadEnd(g)
  <2>1. PICK why : Fail(g, why) /\ reader'[g] = ReaderStopped /\ writer' = writer
    BY <1>9 DEF ReadBad, ReadEnd, TypeOK, ConnTypeOK
  <2> QED
    BY <2>1, FailLawful
<1>10. CASE ReadHalted(g) \/ ReadNoise(g)
  BY <1>4, <1>5, <1>10 DEF ReadHalted, ReadNoise, connVars
<1>11. CASE ReadOkId(g)
  <2>1. /\ Receive(g, {"okid"}) /\ PopReply(g) /\ UNCHANGED <<cause, writer>>
        /\ frame(g).t = "okid" /\ toClient[g] # <<>>
    BY <1>11 DEF ReadOkId, Receive
  <2>2. CASE NextReply(g) = Nil
    BY <1>4, <1>5, <1>11, <2>1, <2>2 DEF ReadOkId
  <2>3. CASE NextReply(g) # Nil
    <3>1. NextReply(g) = frame(g).of
      BY <1>3, <2>1, <2>3, HeadReply DEF ReplyKinds
    <3>2. PICK n, m : n = frame(g).id /\ m = NextReply(g)
      OBVIOUS
    <3>3. frame(g) \in Range(toClient[g])
      BY <2>1, LinkTypes, RangeFacts DEF frame
    <3>4. IsTask(g, n, m)
      BY <2>1, <3>1, <3>2, <3>3 DEF FramesTrue
    <3>5. ids'[g] = [ids[g] EXCEPT ![n] = m]
      BY <1>11, <2>3, <3>2 DEF ReadOkId, TypeOK, ConnTypeOK
    <3>6. reader'[g] = [pc |-> "bound", job |-> m, id |-> n, res |-> None]
      BY <1>11, <2>3, <3>2 DEF ReadOkId, TypeOK, ConnTypeOK
    <3>7. ids[g] \in [Ids -> JobOrNil]
      BY DEF TypeOK, ConnTypeOK
    <3>8. TableTrue(g)'
      BY <1>2, <1>3, <3>4, <3>5, <3>7 DEF TableTrue
    <3>9. ReaderTrue(g)'
      BY <1>2, <3>4, <3>6 DEF ReaderTrue
    <3>10. Cut(g)'
      BY <1>3, <1>5, <2>1, <3>6 DEF Cut, Receive
    <3> QED
      BY <3>8, <3>9, <3>10 DEF Lawful
  <2> QED
    BY <2>2, <2>3
<1>12. CASE ReadErr(g)
  <2>1. /\ Receive(g, {"err"}) /\ PopReply(g) /\ UNCHANGED <<cause, writer, ids>>
        /\ frame(g).t = "err" /\ toClient[g] # <<>>
    BY <1>12 DEF ReadErr, Receive
  <2>2. CASE NextReply(g) = Nil
    BY <1>4, <1>5, <1>12, <2>1, <2>2 DEF ReadErr
  <2>3. CASE NextReply(g) # Nil
    <3>1. NextReply(g) = frame(g).of
      BY <1>3, <2>1, <2>3, HeadReply DEF ReplyKinds
    <3>2. /\ reader'[g].pc = "taken" /\ reader'[g].job = NextReply(g)
          /\ reader'[g].res.of = frame(g).of
      BY <1>12, <2>3 DEF ReadErr, TypeOK, ConnTypeOK
    <3>3. ReaderTrue(g)'
      BY <3>1, <3>2 DEF ReaderTrue
    <3>4. TableTrue(g)'
      BY <1>2, <1>3, <2>1 DEF TableTrue
    <3>5. Cut(g)'
      BY <1>3, <1>5, <2>1, <3>2 DEF Cut, Receive
    <3> QED
      BY <3>3, <3>4, <3>5 DEF Lawful
  <2> QED
    BY <2>2, <2>3
<1>13. CASE ReadData(g)
  <2> DEFINE j == ids[g][frame(g).id]
  <2>1. /\ Receive(g, DataKinds) /\ UNCHANGED <<cause, writer, ids, replyQ>>
        /\ frame(g).t \in DataKinds /\ toClient[g] # <<>>
    BY <1>13 DEF ReadData, Receive
  <2>2. CASE UNCHANGED reader
    BY <1>4, <2>1, <2>2
  <2>3. CASE j # Nil /\ frame(g).t # "inprogress"
    <3>1. frame(g) \in Range(toClient[g]) /\ frame(g) \in Frames
      BY <2>1, LinkTypes, RangeFacts DEF frame
    <3>2. frame(g).id \in Ids
      BY <2>1, <3>1 DEF Frames, DataKinds
    <3>3. IsTask(g, frame(g).id, j) /\ IsTask(g, frame(g).id, frame(g).of)
      BY <1>3, <2>1, <2>3, <3>1, <3>2 DEF TableTrue, FramesTrue
    <3>4. j = frame(g).of
      BY <3>3 DEF IsTask
    <3>5. PICK n, m : n = frame(g).id /\ m = j
      OBVIOUS
    <3>6. /\ reader'[g].pc = "found" /\ reader'[g].job = m /\ reader'[g].id = n
          /\ reader'[g].res.of = frame(g).of
      BY <1>13, <2>3, <3>5 DEF ReadData, TypeOK, ConnTypeOK
    <3>7. ReaderTrue(g)'
      BY <1>2, <3>3, <3>4, <3>5, <3>6 DEF ReaderTrue
    <3>8. TableTrue(g)'
      BY <1>2, <1>3, <2>1 DEF TableTrue
    <3>9. Cut(g)'
      BY <1>3, <2>1, <3>6 DEF Cut, Receive
    <3> QED
      BY <3>7, <3>8, <3>9 DEF Lawful
  <2> QED
    BY <1>13, <2>2, <2>3 DEF ReadData
<1>14. CASE SetId(g)
  <2>1. /\ reader[g].pc = "bound" /\ UNCHANGED <<cause, writer, ids, replyQ>>
        /\ reader'[g] = [reader[g] EXCEPT !.pc = "idset"]
    BY <1>14 DEF SetId, TypeOK, ConnTypeOK
  <2>2. reader'[g].pc = "idset" /\ reader'[g].job = reader[g].job /\ reader'[g].id = reader[g].id
    BY <2>1 DEF TypeOK, ConnTypeOK
  <2>3. ReaderTrue(g)' /\ TableTrue(g)' /\ Cut(g)'
    BY <1>2, <1>3, <2>1, <2>2 DEF ReaderTrue, TableTrue, Cut
  <2> QED
    BY <2>3 DEF Lawful
<1>15. CASE TakeData(g)
  <2>1. /\ reader[g].pc = "found" /\ UNCHANGED <<cause, writer, replyQ>>
        /\ reader'[g] = [reader[g] EXCEPT !.pc = "taken"]
        /\ ids'[g] = [ids[g] EXCEPT ![reader[g].id] = Nil]
    BY <1>15 DEF TakeData, TypeOK, ConnTypeOK
  <2>2. reader'[g].pc = "taken" /\ reader'[g].job = reader[g].job /\ reader'[g].res = reader[g].res
    BY <2>1 DEF TypeOK, ConnTypeOK
  <2>3. \A i \in Ids : ids'[g][i] # Nil => ids'[g][i] = ids[g][i]
    BY <2>1 DEF TypeOK, ConnTypeOK
  <2>4. ReaderTrue(g)' /\ Cut(g)'
    BY <1>3, <2>1, <2>2 DEF ReaderTrue, Cut
  <2>5. TableTrue(g)'
    BY <1>2, <1>3, <2>3 DEF TableTrue
  <2> QED
    BY <2>4, <2>5 DEF Lawful
<1>16. CASE HaltIfCanceled(g) \/ ReadDeliver(g) \/ ReadSend(g)
  <2>1. /\ reader[g].pc # "stopped" /\ UNCHANGED <<cause, writer, ids, replyQ>>
        /\ reader'[g].pc \in {"idle", "send"}
    BY <1>16 DEF HaltIfCanceled, ReadDeliver, ReadSend, Idle, TypeOK, ConnTypeOK
  <2>2. ReaderTrue(g)' /\ TableTrue(g)' /\ Cut(g)'
    BY <1>2, <1>3, <2>1 DEF ReaderTrue, TableTrue, Cut
  <2> QED
    BY <2>2 DEF Lawful
<1> QED
  BY <1>6, <1>7, <1>8, <1>9, <1>10, <1>11, <1>12, <1>13, <1>14, <1>15, <1>16
  DEF ConnStep, WriterStep, ReaderStep, Read

(* Nobody but its own goroutines, and the daemon with a new task, changes  *)
(* what a connection knows, unless Close takes it down.                    *)
LEMMA LawfulStep ==
  ASSUME NEW g \in Gens, TypeOK, LifeInv, AlignInv, [Next]_vars, cause'[g] # "closed",
         FramesTrue(g), cause[g] # "closed" => Lawful(g)
  PROVE  Lawful(g)'
<1>1. Lawful(g)
  BY ClosedStays
<1>2. \A i, j : IsTask(g, i, j) => IsTask(g, i, j)'
  BY TasksGrow
<1>3. ASSUME UNCHANGED <<cause[g], ids[g], reader[g], writer[g], replyQ[g]>> PROVE Lawful(g)'
  BY <1>1, <1>2, <1>3 DEF Lawful, Cut, TableTrue, ReaderTrue
<1>4. CASE Connection(g)
  BY <1>1, <1>4, ConnLawful DEF Connection, AlignInv
<1>5. CASE Daemon(g)
  BY <1>3, <1>5 DEF Daemon, connVars
<1>6. CASE ClosedBy(g)
  <2>1. state[g] # "open"
    BY <1>6 DEF ClosedBy, Fail, TypeOK, ConnTypeOK
  <2> QED
    BY <1>3, <1>6, <2>1 DEF ClosedBy, Fail
<1>7. ASSUME NEW j \in Jobs, Caller(j) PROVE Lawful(g)'
  BY <1>3, <1>7 DEF Caller
<1>8. CASE Dialled(g) \/ Untouched(g)
  BY <1>3, <1>8 DEF Dialled, Untouched
<1> QED
  BY <1>4, <1>5, <1>6, <1>7, <1>8, StepActsOn DEF ActsOn

(* A halt is made with the id of a task whose job is marked canceled.      *)
LEMMA HaltsTrueStep ==
  ASSUME NEW g \in Gens, TypeOK, LifeInv, [Next]_vars, DeliveryInv, cause'[g] # "closed"
  PROVE  HaltsTrue(g)'
<1>1. Lawful(g) /\ HaltsTrue(g) /\ cause[g] # "closed"
  BY ClosedStays DEF DeliveryInv, DeliveryOf
<1>2. SUFFICES ASSUME NEW i \in Ids, Halt(i) \in Orders(g)'
               PROVE  \E j \in Jobs : IsTask(g, i, j)' /\ canceled'[j]
  BY DEF HaltsTrue, IsTask
<1>3. \A j \in Jobs : IsTask(g, i, j) /\ canceled[j] => IsTask(g, i, j)' /\ canceled'[j]
  BY TasksGrow, CanceledStays
<1>4. \A j : IsTask(g, i, j) => j \in Jobs
  BY DEF IsTask, TypeOK, SocketTypeOK
<1>5. CASE Halt(i) \in Orders(g)
  BY <1>1, <1>3, <1>4, <1>5 DEF HaltsTrue, IsTask
<1>6. CASE HaltedByReader(g, i)
  BY <1>1, <1>3, <1>4, <1>6 DEF HaltedByReader, Lawful, ReaderTrue
<1>7. CASE HaltedByCaller(g, i)
  <2>1. PICK j \in Jobs : pc[j] = "halt" /\ cur[j] = g /\ jid[j] = i
    BY <1>7 DEF HaltedByCaller
  <2>2. i # 0
    BY DEF Ids
  <2>3. IsTask(g, i, j) /\ canceled[j]
    BY <1>1, <2>1, <2>2 DEF DeliveryInv, JobTrue
  <2> QED
    BY <1>3, <2>3
<1> QED
  BY <1>2, <1>5, <1>6, <1>7, OrdersStep

(***************************************************************************)
(* What a job is told                                                      *)
(***************************************************************************)
(* Its result comes from the reader or from fail, its id from the reader.  *)
Told(j, g) ==
  \/ reader[g].pc = "taken" /\ reader[g].job = j /\ ch'[j] = reader[g].res
  \/ j \in victims[g] /\ ch'[j] = Failure(cause[g])
Numbers(j, g) == reader[g].pc = "bound" /\ reader[g].job = j /\ jid'[j] = reader[g].id

(* How a job is told something, and how it gets its id.                    *)
LEMMA JobTold ==
  ASSUME TypeOK, [Next]_vars, NEW j \in Jobs
  PROVE  /\ ch'[j] = ch[j] \/ (ch[j] = None /\ \E g \in Gens : Told(j, g))
         /\ jid'[j] = jid[j] \/ \E g \in Gens : Numbers(j, g)
<1>1. ASSUME NEW i \in Jobs, Caller(i) PROVE UNCHANGED <<ch, jid>>
  BY <1>1 DEF Caller, CallerStep, Start, Acquire, Lookup, Wake, Submit, GiveUpEarly, ReturnResult,
              GiveUp, MarkCanceled, SendHalt, Finish, jobVars
<1>2. ASSUME NEW g \in Gens, ConnStep(g)
      PROVE  /\ ch'[j] = ch[j] \/ (ch[j] = None /\ Told(j, g))
             /\ jid'[j] = jid[j] \/ Numbers(j, g)
  <2>1. ASSUME NEW i, NEW res, Complete(i, res)
        PROVE  ch'[j] = ch[j] \/ (i = j /\ ch[j] = None /\ ch'[j] = res)
    BY <2>1 DEF Complete, TypeOK, ConnTypeOK
  <2>2. CASE ReadDeliver(g)
    BY <2>1, <2>2 DEF ReadDeliver, Told
  <2>3. CASE FailDeliver(g)
    BY <2>1, <2>3 DEF FailDeliver, Told
  <2>4. CASE SetId(g)
    BY <2>4 DEF SetId, Numbers, TypeOK, ConnTypeOK
  <2>5. CASE UNCHANGED <<ch, jid>>
    BY <2>5
  <2> QED
    BY <1>2, <2>2, <2>3, <2>4, <2>5
    DEF ConnStep, WriterStep, ReaderStep, FailStep, Read, WriterTake, WriterSend, WriterError,
        WriterQuit, FailSend, FailDone, ReadOkId, ReadHalted, ReadErr, ReadData, ReadNoise, ReadBad,
        ReadEnd, HaltIfCanceled, TakeData, ReadSend, jobVars, connVars
<1>3. CASE UNCHANGED <<ch, jid>>
  BY <1>3
<1> QED
  BY <1>1, <1>2, <1>3
  DEF Next, Connection, Daemon, Supervise, ConnLost, SuperClosed, SuperEnd, SleepTimer, SleepClosed,
      DialFails, DialSucceeds, CloseStart, Closing, CloseRead, CloseFail, CloseEnd, AtRest, vars,
      connVars, jobVars

(* A caller sends a halt only after it has marked its job.                 *)
LEMMA HaltMarked ==
  ASSUME TypeOK, [Next]_vars, NEW j \in Jobs, pc'[j] = "halt"
  PROVE  pc[j] = "halt" \/ canceled'[j]
<1>1. ASSUME NEW i \in Jobs, Caller(i) PROVE pc[j] = "halt" \/ canceled'[j]
  BY <1>1 DEF Caller, CallerStep, Start, Acquire, Lookup, Wake, Submit, GiveUpEarly, ReturnResult,
              GiveUp, MarkCanceled, SendHalt, Finish, Goto, TypeOK, ConnTypeOK
<1>2. CASE DialSucceeds
  BY <1>2 DEF DialSucceeds, Publish
<1>3. CASE UNCHANGED pc
  BY <1>3
<1> QED
  BY <1>1, <1>2, <1>3
  DEF Next, Connection, Daemon, Supervise, ConnLost, SuperClosed, SuperEnd, SleepTimer, SleepClosed,
      DialFails, CloseStart, Closing, CloseRead, CloseFail, CloseEnd, AtRest, vars, callerVars

(* What a job is told and the id it gets are its own.                      *)
LEMMA JobTrueStep ==
  ASSUME TypeOK, LifeInv, OwnedInv, DeliveryInv, [Next]_vars, NEW j \in Jobs
  PROVE  JobTrue(j)'
<1>1. JobTrue(j) /\ Moves(j)
  BY JobMoves DEF DeliveryInv
<1>2. \A g \in Gens : cause[g] = "closed" => cause'[g] = "closed"
  BY ClosedStays
<1>3. \A g \in Gens : cause[g] # "closed" => Lawful(g)
  BY DEF DeliveryInv, DeliveryOf
<1>4. \A g \in Gens : j \in Known(g) => cur[j] = g /\ pc[j] \in Late
  BY DEF OwnedInv, Owned
<1>5. \A g \in Gens : reader[g].job \in Known(g) /\ victims[g] \subseteq Known(g)
  BY DEF Known
<1>6. \A g \in Gens : cause[g] \notin Taken
  BY DEF TypeOK, ConnTypeOK, Taken, Causes
<1>7. (ch'[j] # None => cur'[j] \in Gens /\ pc'[j] \in Late)
      /\ (ch'[j].k \in Taken => ch'[j].of = j \/ cause'[cur'[j]] = "closed")
  <2>1. CASE ch'[j] = ch[j]
    BY <1>1, <1>2, <2>1 DEF JobTrue, Moves, None, Taken
  <2>2. ASSUME NEW g \in Gens, Told(j, g)
        PROVE  /\ cur'[j] \in Gens /\ pc'[j] \in Late
               /\ ch'[j].k \in Taken => ch'[j].of = j \/ cause'[cur'[j]] = "closed"
    <3>1. cur[j] = g /\ pc[j] \in Late
      BY <1>4, <1>5, <2>2 DEF Told
    <3>2. cur'[j] = g /\ pc'[j] \in Late
      BY <1>1, <3>1 DEF Moves
    <3>3. ch'[j].k \in Taken /\ cause[g] # "closed" => ch'[j].of = j
      BY <1>3, <1>6, <2>2 DEF Told, Lawful, ReaderTrue, Failure
    <3> QED
      BY <1>2, <3>2, <3>3
  <2> QED
    BY <2>1, <2>2, JobTold
<1>8. outcome'[j].k \in Taken =>
        pc'[j] \in Late /\ cur'[j] \in Gens /\ (outcome'[j].of = j \/ cause'[cur'[j]] = "closed")
  <2>1. CASE outcome'[j] = outcome[j]
    BY <1>1, <1>2, <2>1 DEF JobTrue, Moves
  <2>2. CASE outcome'[j] # outcome[j]
    <3>1. PICK i \in Jobs : Caller(i) /\ Decides(i)
      BY <2>2, OutcomeMoves
    <3>2. i = j
      BY <2>2, <3>1, CallerMoves
    <3>3. outcome'[j].k \in Taken => outcome'[j] = ch[j] /\ ch[j] # None
      BY <3>1, <3>2 DEF Decides, Failure, Taken
    <3> QED
      BY <1>1, <1>2, <3>3 DEF JobTrue, Moves
  <2> QED
    BY <2>1, <2>2
<1>9. \A g \in Gens : \A i : IsTask(g, i, j) => WillBeTask(g, i, j)
  BY TasksGrow DEF IsTask, WillBeTask
<1>10. jid'[j] # 0 => /\ cur'[j] \in Gens /\ pc'[j] \in Late
                      /\ cause'[cur'[j]] # "closed" => WillBeTask(cur'[j], jid'[j], j)
  <2>1. CASE jid'[j] = jid[j]
    <3>1. jid[j] # 0 => cur[j] \in Gens /\ pc[j] \in Late /\ cur'[j] = cur[j] /\ pc'[j] \in Late
      BY <1>1 DEF JobTrue, Moves
    <3>2. jid[j] # 0 /\ cause[cur[j]] # "closed" => IsTask(cur[j], jid[j], j)
      BY <1>1 DEF JobTrue
    <3> QED
      BY <1>2, <1>9, <2>1, <3>1, <3>2
  <2>2. ASSUME NEW g \in Gens, Numbers(j, g)
        PROVE  /\ cur'[j] \in Gens /\ pc'[j] \in Late
               /\ cause'[cur'[j]] # "closed" => WillBeTask(cur'[j], jid'[j], j)
    <3>1. cur[j] = g /\ pc[j] \in Late
      BY <1>4, <1>5, <2>2 DEF Numbers
    <3>2. cur'[j] = g /\ pc'[j] \in Late
      BY <1>1, <3>1 DEF Moves
    <3>3. cause[g] # "closed" => IsTask(g, jid'[j], j)
      BY <1>3, <2>2 DEF Numbers, Lawful, ReaderTrue
    <3> QED
      BY <1>2, <1>9, <3>2, <3>3
  <2> QED
    BY <2>1, <2>2, JobTold
<1>11. pc'[j] = "halt" => canceled'[j]
  BY <1>1, HaltMarked, CanceledStays DEF JobTrue
<1> QED
  BY <1>7, <1>8, <1>10, <1>11 DEF JobTrue, IsTask, WillBeTask

(***************************************************************************)
(* The theorems                                                            *)
(***************************************************************************)
(* Every frame, table entry, halt and answer concerns the task whose id or *)
(* job it carries, on every connection that Close did not take down: the   *)
(* inductive invariant of readLoop, the id table and halt.                 *)
THEOREM IdsAreTrue == Spec => []DeliveryInv
<1>1. Init => DeliveryInv
  <2> SUFFICES ASSUME Init PROVE DeliveryInv
    OBVIOUS
  <2>1. ASSUME NEW g \in Gens PROVE DeliveryOf(g)
    <3>1. /\ cause[g] = "none" /\ reader[g].pc = "idle" /\ writer[g].pc = "idle"
          /\ toClient[g] = <<>> /\ toDaemon[g] = <<>> /\ writeCh[g] = <<>>
          /\ \A i \in Ids : ids[g][i] = Nil
      BY DEF Init, SocketInit, ConnInit, WriterIdle, Idle, NoIds
    <3>2. Range(<<>>) = {}
      BY DEF Range
    <3>3. Orders(g) = {}
      BY <3>1, <3>2 DEF Orders
    <3> QED
      BY <3>1, <3>2, <3>3
      DEF DeliveryOf, FramesTrue, Lawful, Cut, TableTrue, ReaderTrue, HaltsTrue
  <2>2. ASSUME NEW j \in Jobs PROVE JobTrue(j)
    <3>1. ch[j] = None /\ outcome[j] = None /\ jid[j] = 0 /\ pc[j] = "idle"
      BY DEF Init, ConnInit
    <3> QED
      BY <3>1 DEF JobTrue, None, Taken
  <2> QED
    BY <2>1, <2>2 DEF DeliveryInv
<1>2. TypeOK /\ LifeInv /\ OwnedInv /\ AlignInv /\ DeliveryInv /\ [Next]_vars => DeliveryInv'
  <2> SUFFICES ASSUME TypeOK, LifeInv, OwnedInv, AlignInv, DeliveryInv, [Next]_vars
               PROVE  DeliveryInv'
    OBVIOUS
  <2>1. ASSUME NEW g \in Gens PROVE DeliveryOf(g)'
    <3>1. FramesTrue(g) /\ (cause[g] # "closed" => Lawful(g))
      BY DEF DeliveryInv, DeliveryOf
    <3>2. FramesTrue(g)'
      BY <3>1, FramesTrueStep
    <3>3. cause'[g] # "closed" => Lawful(g)' /\ HaltsTrue(g)'
      BY <3>1, LawfulStep, HaltsTrueStep
    <3> QED
      BY <3>2, <3>3 DEF DeliveryOf
  <2>2. ASSUME NEW j \in Jobs PROVE JobTrue(j)'
    BY <2>2, JobTrueStep
  <2> QED
    BY <2>1, <2>2 DEF DeliveryInv
<1> QED
  BY <1>1, <1>2, TypeCorrect, ConnectionLife, JobHasOneConnection, RepliesInOrder, PTL DEF Spec

(* A caller is given the result, the parse error or the rejection of its   *)
(* own trace, whatever was canceled, halted, lost or redialled meanwhile,  *)
(* unless Close took its connection down.                                  *)
THEOREM ResultsReachTheirCaller == Spec => []ExactDelivery
<1>1. DeliveryInv => ExactDelivery
  BY DEF DeliveryInv, JobTrue, ExactDelivery, Taken
<1> QED
  BY <1>1, IdsAreTrue, PTL

(* A halt on its way names a task of its own connection whose caller has   *)
(* given up: halt never stops another caller's trace.                      *)
THEOREM HaltsStopOwnTask == Spec => []HaltsOwnTask
<1>1. TypeOK /\ DeliveryInv => HaltsOwnTask
  <2> SUFFICES ASSUME TypeOK, DeliveryInv, NEW g \in Gens, NEW i \in Ids,
                      HaltQueued(g, i), cause[g] # "closed"
               PROVE  i <= Len(tasks[g]) /\ canceled[tasks[g][i]]
    BY DEF HaltsOwnTask
  <2>1. Halt(i) \in Orders(g)
    BY DEF HaltQueued, Orders, Range
  <2>2. i \in DOMAIN tasks[g] /\ canceled[tasks[g][i]]
    BY <2>1 DEF DeliveryInv, DeliveryOf, HaltsTrue
  <2> QED
    BY <2>2, LinkTypes DEF Ids
<1> QED
  BY <1>1, TypeCorrect, IdsAreTrue, PTL

(***************************************************************************)
(* The session implements module Measurement, for every number of jobs,    *)
(* connections and ids and every capacity: each step of a caller, of a     *)
(* goroutine, of the daemon, of the supervisor or of Close is a step of    *)
(* the promise, or one the callers do not see.                             *)
(***************************************************************************)
(* What Promise's refinement mapping makes of one job.                     *)
Call(j) == IF outcome[j] # None THEN "returned" ELSE IF pc[j] = "idle" THEN "new" ELSE "pending"
Fate(j) == IF cur[j] = 0 THEN "none" ELSE cause[cur[j]]

(***************************************************************************)
(* The steps of the promise, job by job                                    *)
(***************************************************************************)
LEMMA AsStutter ==
  ASSUME \A j \in Jobs : Call(j)' = Call(j) /\ Fate(j)' = Fate(j), outcome' = outcome,
         closed' = closed
  PROVE  UNCHANGED Promise!vars
BY DEF Promise!vars, Call, Fate

(* A caller enters trace.                                                  *)
LEMMA AsBegin ==
  ASSUME NEW j \in Jobs, Call(j) = "new", Call(j)' = "pending",
         \A i \in Jobs : i # j => Call(i)' = Call(i),
         \A i \in Jobs : Fate(i)' = Fate(i), outcome' = outcome, closed' = closed
  PROVE  Promise!Begin(j)
<1>1. [i \in Jobs |-> Call(i)]' = [[i \in Jobs |-> Call(i)] EXCEPT ![j] = "pending"]
  OBVIOUS
<1>2. [i \in Jobs |-> Fate(i)]' = [i \in Jobs |-> Fate(i)]
  OBVIOUS
<1> QED
  BY <1>1, <1>2 DEF Promise!Begin, Call, Fate

(* A call is decided with an outcome it deserves.                          *)
LEMMA AsReturn ==
  ASSUME NEW j \in Jobs, Call(j) = "pending" \/ (Call(j) = "new" /\ outcome'[j].k = "closed"),
         Promise!Deserved(j, outcome'[j]), Call(j)' = "returned",
         \A i \in Jobs : i # j => Call(i)' = Call(i),
         \A i \in Jobs : Fate(i)' = Fate(i),
         outcome' = [outcome EXCEPT ![j] = outcome'[j]], closed' = closed
  PROVE  Promise!Return(j, outcome'[j])
<1>1. [i \in Jobs |-> Call(i)]' = [[i \in Jobs |-> Call(i)] EXCEPT ![j] = "returned"]
  OBVIOUS
<1>2. [i \in Jobs |-> Fate(i)]' = [i \in Jobs |-> Fate(i)]
  OBVIOUS
<1> QED
  BY <1>1, <1>2 DEF Promise!Return, Call, Fate

(* A connection is given the cause of its end.                             *)
LEMMA AsBreak ==
  ASSUME NEW broken \in SUBSET Jobs, NEW why \in Causes, why = "closed" => closed,
         \A j \in broken : Call(j) # "new" /\ Fate(j) = "none" /\ Fate(j)' = why,
         \A j \in Jobs \ broken : Fate(j)' = Fate(j),
         \A j \in Jobs : Call(j)' = Call(j), outcome' = outcome, closed' = closed
  PROVE  Promise!Break(broken, why)
BY DEF Promise!Break, Call, Fate

(***************************************************************************)
(* What the mapping needs to know                                          *)
(***************************************************************************)
(* A call is decided exactly when it is past its last select; it has a     *)
(* connection from the lookup on.                                          *)
Phase(j) ==
  /\ outcome[j] # None <=> pc[j] \in {"mark", "halt", "done"}
  /\ pc[j] \in {"idle", "sem", "lookup", "parked", "woken"} => cur[j] = 0
  /\ pc[j] \in {"submit", "await"} => cur[j] \in Gens

(* What the reader holds is an answer of the daemon, what fail leaves is   *)
(* the cause of the job's own connection.                                  *)
Holds(g) == reader[g].pc \in {"found", "taken"} => reader[g].res.k \in Taken
Answered(j) ==
  ch[j] # None => \/ ch[j].k \in Taken
                  \/ ch[j].k \in Causes /\ cur[j] \in Gens /\ cause[cur[j]] = ch[j].k

PromiseInv == (\A j \in Jobs : Phase(j) /\ Answered(j)) /\ (\A g \in Gens : Holds(g))

(* How a caller that does not decide its outcome moves.                    *)
Goes(j) ==
  /\ outcome' = outcome
  /\ \/ pc[j] = "idle" /\ pc'[j] = "sem" /\ UNCHANGED cur
     \/ pc[j] = "lookup" /\ pc'[j] = "submit" /\ conn \in Gens /\ cur' = [cur EXCEPT ![j] = conn]
     \/ /\ pc[j] \in {"sem", "lookup", "woken"} /\ pc'[j] \in {"lookup", "parked", "woken"}
        /\ UNCHANGED cur
     \/ pc[j] = "submit" /\ pc'[j] = "await" /\ UNCHANGED cur
     \/ pc[j] \in {"mark", "halt"} /\ pc'[j] \in {"halt", "done"} /\ UNCHANGED cur

(* A caller goes on or decides; it changes nothing of the others.          *)
LEMMA CallerGoes ==
  ASSUME NEW j \in Jobs, TypeOK, Caller(j)
  PROVE  /\ \/ Goes(j)
            \/ Decides(j) /\ UNCHANGED cur /\ outcome' = [outcome EXCEPT ![j] = outcome'[j]]
         /\ \A i \in Jobs : i # j => pc'[i] = pc[i]
         /\ UNCHANGED <<cause, reader, ch, closed, state>>
<1> USE DEF TypeOK, Goto, Decides, Goes, Finish
<1>0. UNCHANGED <<cause, reader, closed, state>>
  BY DEF Caller, sessionVars
<1>1. CASE Start(j)
  BY <1>0, <1>1 DEF Start, jobVars
<1>2. CASE Acquire(j) \/ Lookup(j) \/ Wake(j)
  BY <1>0, <1>2 DEF Acquire, Lookup, Wake, GenOrNone, jobVars
<1>3. CASE Submit(j)
  BY <1>0, <1>3 DEF Submit, jobVars
<1>4. ASSUME NEW why \in {"ctx", "weak", "closed"}, GiveUpEarly(j, why)
      PROVE  /\ Decides(j) /\ UNCHANGED cur /\ outcome' = [outcome EXCEPT ![j] = outcome'[j]]
             /\ \A i \in Jobs : i # j => pc'[i] = pc[i]
             /\ UNCHANGED ch
  BY <1>4 DEF GiveUpEarly, GivesUp, jobVars
<1>5. ASSUME NEW why \in {"ctx", "weak", "closed"}, GiveUp(j, why)
      PROVE  /\ Decides(j) /\ UNCHANGED cur /\ outcome' = [outcome EXCEPT ![j] = outcome'[j]]
             /\ \A i \in Jobs : i # j => pc'[i] = pc[i]
             /\ UNCHANGED ch
  BY <1>5 DEF GiveUp, GivesUp, jobVars
<1>6. CASE ReturnResult(j)
  BY <1>0, <1>6 DEF ReturnResult, Delivered, jobVars
<1>7. CASE MarkCanceled(j) \/ SendHalt(j)
  BY <1>0, <1>7 DEF MarkCanceled, SendHalt, jobVars
<1> QED
  BY <1>0, <1>1, <1>2, <1>3, <1>4, <1>5, <1>6, <1>7 DEF Caller, CallerStep

(***************************************************************************)
(* The kinds of steps                                                      *)
(***************************************************************************)
(* fail begins on an open connection.                                      *)
Breaks(g, why) ==
  /\ cause[g] = "none" /\ why \in Causes /\ (why = "closed" => closed)
  /\ cause' = [cause EXCEPT ![g] = why]
  /\ UNCHANGED <<pc, cur, outcome, closed>>

(* Callers parked on readyCh wake, others stay where they are.             *)
Unseen ==
  /\ UNCHANGED <<cause, cur, outcome, closed>>
  /\ \A j \in Jobs : pc'[j] = pc[j] \/ (pc[j] = "parked" /\ pc'[j] = "woken")

Closes == closed' = TRUE /\ UNCHANGED <<cause, pc, cur, outcome>>

(* A step is a caller's, gives a connection its cause, sets closed, or is  *)
(* not seen by any caller.                                                 *)
LEMMA StepKinds ==
  ASSUME TypeOK, LifeInv, [Next]_vars
  PROVE  \/ \E j \in Jobs : Caller(j)
         \/ \E g \in Gens, why \in Causes : Breaks(g, why)
         \/ Unseen
         \/ Closes
<1>1. ASSUME NEW g \in Gens, NEW why \in Causes, Fail(g, why), why = "closed" => closed,
             UNCHANGED <<callerVars, closed>>
      PROVE  Breaks(g, why) \/ Unseen
  BY <1>1 DEF Fail, Breaks, Unseen, LifeInv, LifeOf, callerVars
<1>2. "unavailable" \in Causes /\ "protocol" \in Causes /\ "closed" \in Causes
  BY DEF Causes
<1>3. ASSUME UNCHANGED <<cause, callerVars, closed>> PROVE Unseen
  BY <1>3 DEF Unseen, callerVars
<1>4. ASSUME NEW g \in Gens, Connection(g)
      PROVE  Unseen \/ \E why \in Causes : Breaks(g, why)
  <2>1. UNCHANGED <<callerVars, closed>> /\ ConnStep(g)
    BY <1>4 DEF Connection, sessionVars
  <2>2. CASE WriterError(g) \/ ReadBad(g) \/ ReadEnd(g)
    BY <1>1, <1>2, <2>1, <2>2 DEF WriterError, ReadBad, ReadEnd
  <2>3. CASE UNCHANGED cause
    BY <1>3, <2>1, <2>3 DEF callerVars
  <2>4. CASE WriterTake(g) \/ WriterSend(g) \/ WriterQuit(g) \/ FailStep(g)
    BY <2>3, <2>4 DEF WriterTake, WriterSend, WriterQuit, FailStep, FailDeliver, FailSend, FailDone
  <2>5. CASE \/ ReadOkId(g) \/ ReadHalted(g) \/ ReadErr(g) \/ ReadData(g) \/ ReadNoise(g)
            \/ SetId(g) \/ HaltIfCanceled(g) \/ TakeData(g) \/ ReadDeliver(g) \/ ReadSend(g)
    BY <2>3, <2>5 DEF ReadOkId, ReadHalted, ReadErr, ReadData, ReadNoise, SetId, HaltIfCanceled,
                      TakeData, ReadDeliver, ReadSend, connVars
  <2> QED
    BY <2>1, <2>2, <2>4, <2>5 DEF ConnStep, WriterStep, ReaderStep, Read
<1>5. CASE SuperClosed
  BY <1>1, <1>2, <1>5 DEF SuperClosed, TypeOK
<1>6. CASE CloseFail
  BY <1>1, <1>2, <1>6 DEF CloseFail, TypeOK, LifeInv, GenOrNone
<1>7. CASE CloseStart
  BY <1>7 DEF CloseStart, Closes, connVars, callerVars
<1>8. CASE DialSucceeds
  BY <1>8 DEF DialSucceeds, Publish, Unseen, TypeOK
<1> QED
  BY <1>3, <1>4, <1>5, <1>6, <1>7, <1>8
  DEF Next, Daemon, Supervise, ConnLost, SuperEnd, SleepTimer, SleepClosed, DialFails, Closing,
      CloseRead, CloseEnd, AtRest, vars, connVars, sessionVars

(***************************************************************************)
(* The invariant                                                           *)
(***************************************************************************)
LEMMA PhaseStep ==
  ASSUME TypeOK, LifeInv, PromiseInv, [Next]_vars, NEW j \in Jobs
  PROVE  Phase(j)'
<1>1. Phase(j)
  BY DEF PromiseInv
<1>2. ASSUME UNCHANGED <<cur[j], outcome[j]>>,
             pc'[j] = pc[j] \/ (pc[j] = "parked" /\ pc'[j] = "woken")
      PROVE  Phase(j)'
  BY <1>1, <1>2 DEF Phase, None
<1>3. ASSUME NEW i \in Jobs, Caller(i) PROVE Phase(j)'
  <2>1. CASE i # j
    BY <1>2, <1>3, <2>1, CallerMoves
  <2>2. CASE i = j /\ Goes(j)
    BY <1>1, <2>2 DEF Goes, Phase, None, TypeOK
  <2>3. CASE i = j /\ Decides(j)
    BY <1>1, <2>3 DEF Decides, Phase, None, Failure, TypeOK
  <2> QED
    BY <1>3, <2>1, <2>2, <2>3, CallerGoes
<1> QED
  BY <1>2, <1>3, StepKinds DEF Breaks, Unseen, Closes

(* The reader takes only answers of the daemon into its hands.             *)
LEMMA HoldsStep ==
  ASSUME TypeOK, LifeInv, PromiseInv, [Next]_vars, NEW g \in Gens
  PROVE  Holds(g)'
<1>1. Holds(g)
  BY DEF PromiseInv
<1>2. ASSUME UNCHANGED reader[g] \/ reader'[g].pc \notin {"found", "taken"} PROVE Holds(g)'
  BY <1>1, <1>2 DEF Holds, Taken
<1>3. ASSUME ConnStep(g) PROVE Holds(g)'
  <2>1. CASE WriterStep(g) \/ FailStep(g)
    BY <1>2, <2>1 DEF WriterStep, FailStep, WriterTake, WriterSend, WriterError, WriterQuit,
                      FailDeliver, FailSend, FailDone
  <2>2. CASE ReadOkId(g) \/ ReadHalted(g) \/ ReadNoise(g) \/ ReadBad(g) \/ ReadEnd(g)
    BY <1>2, <2>2 DEF ReadOkId, ReadHalted, ReadNoise, ReadBad, ReadEnd, ReaderStopped, connVars,
                      TypeOK, ConnTypeOK
  <2>3. CASE ReadErr(g) \/ ReadData(g)
    BY <1>1, <2>3 DEF ReadErr, ReadData, Holds, Taken, TypeOK, ConnTypeOK
  <2>4. CASE SetId(g) \/ HaltIfCanceled(g) \/ ReadDeliver(g) \/ ReadSend(g)
    BY <1>2, <2>4 DEF SetId, HaltIfCanceled, ReadDeliver, ReadSend, Idle, TypeOK, ConnTypeOK
  <2>5. CASE TakeData(g)
    BY <1>1, <2>5 DEF TakeData, Holds, Taken, TypeOK, ConnTypeOK
  <2> QED
    BY <1>3, <2>1, <2>2, <2>3, <2>4, <2>5 DEF ConnStep, ReaderStep, Read
<1>4. CASE Connection(g)
  BY <1>3, <1>4 DEF Connection
<1>5. CASE Daemon(g)
  BY <1>2, <1>5 DEF Daemon, connVars
<1>6. ASSUME NEW j \in Jobs, Caller(j) PROVE Holds(g)'
  BY <1>2, <1>6 DEF Caller
<1>7. CASE ClosedBy(g) \/ Dialled(g) \/ Untouched(g)
  BY <1>2, <1>7 DEF ClosedBy, Dialled, Untouched
<1> QED
  BY <1>4, <1>5, <1>6, <1>7, StepActsOn DEF ActsOn

(* A job is told an answer of the daemon, or the cause of its connection.  *)
LEMMA AnsweredStep ==
  ASSUME TypeOK, LifeInv, OwnedInv, DeliveryInv, PromiseInv, [Next]_vars, NEW j \in Jobs
  PROVE  Answered(j)'
<1>1. Answered(j) /\ Moves(j) /\ JobTrue(j)
  BY JobMoves DEF PromiseInv, DeliveryInv
<1>2. ASSUME NEW g \in Gens, cause[g] # "none"
      PROVE  cause'[g] = cause[g]
  <2>1. state[g] \notin {"none", "open"}
    BY <1>2 DEF LifeInv, LifeOf
  <2> QED
    BY <2>1, LifeMoves DEF Lives
<1>3. CASE ch'[j] = ch[j]
  <2>1. CASE ch[j] = None
    BY <1>3, <2>1 DEF Answered, None
  <2>2. CASE ch[j].k \in Taken
    BY <1>3, <2>2 DEF Answered, None, Taken
  <2>3. CASE ch[j] # None /\ ch[j].k \in Causes /\ cur[j] \in Gens /\ cause[cur[j]] = ch[j].k
    <3>1. cur'[j] = cur[j] /\ cause'[cur[j]] = cause[cur[j]]
      BY <1>1, <1>2, <2>3 DEF Moves, JobTrue, Causes
    <3> QED
      BY <1>3, <2>3, <3>1 DEF Answered
  <2> QED
    BY <1>1, <2>1, <2>2, <2>3 DEF Answered
<1>4. ASSUME NEW g \in Gens, Told(j, g) PROVE Answered(j)'
  <2>1. CASE reader[g].pc = "taken" /\ reader[g].job = j /\ ch'[j] = reader[g].res
    <3>1. ch'[j].k \in Taken
      BY <2>1 DEF PromiseInv, Holds
    <3> QED
      BY <3>1 DEF Answered, Taken
  <2>2. CASE j \in victims[g] /\ ch'[j] = Failure(cause[g])
    <3>1. cur[j] = g /\ pc[j] \in Late
      BY <2>2, SocketAssumption DEF OwnedInv, Owned, Known
    <3>2. state[g] = "failing"
      BY <2>2 DEF LifeInv, LifeOf
    <3>3. cause[g] \in Causes /\ cause'[g] = cause[g]
      BY <1>2, <3>2 DEF LifeInv, LifeOf, TypeOK, ConnTypeOK
    <3>4. cur'[j] = g
      BY <1>1, <3>1 DEF Moves
    <3> QED
      BY <2>2, <3>3, <3>4 DEF Answered, Failure
  <2> QED
    BY <1>4, <2>1, <2>2 DEF Told
<1> QED
  BY <1>3, <1>4, JobTold

(* A call is decided when it is past its last select, a job that was told  *)
(* something was told an answer or the cause of its own connection.        *)
THEOREM PromiseMapping == Spec => []PromiseInv
<1>1. Init => PromiseInv
  <2> SUFFICES ASSUME Init PROVE PromiseInv
    OBVIOUS
  <2>1. ASSUME NEW j \in Jobs PROVE Phase(j) /\ Answered(j)
    BY DEF Init, ConnInit, Phase, Answered
  <2>2. ASSUME NEW g \in Gens PROVE Holds(g)
    BY DEF Init, ConnInit, Holds, Idle
  <2> QED
    BY <2>1, <2>2 DEF PromiseInv
<1>2. /\ TypeOK /\ LifeInv /\ OwnedInv /\ DeliveryInv /\ PromiseInv
      /\ [Next]_vars
      => PromiseInv'
  <2> SUFFICES ASSUME TypeOK, LifeInv, OwnedInv, DeliveryInv, PromiseInv, [Next]_vars
               PROVE  PromiseInv'
    OBVIOUS
  <2>1. \A j \in Jobs : Phase(j)' /\ Answered(j)'
    BY PhaseStep, AnsweredStep
  <2>2. \A g \in Gens : Holds(g)'
    BY HoldsStep
  <2> QED
    BY <2>1, <2>2 DEF PromiseInv
<1> QED
  BY <1>1, <1>2, TypeCorrect, ConnectionLife, JobHasOneConnection, IdsAreTrue, PTL DEF Spec

(***************************************************************************)
(* The refinement                                                          *)
(***************************************************************************)
LEMMA CallerKeepsPromise ==
  ASSUME TypeOK, TypeOK', LifeInv, DeliveryInv, PromiseInv, [Next]_vars, NEW j \in Jobs, Caller(j)
  PROVE  [Promise!Next]_Promise!vars
<1>1. /\ Phase(j) /\ Answered(j) /\ JobTrue(j) /\ Phase(j)'
      /\ \A g \in Gens : LifeOf(g)
  BY PhaseStep DEF PromiseInv, DeliveryInv, LifeInv
<1>2. /\ \A i \in Jobs : i # j => pc'[i] = pc[i]
      /\ UNCHANGED <<cause, closed>>
  BY CallerGoes
<1>3. CASE Goes(j)
  <2>1. CASE pc[j] = "idle"
    <3>1. /\ Call(j) = "new" /\ Call(j)' = "pending" /\ outcome' = outcome
          /\ \A i \in Jobs : i # j => Call(i)' = Call(i)
          /\ \A i \in Jobs : Fate(i)' = Fate(i)
      BY <1>1, <1>2, <1>3, <2>1 DEF Goes, Phase, Call, Fate, None
    <3> QED
      BY <1>2, <3>1, AsBegin DEF Promise!Next
  <2>2. CASE pc[j] = "lookup" /\ pc'[j] = "submit"
    <3>1. /\ outcome' = outcome /\ conn \in Gens /\ cur' = [cur EXCEPT ![j] = conn]
          /\ cur[j] = 0 /\ outcome[j] = None
      BY <1>1, <1>3, <2>2 DEF Goes, Phase
    <3>2. Call(j) = "pending" /\ \A i \in Jobs : Call(i)' = Call(i)
      BY <1>2, <2>2, <3>1 DEF Call, None
    <3>3. Fate(j) = "none" /\ Fate(j)' = cause[conn] /\ \A i \in Jobs : i # j => Fate(i)' = Fate(i)
      BY <1>2, <3>1 DEF Fate, TypeOK, Gens
    <3>4. CASE cause[conn] = "none"
      BY <1>2, <3>1, <3>2, <3>3, <3>4, AsStutter
    <3>5. CASE cause[conn] # "none"
      <4>1. PICK why \in Causes : why = cause[conn] /\ (why = "closed" => closed)
        BY <1>1, <3>1, <3>5 DEF LifeOf, TypeOK, ConnTypeOK
      <4>2. Promise!Break({j}, why)
        BY <1>2, <3>1, <3>2, <3>3, <4>1, AsBreak
      <4> QED
        BY <4>2 DEF Promise!Next, Causes
    <3> QED
      BY <3>4, <3>5
  <2>3. CASE pc[j] # "idle" /\ UNCHANGED cur
    <3>1. outcome' = outcome /\ pc'[j] # "idle"
      BY <1>3, <2>3 DEF Goes
    <3>2. \A i \in Jobs : Call(i)' = Call(i) /\ Fate(i)' = Fate(i)
      BY <1>2, <2>3, <3>1 DEF Call, Fate, None
    <3> QED
      BY <1>2, <3>1, <3>2, AsStutter
  <2> QED
    BY <1>3, <2>1, <2>2, <2>3 DEF Goes
<1>4. CASE Decides(j) /\ UNCHANGED cur /\ outcome' = [outcome EXCEPT ![j] = outcome'[j]]
  <2>1. outcome[j] = None
    BY <1>1, <1>4 DEF Decides, Phase
  <2>2. outcome'[j] # None
    BY <1>4 DEF Decides, Failure, None
  <2>3. /\ Call(j) = "pending" \/ (Call(j) = "new" /\ outcome'[j].k = "closed")
        /\ Call(j)' = "returned"
    BY <1>4, <2>1, <2>2 DEF Decides, Call, Failure, None
  <2>4. \A i \in Jobs : i # j => Call(i)' = Call(i)
    BY <1>2, <1>4 DEF Call, None, TypeOK
  <2>5. \A i \in Jobs : Fate(i)' = Fate(i)
    BY <1>2, <1>4 DEF Fate
  <2>6. Promise!Deserved(j, outcome'[j])
    <3>1. CASE pc[j] = "await" /\ ch[j] # None /\ outcome'[j] = ch[j]
      <4>1. cur[j] \in Gens /\ Fate(j) = cause[cur[j]]
        BY <1>1, <3>1 DEF Phase, Fate, Gens
      <4>2. CASE ch[j].k \in Taken
        BY <1>1, <3>1, <4>1, <4>2 DEF JobTrue, Promise!Deserved, Taken, Fate
      <4>3. CASE ch[j].k \in Causes /\ cause[cur[j]] = ch[j].k
        BY <1>1, <3>1, <4>1, <4>3 DEF LifeOf, Promise!Deserved, Causes, Fate
      <4> QED
        BY <1>1, <3>1, <4>2, <4>3 DEF Answered
    <3>2. CASE outcome'[j] = Failure("ctx") \/ (outcome'[j] = Failure("closed") /\ closed)
      BY <3>2 DEF Failure, Promise!Deserved
    <3>3. CASE /\ outcome'[j] = Failure("gone") \/ outcome'[j] = Failure("weak")
               /\ pc[j] \in {"submit", "await"} /\ dead(cur[j])
      <4>1. cur[j] \in Gens /\ Fate(j) = cause[cur[j]]
        BY <1>1, <3>3 DEF Phase, Fate, Gens
      <4>2. cause[cur[j]] # "none"
        BY <1>1, <3>3, <4>1 DEF LifeOf, dead
      <4> QED
        BY <3>3, <4>1, <4>2 DEF Failure, Promise!Deserved, Fate
    <3> QED
      BY <1>4, <3>1, <3>2, <3>3 DEF Decides
  <2>7. Promise!Return(j, outcome'[j])
    BY <1>2, <1>4, <2>3, <2>4, <2>5, <2>6, AsReturn
  <2> QED
    BY <2>7 DEF Promise!Next
<1> QED
  BY <1>3, <1>4, CallerGoes

(* fail ends the connection for every call that was given it.              *)
LEMMA BreakKeepsPromise ==
  ASSUME TypeOK, PromiseInv, NEW g \in Gens, NEW why \in Causes, Breaks(g, why)
  PROVE  [Promise!Next]_Promise!vars
<1> DEFINE broken == {j \in Jobs : cur[j] = g}
<1>1. /\ broken \in SUBSET Jobs /\ outcome' = outcome /\ closed' = closed
      /\ why = "closed" => closed
  BY DEF Breaks
<1>2. \A j \in Jobs : Call(j)' = Call(j)
  BY DEF Breaks, Call, None
<1>3. \A j \in broken : Call(j) # "new" /\ Fate(j) = "none" /\ Fate(j)' = why
  BY DEF Breaks, Call, Fate, PromiseInv, Phase, Gens, TypeOK, ConnTypeOK
<1>4. \A j \in Jobs \ broken : Fate(j)' = Fate(j)
  BY DEF Breaks, Fate, TypeOK, ConnTypeOK, GenOrNone
<1>5. Promise!Break(broken, why)
  BY <1>1, <1>2, <1>3, <1>4, AsBreak
<1> QED
  BY <1>1, <1>5 DEF Promise!Next, Causes

(* Every call is answered at most once, with what became of its own task   *)
(* or of its own connection, an error naming what really ended it: the     *)
(* session implements Measurement, the promise of session.trace.           *)
THEOREM SessionKeepsPromise == Spec => KeepsPromise
<1>1. Init => Promise!Init
  BY DEF Init, ConnInit, Promise!Init, Promise!NoAnswer, None
<1>2. /\ TypeOK /\ TypeOK' /\ LifeInv /\ DeliveryInv /\ PromiseInv
      /\ [Next]_vars
      => [Promise!Next]_Promise!vars
  <2> SUFFICES ASSUME TypeOK, TypeOK', LifeInv, DeliveryInv, PromiseInv, [Next]_vars
               PROVE  [Promise!Next]_Promise!vars
    OBVIOUS
  <2>1. ASSUME NEW j \in Jobs, Caller(j) PROVE [Promise!Next]_Promise!vars
    BY <2>1, CallerKeepsPromise
  <2>2. ASSUME NEW g \in Gens, NEW why \in Causes, Breaks(g, why)
        PROVE  [Promise!Next]_Promise!vars
    BY <2>2, BreakKeepsPromise
  <2>3. CASE Unseen
    <3>1. \A j \in Jobs : Call(j)' = Call(j) /\ Fate(j)' = Fate(j)
      BY <2>3 DEF Unseen, Call, Fate, None
    <3> QED
      BY <2>3, <3>1, AsStutter DEF Unseen
  <2>4. CASE Closes
    BY <2>4 DEF Closes, Promise!Next, Promise!Close
  <2> QED
    BY <2>1, <2>2, <2>3, <2>4, StepKinds
<1> QED
  BY <1>1, <1>2, TypeCorrect, ConnectionLife, IdsAreTrue, PromiseMapping, PTL
  DEF Spec, KeepsPromise, Promise!Spec
=============================================================================
