--------------------------- MODULE AttemptProofs ---------------------------
(***************************************************************************)
(* Theorems about Attempt: configurations share no array that append may   *)
(* write to, so that what the application does to one leaves the others    *)
(* and the call under way alone; and what the clients make of the output.  *)
(***************************************************************************)
EXTENDS Attempt, SequenceTheorems, FiniteSetTheorems, TLAPS

(***************************************************************************)
(* Slices                                                                  *)
(***************************************************************************)
Parts == {"options", "extraArgs"}

(* The provers do not know that "" is a string.                            *)
Token == STRING \cup {""}

(* The configurations are records of the three parts.                      *)
Records(cf) == cf = [c \in Configs |->
  [fields |-> cf[c].fields, options |-> cf[c].options, extraArgs |-> cf[c].extraArgs]]

(* Every slice lies in its array, whose elements are texts; array 1 has no *)
(* room.                                                                   *)
SlicesFit(cf, hp) ==
  /\ hp \in Seq(Seq(Token)) /\ hp # <<>> /\ hp[1] = <<>>
  /\ \A c \in Configs, p \in Parts :
       /\ cf[c][p] = [arr |-> cf[c][p].arr, len |-> cf[c][p].len]
       /\ cf[c][p].arr \in 1..Len(hp) /\ cf[c][p].len \in 0..Len(hp[cf[c][p].arr])

(* Two slices never share an array with room in it.                        *)
ArraysAreOwn(cf) == \A c, d \in Configs, p, q \in Parts :
  cf[c][p].arr = cf[d][q].arr => cf[c][p].arr = 1 \/ (c = d /\ p = q)

ConfigInv ==
  /\ made \subseteq Configs
  /\ Records(config) /\ SlicesFit(config, heap) /\ ArraysAreOwn(config)

(* What a slice sl of the heap hp reads.                                   *)
Elements(hp, sl) == SubSeq(hp[sl.arr], 1, sl.len)

(* A function on 1..n is a sequence of length n.                           *)
LEMMA FunctionIsSeq ==
  ASSUME NEW S, NEW n \in Nat, NEW f \in [1..n -> S]
  PROVE  f \in Seq(S) /\ Len(f) = n
  OBVIOUS

(* Elements of a slice that fits.                                          *)
LEMMA ElementsOf ==
  ASSUME NEW cf, NEW hp, SlicesFit(cf, hp), NEW c \in Configs, NEW p \in Parts
  PROVE  /\ hp[cf[c][p].arr] \in Seq(Token)
         /\ Elements(hp, cf[c][p]) \in Seq(Token)
         /\ Len(Elements(hp, cf[c][p])) = cf[c][p].len
         /\ \A i \in 1..cf[c][p].len : Elements(hp, cf[c][p])[i] = hp[cf[c][p].arr][i]
<1> DEFINE arr == cf[c][p].arr
           len == cf[c][p].len
<1>1. hp \in Seq(Seq(Token)) /\ arr \in 1..Len(hp) /\ len \in 0..Len(hp[arr])
  BY DEF SlicesFit
<1> HIDE DEF arr, len
<1>2. hp[arr] \in Seq(Token) /\ len \in 0..Len(hp[arr])
  BY <1>1
<1>3. /\ SubSeq(hp[arr], 1, len) \in Seq(Token)
      /\ Len(SubSeq(hp[arr], 1, len)) = len
      /\ \A i \in 1..len : SubSeq(hp[arr], 1, len)[i] = hp[arr][i]
  BY <1>2
<1> QED
  BY <1>2, <1>3 DEF Elements, arr, len

(* cf with another slice.                                                  *)
Replaced(cf, c, p, sl) == [cf EXCEPT ![c][p] = sl]

(* Replacing one slice leaves the rest of the configurations.              *)
LEMMA SliceReplaced ==
  ASSUME NEW cf, Records(cf), NEW c \in Configs, NEW p \in Parts, NEW sl, NEW cf2,
         cf2 = Replaced(cf, c, p, sl)
  PROVE  /\ Records(cf2) /\ cf2[c][p] = sl
         /\ \A d \in Configs : cf2[d].fields = cf[d].fields
         /\ \A d \in Configs, q \in Parts : d # c \/ q # p => cf2[d][q] = cf[d][q]
<1>1. DOMAIN cf = Configs /\ DOMAIN cf2 = Configs
  BY DEF Records, Replaced
<1>2. /\ cf2 = [d \in Configs |-> cf2[d]]
      /\ \A d \in Configs \ {c} : cf2[d] = cf[d]
      /\ cf2[c] = [cf[c] EXCEPT ![p] = sl]
  BY <1>1 DEF Replaced
<1>3. \A d \in Configs : cf[d] = [fields |-> cf[d].fields, options |-> cf[d].options,
                                 extraArgs |-> cf[d].extraArgs]
  BY DEF Records
<1>4. /\ \E o, x : cf2[c] = [fields |-> cf[c].fields, options |-> o, extraArgs |-> x]
      /\ cf2[c][p] = sl /\ \A q \in Parts : q # p => cf2[c][q] = cf[c][q]
  <2> DEFINE r == cf[c]
             r2 == cf2[c]
  <2>1. /\ r2 = [r EXCEPT ![p] = sl]
        /\ r = [fields |-> r.fields, options |-> r.options, extraArgs |-> r.extraArgs]
    BY <1>2, <1>3
  <2> HIDE DEF r, r2
  <2>2. CASE p = "options"
    <3>1. r2 = [fields |-> r.fields, options |-> sl, extraArgs |-> r.extraArgs]
      BY <2>1, <2>2
    <3>2. r2[p] = sl /\ \A q \in Parts : q # p => r2[q] = r[q]
      BY <2>2, <3>1 DEF Parts
    <3> QED
      BY <3>1, <3>2 DEF r, r2
  <2>3. CASE p = "extraArgs"
    <3>1. r2 = [fields |-> r.fields, options |-> r.options, extraArgs |-> sl]
      BY <2>1, <2>3
    <3>2. r2[p] = sl /\ \A q \in Parts : q # p => r2[q] = r[q]
      BY <2>3, <3>1 DEF Parts
    <3> QED
      BY <3>1, <3>2 DEF r, r2
  <2> QED
    BY <2>2, <2>3 DEF Parts
<1>5. \A d \in Configs : cf2[d].fields = cf[d].fields
  BY <1>2, <1>4
<1>6. \A d \in Configs, q \in Parts : d # c \/ q # p => cf2[d][q] = cf[d][q]
  BY <1>2, <1>4
<1>7. \A d \in Configs : cf2[d] = [fields |-> cf2[d].fields, options |-> cf2[d].options,
                                  extraArgs |-> cf2[d].extraArgs]
  <2> SUFFICES ASSUME NEW d \in Configs
               PROVE  cf2[d] = [fields |-> cf2[d].fields, options |-> cf2[d].options,
                                extraArgs |-> cf2[d].extraArgs]
    OBVIOUS
  <2>1. CASE d = c
    BY <1>4, <2>1
  <2>2. CASE d # c
    BY <1>2, <1>3, <2>2
  <2> QED
    BY <2>1, <2>2
<1> QED
  BY <1>2, <1>4, <1>5, <1>6, <1>7 DEF Records

(* A sequence extends its beginning.                                       *)
LEMMA Extends ==
  ASSUME NEW old \in Seq(Token), NEW new \in Seq(Token), Len(old) <= Len(new),
         \A i \in 1..Len(old) : new[i] = old[i]
  PROVE  IsExtended(old, new)
<1>1. SubSeq(new, 1, Len(old)) = old
  OBVIOUS
<1> QED
  BY <1>1 DEF IsExtended

(* A slice extends a shorter one that its array begins with.               *)
LEMMA ElementsExtend ==
  ASSUME NEW cf, NEW hp, SlicesFit(cf, hp), NEW cf2, NEW hp2, SlicesFit(cf2, hp2),
         NEW c \in Configs, NEW p \in Parts, cf[c][p].len <= cf2[c][p].len,
         \A i \in 1..cf[c][p].len : hp2[cf2[c][p].arr][i] = hp[cf[c][p].arr][i]
  PROVE  IsExtended(Elements(hp, cf[c][p]), Elements(hp2, cf2[c][p]))
<1>1. /\ Elements(hp, cf[c][p]) \in Seq(Token) /\ Len(Elements(hp, cf[c][p])) = cf[c][p].len
      /\ \A i \in 1..cf[c][p].len : Elements(hp, cf[c][p])[i] = hp[cf[c][p].arr][i]
  BY ElementsOf
<1>2. /\ Elements(hp2, cf2[c][p]) \in Seq(Token) /\ Len(Elements(hp2, cf2[c][p])) = cf2[c][p].len
      /\ \A i \in 1..cf2[c][p].len : Elements(hp2, cf2[c][p])[i] = hp2[cf2[c][p].arr][i]
  BY ElementsOf
<1>3. cf[c][p].len \in Nat /\ cf2[c][p].len \in Nat
  BY <1>1, <1>2
<1> DEFINE old == Elements(hp, cf[c][p])
           new == Elements(hp2, cf2[c][p])
<1>4. /\ old \in Seq(Token) /\ new \in Seq(Token) /\ Len(old) <= Len(new)
      /\ \A i \in 1..Len(old) : new[i] = old[i]
  BY <1>1, <1>2, <1>3
<1> HIDE DEF old, new
<1>5. IsExtended(old, new)
  BY <1>4, Extends
<1> QED
  BY <1>5 DEF old, new

(* A new array begins with what it is made of.                             *)
LEMMA ArrayOf ==
  ASSUME NEW xs \in Seq(Token), NEW spare \in Nat
  PROVE  /\ Array(xs, spare) \in Seq(Token)
         /\ Len(xs) <= Len(Array(xs, spare))
         /\ \A i \in 1..Len(xs) : Array(xs, spare)[i] = xs[i]
<1> DEFINE room == [i \in 1..spare |-> ""]
<1>0. room \in [1..spare -> Token]
  BY DEF Token
<1> HIDE DEF room
<1>1. room \in Seq(Token) /\ Len(room) = spare
  BY <1>0, FunctionIsSeq
<1>2. /\ xs \o room \in Seq(Token) /\ Len(xs \o room) = Len(xs) + spare
      /\ \A i \in 1..Len(xs) : (xs \o room)[i] = xs[i]
  BY <1>1
<1>3. Array(xs, spare) = IF xs = <<>> THEN xs ELSE xs \o room
  BY DEF Array, room
<1>4. CASE xs = <<>>
  BY <1>3, <1>4
<1>5. CASE xs # <<>>
  BY <1>2, <1>3, <1>5
<1> QED
  BY <1>4, <1>5

(* The configurations cf2 on the heap hp2 are those of cf on hp but for    *)
(* what was appended to one slice.                                         *)
Appended(cf, hp, cf2, hp2, c, p) ==
  /\ Records(cf2) /\ SlicesFit(cf2, hp2) /\ ArraysAreOwn(cf2)
  /\ \A d \in Configs : cf2[d].fields = cf[d].fields
  /\ \A d \in Configs, q \in Parts : d # c \/ q # p =>
       Elements(hp2, cf2[d][q]) = Elements(hp, cf[d][q])
  /\ IsExtended(Elements(hp, cf[c][p]), Elements(hp2, cf2[c][p]))

(* The two branches of append.                                             *)
InPlace(cf, hp, c, p, xs, cf2, hp2) ==
  LET arr == cf[c][p].arr
      len == cf[c][p].len
      size == len + Len(xs)
  IN /\ size <= Len(hp[arr])
     /\ hp2 = [hp EXCEPT ![arr] =
          [i \in DOMAIN hp[arr] |-> IF i \in (len + 1)..size THEN xs[i - len] ELSE hp[arr][i]]]
     /\ cf2 = Replaced(cf, c, p, [cf[c][p] EXCEPT !.len = size])

InCopy(cf, hp, c, p, xs, cf2, hp2) ==
  /\ \E spare \in Nat : hp2 = Append(hp, Array(Elements(hp, cf[c][p]) \o xs, spare))
  /\ cf2 = Replaced(cf, c, p, [arr |-> Len(hp) + 1, len |-> cf[c][p].len + Len(xs)])

(* append in place: the room belongs to no other slice.                    *)
LEMMA AppendInPlace ==
  ASSUME NEW cf, NEW hp, Records(cf), SlicesFit(cf, hp), ArraysAreOwn(cf),
         NEW c \in Configs, NEW p \in Parts, NEW xs \in Seq(Token), NEW cf2, NEW hp2,
         InPlace(cf, hp, c, p, xs, cf2, hp2)
  PROVE  Appended(cf, hp, cf2, hp2, c, p)
<1> DEFINE arr == cf[c][p].arr
           len == cf[c][p].len
           size == len + Len(xs)
           sl == [arr |-> arr, len |-> size]
           new == [i \in DOMAIN hp[arr] |->
                     IF i \in (len + 1)..size THEN xs[i - len] ELSE hp[arr][i]]
<1>1. /\ hp \in Seq(Seq(Token)) /\ arr \in 1..Len(hp) /\ len \in 0..Len(hp[arr])
      /\ cf[c][p] = [arr |-> arr, len |-> len]
  BY DEF SlicesFit
<1>2. cf2 = Replaced(cf, c, p, sl)
  <2>1. [cf[c][p] EXCEPT !.len = size] = sl
    <3> HIDE DEF arr, len, size
    <3> QED
      BY <1>1
  <2> QED
    BY <2>1 DEF InPlace
<1>3. hp2 = [hp EXCEPT ![arr] = new]
  BY DEF InPlace
<1>4. size = len + Len(xs) /\ size <= Len(hp[arr])
  BY DEF InPlace
<1>5. /\ Records(cf2) /\ cf2[c][p] = [arr |-> arr, len |-> size]
      /\ \A d \in Configs : cf2[d].fields = cf[d].fields
      /\ \A d \in Configs, q \in Parts : d # c \/ q # p => cf2[d][q] = cf[d][q]
  <2> HIDE DEF sl
  <2>1. /\ Records(cf2) /\ cf2[c][p] = sl
        /\ \A d \in Configs : cf2[d].fields = cf[d].fields
        /\ \A d \in Configs, q \in Parts : d # c \/ q # p => cf2[d][q] = cf[d][q]
    BY <1>2, SliceReplaced
  <2> QED
    BY <2>1 DEF sl
<1>6. hp[arr] \in Seq(Token)
  BY ElementsOf
<1>7. new \in Seq(Token) /\ Len(new) = Len(hp[arr]) /\ \A i \in 1..len : new[i] = hp[arr][i]
  <2> HIDE DEF arr, len, size
  <2>1. \A i \in DOMAIN hp[arr] : i \in (len + 1)..size => xs[i - len] \in Token
    BY <1>1, <1>4, <1>6
  <2>2. \A i \in 1..Len(hp[arr]) : new[i] \in Token
    BY <1>6, <2>1
  <2>3. Len(hp[arr]) \in Nat /\ DOMAIN hp[arr] = 1..Len(hp[arr])
    BY <1>6
  <2>4. new \in [1..Len(hp[arr]) -> Token]
    BY <2>2, <2>3
  <2>5. new \in Seq(Token) /\ Len(new) = Len(hp[arr])
    BY <2>3, <2>4, FunctionIsSeq
  <2> QED
    BY <1>1, <1>6, <2>5
<1> HIDE DEF arr, len, size, sl, new
<1>8. /\ hp2 \in Seq(Seq(Token)) /\ Len(hp2) = Len(hp) /\ hp2[arr] = new
      /\ \A i \in 1..Len(hp) : i # arr => hp2[i] = hp[i]
  BY <1>1, <1>3, <1>7
<1>9. arr = 1 => new = hp[arr]
  BY <1>1, <1>6, <1>7 DEF SlicesFit
<1>10. ASSUME NEW d \in Configs, NEW q \in Parts, d # c \/ q # p
       PROVE  hp2[cf[d][q].arr] = hp[cf[d][q].arr]
  <2>1. cf[d][q].arr \in 1..Len(hp)
    BY DEF SlicesFit
  <2>2. cf[d][q].arr # arr \/ arr = 1
    BY <1>10 DEF ArraysAreOwn, arr
  <2> QED
    BY <1>8, <1>9, <2>1, <2>2
<1>11. SlicesFit(cf2, hp2)
  <2>1. hp2 # <<>> /\ hp2[1] = <<>>
    <3>1. hp[1] = <<>> /\ 1 \in 1..Len(hp)
      BY <1>1 DEF SlicesFit
    <3>2. hp2[1] = hp[1]
      BY <1>8, <1>9, <3>1
    <3>3. Len(hp2) >= 1
      BY <1>1, <1>8
    <3> QED
      BY <1>8, <3>1, <3>2, <3>3
  <2>2. ASSUME NEW d \in Configs, NEW q \in Parts
        PROVE  /\ cf2[d][q] = [arr |-> cf2[d][q].arr, len |-> cf2[d][q].len]
               /\ cf2[d][q].arr \in 1..Len(hp2) /\ cf2[d][q].len \in 0..Len(hp2[cf2[d][q].arr])
    <3>1. CASE d = c /\ q = p
      <4>1. cf2[c][p].arr = arr /\ cf2[c][p].len = size
        BY <1>5
      <4>2. size \in 0..Len(new) /\ arr \in 1..Len(hp2)
        BY <1>1, <1>4, <1>6, <1>7, <1>8
      <4> QED
        BY <1>5, <1>8, <3>1, <4>1, <4>2
    <3>2. CASE d # c \/ q # p
      <4>1. cf2[d][q] = cf[d][q] /\ hp2[cf[d][q].arr] = hp[cf[d][q].arr]
        BY <1>5, <1>10, <3>2
      <4>2. /\ cf[d][q] = [arr |-> cf[d][q].arr, len |-> cf[d][q].len]
            /\ cf[d][q].arr \in 1..Len(hp) /\ cf[d][q].len \in 0..Len(hp[cf[d][q].arr])
        BY DEF SlicesFit
      <4> QED
        BY <1>8, <4>1, <4>2
    <3> QED
      BY <3>1, <3>2
  <2> QED
    BY <1>8, <2>1, <2>2 DEF SlicesFit
<1>12. ArraysAreOwn(cf2)
  <2>1. \A d \in Configs, q \in Parts : cf2[d][q].arr = cf[d][q].arr
    BY <1>5 DEF arr
  <2> QED
    BY <2>1 DEF ArraysAreOwn
<1>13. \A d \in Configs, q \in Parts : d # c \/ q # p =>
         Elements(hp2, cf2[d][q]) = Elements(hp, cf[d][q])
  <2> SUFFICES ASSUME NEW d \in Configs, NEW q \in Parts, d # c \/ q # p
               PROVE  Elements(hp2, cf2[d][q]) = Elements(hp, cf[d][q])
    OBVIOUS
  <2>1. cf2[d][q] = cf[d][q] /\ hp2[cf[d][q].arr] = hp[cf[d][q].arr]
    BY <1>5, <1>10
  <2> QED
    BY <2>1 DEF Elements
<1>14. IsExtended(Elements(hp, cf[c][p]), Elements(hp2, cf2[c][p]))
  <2>1. cf2[c][p].arr = arr /\ cf2[c][p].len = size
    BY <1>5
  <2>2. cf[c][p].len <= cf2[c][p].len
    BY <1>1, <1>4, <2>1 DEF len
  <2>3. \A i \in 1..cf[c][p].len : hp2[cf2[c][p].arr][i] = hp[cf[c][p].arr][i]
    BY <1>7, <1>8, <2>1 DEF arr, len
  <2> QED
    BY <1>11, <2>2, <2>3, ElementsExtend
<1> QED
  BY <1>5, <1>11, <1>12, <1>13, <1>14 DEF Appended

(* append in a copy: the new array belongs to this slice only.             *)
LEMMA AppendInCopy ==
  ASSUME NEW cf, NEW hp, Records(cf), SlicesFit(cf, hp), ArraysAreOwn(cf),
         NEW c \in Configs, NEW p \in Parts, NEW xs \in Seq(Token), NEW cf2, NEW hp2,
         InCopy(cf, hp, c, p, xs, cf2, hp2)
  PROVE  Appended(cf, hp, cf2, hp2, c, p)
<1> DEFINE old == Elements(hp, cf[c][p])
           len == cf[c][p].len
           size == len + Len(xs)
           n == Len(hp) + 1
           sl == [arr |-> n, len |-> size]
<1>1. PICK spare \in Nat : hp2 = Append(hp, Array(old \o xs, spare))
  BY DEF InCopy
<1> DEFINE new == Array(old \o xs, spare)
<1>2. /\ old \in Seq(Token) /\ Len(old) = len /\ len \in Nat
      /\ \A i \in 1..len : old[i] = hp[cf[c][p].arr][i]
  <2>1. cf[c][p].len \in 0..Len(hp[cf[c][p].arr])
    BY DEF SlicesFit
  <2>2. len \in Nat
    BY <2>1
  <2> QED
    BY <2>2, ElementsOf
<1>3. /\ Records(cf2) /\ cf2[c][p] = [arr |-> n, len |-> size]
      /\ \A d \in Configs : cf2[d].fields = cf[d].fields
      /\ \A d \in Configs, q \in Parts : d # c \/ q # p => cf2[d][q] = cf[d][q]
  <2>1. cf2 = Replaced(cf, c, p, sl)
    BY DEF InCopy
  <2> HIDE DEF sl
  <2>2. /\ Records(cf2) /\ cf2[c][p] = sl
        /\ \A d \in Configs : cf2[d].fields = cf[d].fields
        /\ \A d \in Configs, q \in Parts : d # c \/ q # p => cf2[d][q] = cf[d][q]
    BY <2>1, SliceReplaced
  <2> QED
    BY <2>2 DEF sl
<1> HIDE DEF old, len
<1>4. /\ old \o xs \in Seq(Token) /\ Len(old \o xs) = size
      /\ \A i \in 1..len : (old \o xs)[i] = old[i]
  BY <1>2
<1>5. new \in Seq(Token) /\ size <= Len(new) /\ \A i \in 1..len : new[i] = old[i]
  <2> DEFINE all == old \o xs
  <2>1. all \in Seq(Token) /\ Len(all) = size /\ size \in Nat /\ len <= size
    BY <1>2, <1>4
  <2> HIDE DEF all, size
  <2>2. /\ Array(all, spare) \in Seq(Token) /\ size <= Len(Array(all, spare))
        /\ \A i \in 1..size : Array(all, spare)[i] = all[i]
    BY <2>1, ArrayOf
  <2> QED
    BY <1>2, <1>4, <2>1, <2>2 DEF all
<1>6. /\ hp \in Seq(Seq(Token)) /\ hp # <<>> /\ hp[1] = <<>>
      /\ Len(hp) \in Nat /\ Len(hp) >= 1 /\ 1 \in 1..Len(hp)
  <2>1. hp \in Seq(Seq(Token)) /\ hp # <<>> /\ hp[1] = <<>>
    BY DEF SlicesFit
  <2> QED
    BY <2>1
<1>7. hp2 = Append(hp, new)
  BY <1>1
<1>8. size \in Nat /\ len <= size
  BY <1>2
<1> HIDE DEF new, size, sl
<1>9. /\ hp2 \in Seq(Seq(Token)) /\ Len(hp2) = n /\ n \in Nat /\ hp2[n] = new
      /\ \A i \in 1..Len(hp) : hp2[i] = hp[i]
  BY <1>5, <1>6, <1>7
<1>10. ASSUME NEW d \in Configs, NEW q \in Parts
       PROVE  /\ cf[d][q] = [arr |-> cf[d][q].arr, len |-> cf[d][q].len]
              /\ cf[d][q].arr \in 1..Len(hp) /\ cf[d][q].len \in 0..Len(hp[cf[d][q].arr])
              /\ hp2[cf[d][q].arr] = hp[cf[d][q].arr] /\ cf[d][q].arr # n
              /\ cf[d][q].arr \in 1..Len(hp2)
  <2>1. /\ cf[d][q] = [arr |-> cf[d][q].arr, len |-> cf[d][q].len]
        /\ cf[d][q].arr \in 1..Len(hp) /\ cf[d][q].len \in 0..Len(hp[cf[d][q].arr])
    BY DEF SlicesFit
  <2>2. hp2[cf[d][q].arr] = hp[cf[d][q].arr]
    BY <1>9, <2>1
  <2>3. \A a \in 1..Len(hp) : a # n /\ a \in 1..n
    BY <1>6
  <2> QED
    BY <1>9, <2>1, <2>2, <2>3
<1>11. cf2[c][p].arr = n /\ cf2[c][p].len = size
  BY <1>3
<1>12. SlicesFit(cf2, hp2)
  <2>1. hp2 # <<>> /\ hp2[1] = <<>>
    <3>1. hp2[1] = hp[1]
      BY <1>6, <1>9
    <3>2. Len(hp2) >= 1
      BY <1>6, <1>9
    <3> QED
      BY <1>6, <1>9, <3>1, <3>2
  <2>2. ASSUME NEW d \in Configs, NEW q \in Parts
        PROVE  /\ cf2[d][q] = [arr |-> cf2[d][q].arr, len |-> cf2[d][q].len]
               /\ cf2[d][q].arr \in 1..Len(hp2) /\ cf2[d][q].len \in 0..Len(hp2[cf2[d][q].arr])
    <3>1. CASE d = c /\ q = p
      <4>1. n \in 1..Len(hp2) /\ size \in 0..Len(new)
        BY <1>5, <1>6, <1>8, <1>9
      <4> QED
        BY <1>3, <1>9, <1>11, <3>1, <4>1
    <3>2. CASE d # c \/ q # p
      <4>1. cf2[d][q] = cf[d][q]
        BY <1>3, <3>2
      <4> QED
        BY <1>10, <4>1
    <3> QED
      BY <3>1, <3>2
  <2> QED
    BY <1>9, <2>1, <2>2 DEF SlicesFit
<1>13. ArraysAreOwn(cf2)
  <2> SUFFICES ASSUME NEW d \in Configs, NEW e \in Configs, NEW q \in Parts, NEW r \in Parts,
                      cf2[d][q].arr = cf2[e][r].arr, ~ (d = e /\ q = r)
               PROVE  cf2[d][q].arr = 1
    BY DEF ArraysAreOwn
  <2>1. ASSUME NEW f \in Configs, NEW o \in Parts, f # c \/ o # p PROVE cf2[f][o].arr # n
    <3>1. cf2[f][o] = cf[f][o]
      BY <1>3, <2>1
    <3>2. cf[f][o].arr # n
      BY <1>10
    <3> QED
      BY <3>1, <3>2
  <2>2. (d # c \/ q # p) /\ (e # c \/ r # p)
    BY <1>11, <2>1
  <2>3. cf2[d][q] = cf[d][q] /\ cf2[e][r] = cf[e][r]
    BY <1>3, <2>2
  <2> QED
    BY <2>3 DEF ArraysAreOwn
<1>14. \A d \in Configs, q \in Parts : d # c \/ q # p =>
         Elements(hp2, cf2[d][q]) = Elements(hp, cf[d][q])
  <2> SUFFICES ASSUME NEW d \in Configs, NEW q \in Parts, d # c \/ q # p
               PROVE  Elements(hp2, cf2[d][q]) = Elements(hp, cf[d][q])
    OBVIOUS
  <2>1. cf2[d][q] = cf[d][q] /\ hp2[cf[d][q].arr] = hp[cf[d][q].arr]
    BY <1>3, <1>10
  <2> QED
    BY <2>1 DEF Elements
<1>15. IsExtended(Elements(hp, cf[c][p]), Elements(hp2, cf2[c][p]))
  <2>1. cf[c][p].len <= cf2[c][p].len
    BY <1>8, <1>11 DEF len
  <2>2. \A i \in 1..cf[c][p].len : hp2[cf2[c][p].arr][i] = hp[cf[c][p].arr][i]
    BY <1>2, <1>5, <1>9, <1>11 DEF len
  <2> QED
    BY <1>12, <2>1, <2>2, ElementsExtend
<1> QED
  BY <1>3, <1>12, <1>13, <1>14, <1>15 DEF Appended

(* append, whichever branch it takes.                                      *)
LEMMA AppendExtends ==
  ASSUME ConfigInv, NEW c \in Configs, NEW p \in Parts, NEW xs \in Seq(Token),
         AppendTo(c, p, xs)
  PROVE  Appended(config, heap, config', heap', c, p)
<1>1. InPlace(config, heap, c, p, xs, config', heap')
        \/ InCopy(config, heap, c, p, xs, config', heap')
  BY ConfigAssumption
  DEF ConfigAssumption, AppendTo, InPlace, InCopy, Replaced, Elements, Read
<1> QED
  BY <1>1, AppendInPlace, AppendInCopy DEF ConfigInv

(***************************************************************************)
(* The operations of a configuration                                       *)
(***************************************************************************)
(* Nothing but c's value changes, and its slices are extended.             *)
Touches(c) ==
  /\ \A d \in Configs : d # c => Value(d)' = Value(d)
  /\ IsExtended(Value(c).options, Value(c)'.options)
  /\ IsExtended(Value(c).extraArgs, Value(c)'.extraArgs)

(* A slice extends itself.                                                 *)
LEMMA ExtendsItself ==
  ASSUME ConfigInv, NEW c \in Configs, NEW p \in Parts
  PROVE  IsExtended(Elements(heap, config[c][p]), Elements(heap, config[c][p]))
<1>1. Elements(heap, config[c][p]) \in Seq(Token)
  BY ElementsOf DEF ConfigInv
<1>2. \A s \in Seq(Token) : IsExtended(s, s)
  BY Extends
<1> QED
  BY <1>1, <1>2

(* A value in terms of its slices.                                         *)
LEMMA ValueIs ==
  ASSUME NEW c
  PROVE  /\ Value(c) = [fields |-> config[c].fields,
                        options |-> Elements(heap, config[c]["options"]),
                        extraArgs |-> Elements(heap, config[c]["extraArgs"])]
         /\ Value(c)' = [fields |-> config'[c].fields,
                         options |-> Elements(heap', config'[c]["options"]),
                         extraArgs |-> Elements(heap', config'[c]["extraArgs"])]
  BY DEF Value, Read, Elements

(* An append touches one configuration.                                    *)
LEMMA AppendTouches ==
  ASSUME ConfigInv, NEW c \in Configs, NEW p \in Parts,
         Appended(config, heap, config', heap', c, p), made' = made
  PROVE  ConfigInv' /\ Touches(c)
<1>1. ConfigInv'
  BY DEF ConfigInv, Appended
<1>2. ASSUME NEW d \in Configs, d # c PROVE Value(d)' = Value(d)
  <2>1. \A q \in Parts : Elements(heap', config'[d][q]) = Elements(heap, config[d][q])
    BY <1>2 DEF Appended
  <2>2. config'[d].fields = config[d].fields
    BY DEF Appended
  <2> QED
    BY <2>1, <2>2, ValueIs DEF Parts
<1>3. ASSUME NEW q \in Parts
      PROVE  IsExtended(Elements(heap, config[c][q]), Elements(heap', config'[c][q]))
  <2>1. CASE q = p
    BY <2>1 DEF Appended
  <2>2. CASE q # p
    <3>1. Elements(heap', config'[c][q]) = Elements(heap, config[c][q])
      BY <2>2 DEF Appended
    <3> QED
      BY <3>1, ExtendsItself
  <2> QED
    BY <2>1, <2>2
<1>4. /\ IsExtended(Value(c).options, Value(c)'.options)
      /\ IsExtended(Value(c).extraArgs, Value(c)'.extraArgs)
  BY <1>3, ValueIs DEF Parts
<1> QED
  BY <1>1, <1>2, <1>4 DEF Touches

(* So does a call that changes nothing.                                    *)
LEMMA NothingTouches ==
  ASSUME ConfigInv, NEW c \in Configs, UNCHANGED <<made, config, heap>>
  PROVE  ConfigInv' /\ Touches(c)
<1>1. ConfigInv'
  BY DEF ConfigInv
<1>2. \A d : Value(d)' = Value(d)
  BY DEF Value, Read
<1>3. /\ IsExtended(Value(c).options, Value(c).options)
      /\ IsExtended(Value(c).extraArgs, Value(c).extraArgs)
  BY ValueIs, ExtendsItself DEF Parts
<1> QED
  BY <1>1, <1>2, <1>3 DEF Touches

(* A setter replaces the fields of one configuration.                      *)
LEMMA SetTouches ==
  ASSUME ConfigInv, NEW c \in Configs, NEW f, NEW v, Set(c, f, v)
  PROVE  ConfigInv' /\ Touches(c)
<1> DEFINE fs == [g \in DOMAIN config[c].fields \cup {f} |->
                    IF g = f THEN Stored(f, v) ELSE config[c].fields[g]]
<1>1. /\ config' = [config EXCEPT ![c] = [config[c] EXCEPT !.fields = fs]]
      /\ made' = made /\ heap' = heap
  BY DEF Set
<1> HIDE DEF fs
<1>2. DOMAIN config = Configs
      /\ \A d \in Configs : config[d] = [fields |-> config[d].fields,
           options |-> config[d].options, extraArgs |-> config[d].extraArgs]
  BY DEF ConfigInv, Records
<1>3. /\ config'[c] = [fields |-> fs, options |-> config[c].options,
                       extraArgs |-> config[c].extraArgs]
      /\ \A d \in Configs : d # c => config'[d] = config[d]
      /\ config' = [d \in Configs |-> config'[d]]
  <2>1. config'[c] = [config[c] EXCEPT !.fields = fs]
    BY <1>1, <1>2
  <2>2. /\ \A d \in Configs : d # c => config'[d] = config[d]
        /\ config' = [d \in Configs |-> config'[d]]
    BY <1>1, <1>2
  <2>3. config[c] = [fields |-> config[c].fields, options |-> config[c].options,
                     extraArgs |-> config[c].extraArgs]
    BY <1>2
  <2> QED
    BY <2>1, <2>2, <2>3
<1>4. Records(config')
  BY <1>2, <1>3 DEF Records
<1>5. \A d \in Configs, q \in Parts : config'[d][q] = config[d][q]
  BY <1>3 DEF Parts
<1>6. SlicesFit(config', heap') /\ ArraysAreOwn(config')
  <2>1. ArraysAreOwn(config')
    BY <1>5 DEF ConfigInv, ArraysAreOwn
  <2>2. SlicesFit(config', heap)
    <3>1. SlicesFit(config, heap)
      BY DEF ConfigInv
    <3>2. ASSUME NEW d \in Configs, NEW q \in Parts
          PROVE  LET sl == config'[d][q] IN
                 /\ sl = [arr |-> sl.arr, len |-> sl.len]
                 /\ sl.arr \in 1..Len(heap) /\ sl.len \in 0..Len(heap[sl.arr])
      <4>1. config'[d][q] = config[d][q]
        BY <1>5
      <4> QED
        BY <3>1, <4>1 DEF SlicesFit
    <3> QED
      BY <3>1, <3>2 DEF SlicesFit
  <2> QED
    BY <1>1, <2>1, <2>2
<1>7. \A d \in Configs : d # c => Value(d)' = Value(d)
  BY <1>1, <1>3 DEF Value, Read
<1>8. /\ IsExtended(Value(c).options, Value(c)'.options)
      /\ IsExtended(Value(c).extraArgs, Value(c)'.extraArgs)
  BY <1>1, <1>5, ValueIs, ExtendsItself DEF Parts
<1> QED
  BY <1>1, <1>4, <1>6, <1>7, <1>8 DEF ConfigInv, Touches

(* Every method of a configuration touches that one only.                  *)
LEMMA ConfigureTouches ==
  ASSUME ConfigInv, NEW c \in Configs, Configure(c)
  PROVE  ConfigInv' /\ Touches(c) /\ made' = made
<1>1. ASSUME NEW s \in Setters, Set(c, s[1], s[2]) PROVE ConfigInv' /\ Touches(c) /\ made' = made
  BY <1>1, SetTouches DEF Set
<1>2. ASSUME NEW o \in OptionArgs, AddOption(c, o)
      PROVE  ConfigInv' /\ Touches(c) /\ made' = made
  <2>1. CASE UNCHANGED <<config, heap>>
    BY <1>2, <2>1, NothingTouches DEF AddOption
  <2>2. CASE AppendTo(c, "options", <<o>>)
    <3>1. <<o>> \in Seq(Token)
      <4>1. o \in Token
        BY ConfigAssumption DEF ConfigAssumption, Token
      <4> HIDE DEF Token
      <4> QED
        BY <4>1
    <3>2. "options" \in Parts
      BY DEF Parts
    <3>3. Appended(config, heap, config', heap', c, "options")
      BY <2>2, <3>1, <3>2, AppendExtends
    <3> QED
      BY <1>2, <3>2, <3>3, AppendTouches DEF AddOption
  <2> QED
    BY <1>2, <2>1, <2>2 DEF AddOption
<1>3. ASSUME NEW args \in ExtraArgs, AddExtraArgs(c, args)
      PROVE  ConfigInv' /\ Touches(c) /\ made' = made
  <2>1. args \in Seq(Token)
    <3>1. args \in Seq(STRING) /\ STRING \subseteq Token
      BY ConfigAssumption DEF ConfigAssumption, Token
    <3> QED
      BY <3>1, SeqMonotonic
  <2>2. "extraArgs" \in Parts
    BY DEF Parts
  <2>3. Appended(config, heap, config', heap', c, "extraArgs")
    BY <1>3, <2>1, <2>2, AppendExtends DEF AddExtraArgs
  <2> QED
    BY <1>3, <2>2, <2>3, AppendTouches DEF AddExtraArgs
<1> QED
  BY <1>1, <1>2, <1>3 DEF Configure

(* A clone's slices are arrays of their own; the others are left alone.    *)
LEMMA CloneLeaves ==
  ASSUME ConfigInv, NEW c \in Configs, NEW d \in Configs, Clone(c, d)
  PROVE  /\ ConfigInv' /\ made' = made \cup {d} /\ d \notin made
         /\ \A e \in Configs : e # d => Value(e)' = Value(e)
<1> DEFINE n == Len(heap)
           xs == Elements(heap, config[c]["options"])
           ys == Elements(heap, config[c]["extraArgs"])
           osl == [arr |-> n + 1, len |-> config[c].options.len]
           esl == [arr |-> n + 2, len |-> config[c].extraArgs.len]
<1>1. PICK k \in Nat, l \in Nat : heap' = heap \o <<Array(xs, k), Array(ys, l)>>
  BY ConfigAssumption DEF ConfigAssumption, Clone, Read, Elements
<1> DEFINE A == Array(xs, k)
           B == Array(ys, l)
<1>2. /\ config' = [config EXCEPT ![d] = [fields |-> config[c].fields, options |-> osl,
                                         extraArgs |-> esl]]
      /\ made' = made \cup {d} /\ d \notin made
  BY DEF Clone
<1>3. /\ SlicesFit(config, heap) /\ ArraysAreOwn(config) /\ Records(config)
      /\ made \subseteq Configs
  BY DEF ConfigInv
<1>4. /\ heap \in Seq(Seq(Token)) /\ heap # <<>> /\ heap[1] = <<>>
      /\ n \in Nat /\ n >= 1 /\ 1 \in 1..n
  <2>1. heap \in Seq(Seq(Token)) /\ heap # <<>> /\ heap[1] = <<>>
    BY <1>3 DEF SlicesFit
  <2> QED
    BY <2>1
<1>5. /\ A \in Seq(Token) /\ config[c].options.len \in 0..Len(A)
      /\ B \in Seq(Token) /\ config[c].extraArgs.len \in 0..Len(B)
  <2>1. "options" \in Parts /\ "extraArgs" \in Parts
    BY DEF Parts
  <2>2. /\ xs \in Seq(Token) /\ Len(xs) = config[c].options.len
        /\ ys \in Seq(Token) /\ Len(ys) = config[c].extraArgs.len
    BY <1>3, <2>1, ElementsOf
  <2> HIDE DEF xs, ys
  <2>3. A \in Seq(Token) /\ Len(xs) <= Len(A) /\ B \in Seq(Token) /\ Len(ys) <= Len(B)
    BY <2>2, ArrayOf
  <2> HIDE DEF A, B
  <2> QED
    BY <2>2, <2>3
<1>6. heap' = heap \o <<A, B>>
  BY <1>1
<1> HIDE DEF A, B, xs, ys
<1>7. /\ heap' \in Seq(Seq(Token)) /\ Len(heap') = n + 2
      /\ heap'[n + 1] = A /\ heap'[n + 2] = B
      /\ \A i \in 1..n : heap'[i] = heap[i]
  <2>1. <<A, B>> \in Seq(Seq(Token)) /\ Len(<<A, B>>) = 2
    BY <1>5
  <2> QED
    BY <1>4, <1>6, <2>1
<1>8. /\ config'[d] = [fields |-> config[c].fields, options |-> osl, extraArgs |-> esl]
      /\ \A e \in Configs : e # d => config'[e] = config[e]
      /\ config' = [e \in Configs |-> config'[e]]
  <2>1. DOMAIN config = Configs
    BY <1>3 DEF Records
  <2> QED
    BY <1>2, <2>1
<1>9. Records(config')
  <2>1. \A e \in Configs : config[e] = [fields |-> config[e].fields,
          options |-> config[e].options, extraArgs |-> config[e].extraArgs]
    BY <1>3 DEF Records
  <2> QED
    BY <1>8, <2>1 DEF Records
<1>10. ASSUME NEW e \in Configs, NEW q \in Parts, e # d
       PROVE  /\ config'[e][q] = config[e][q]
              /\ config[e][q] = [arr |-> config[e][q].arr, len |-> config[e][q].len]
              /\ config[e][q].arr \in 1..n
              /\ config[e][q].len \in 0..Len(heap[config[e][q].arr])
              /\ heap'[config[e][q].arr] = heap[config[e][q].arr]
  <2>1. /\ config[e][q] = [arr |-> config[e][q].arr, len |-> config[e][q].len]
        /\ config[e][q].arr \in 1..n
        /\ config[e][q].len \in 0..Len(heap[config[e][q].arr])
    BY <1>3 DEF SlicesFit
  <2>2. heap'[config[e][q].arr] = heap[config[e][q].arr]
    BY <1>7, <2>1
  <2>3. config'[e][q] = config[e][q]
    BY <1>8, <1>10
  <2> QED
    BY <2>1, <2>2, <2>3
<1>11. SlicesFit(config', heap')
  <2>1. heap' # <<>> /\ heap'[1] = <<>>
    <3>1. heap'[1] = heap[1] /\ Len(heap') >= 1
      BY <1>4, <1>7
    <3> QED
      BY <1>4, <1>7, <3>1
  <2>2. ASSUME NEW e \in Configs, NEW q \in Parts
        PROVE  /\ config'[e][q] = [arr |-> config'[e][q].arr, len |-> config'[e][q].len]
               /\ config'[e][q].arr \in 1..Len(heap')
               /\ config'[e][q].len \in 0..Len(heap'[config'[e][q].arr])
    <3>1. CASE e = d /\ q = "options"
      <4>1. config'[e][q] = osl
        BY <1>8, <3>1
      <4>2. n + 1 \in 1..Len(heap') /\ config[c].options.len \in 0..Len(heap'[n + 1])
        BY <1>4, <1>5, <1>7
      <4> QED
        BY <4>1, <4>2
    <3>2. CASE e = d /\ q = "extraArgs"
      <4>1. config'[e][q] = esl
        BY <1>8, <3>2
      <4>2. n + 2 \in 1..Len(heap') /\ config[c].extraArgs.len \in 0..Len(heap'[n + 2])
        BY <1>4, <1>5, <1>7
      <4> QED
        BY <4>1, <4>2
    <3>3. CASE e # d
      <4> DEFINE sl == config[e][q]
      <4>1. /\ config'[e][q] = sl /\ sl = [arr |-> sl.arr, len |-> sl.len]
            /\ sl.arr \in 1..n /\ heap'[sl.arr] = heap[sl.arr]
            /\ sl.len \in 0..Len(heap[sl.arr])
        BY <1>10, <3>3
      <4> HIDE DEF sl
      <4>2. sl.arr \in 1..Len(heap')
        BY <1>4, <1>7, <4>1
      <4> QED
        BY <4>1, <4>2
    <3> QED
      BY <3>1, <3>2, <3>3 DEF Parts
  <2> QED
    BY <1>7, <2>1, <2>2 DEF SlicesFit
<1>12. ArraysAreOwn(config')
  <2> SUFFICES ASSUME NEW e \in Configs, NEW f \in Configs, NEW q \in Parts, NEW r \in Parts,
                      config'[e][q].arr = config'[f][r].arr, ~ (e = f /\ q = r)
               PROVE  config'[e][q].arr = 1
    BY DEF ArraysAreOwn
  <2>1. \A g \in Configs, o \in Parts : g # d => config'[g][o].arr \in 1..n
    BY <1>10
  <2>2. config'[d]["options"].arr = n + 1 /\ config'[d]["extraArgs"].arr = n + 2
    BY <1>8
  <2>3. \A a \in 1..n : a # n + 1 /\ a # n + 2
    BY <1>4
  <2>4. n + 1 # n + 2
    BY <1>4
  <2>5. e # d /\ f # d
    BY <2>1, <2>2, <2>3, <2>4 DEF Parts
  <2>6. config'[e][q] = config[e][q] /\ config'[f][r] = config[f][r]
    BY <1>10, <2>5
  <2> QED
    BY <1>3, <2>6 DEF ArraysAreOwn
<1>13. ASSUME NEW e \in Configs, e # d PROVE Value(e)' = Value(e)
  <2>1. ASSUME NEW q \in Parts
        PROVE  Elements(heap', config'[e][q]) = Elements(heap, config[e][q])
    <3>1. /\ config'[e][q] = config[e][q]
          /\ heap'[config[e][q].arr] = heap[config[e][q].arr]
      BY <1>10, <1>13
    <3> QED
      BY <3>1 DEF Elements
  <2>2. config'[e].fields = config[e].fields
    BY <1>8, <1>13
  <2> QED
    BY <2>1, <2>2, ValueIs DEF Parts
<1> QED
  BY <1>2, <1>3, <1>9, <1>11, <1>12, <1>13 DEF ConfigInv

(***************************************************************************)
(* The configurations of an application                                    *)
(***************************************************************************)
(* An application starts with unset configurations and no array.           *)
LEMMA ConfigInvInit == ConfigInit => ConfigInv
<1> SUFFICES ASSUME ConfigInit PROVE ConfigInv
  OBVIOUS
<1>1. /\ made = {} /\ config = [c \in Configs |-> NewTraceConfig] /\ heap = << <<>> >>
  BY DEF ConfigInit
<1>2. \A c \in Configs, p \in Parts : config[c][p] = NilSlice
  BY <1>1 DEF Parts, NewTraceConfig
<1>3. Records(config)
  BY <1>1 DEF Records, NewTraceConfig
<1>4. /\ heap \in Seq(Seq(Token)) /\ Len(heap) = 1 /\ heap[1] = <<>> /\ heap # <<>>
  <2>1. <<>> \in Seq(Token)
    OBVIOUS
  <2> QED
    BY <1>1, <2>1
<1>5. SlicesFit(config, heap)
  BY <1>2, <1>4 DEF SlicesFit, NilSlice
<1>6. ArraysAreOwn(config)
  BY <1>2 DEF ArraysAreOwn, NilSlice
<1> QED
  BY <1>1, <1>3, <1>5, <1>6 DEF ConfigInv

(* A step of the application, or of the call, which leaves configurations. *)
LEMMA AttemptSteps ==
  ASSUME [AttemptNext]_attemptVars
  PROVE  \/ /\ UNCHANGED callVars /\ call.phase \in {"none", "begun"}
            /\ \/ \E c \in Configs : New(c)
               \/ \E c, d \in Configs : Clone(c, d)
               \/ \E c \in Configs : (call.phase = "begun" => c # call.cfg) /\ Configure(c)
         \/ UNCHANGED configVars /\ (Begin \/ Submit \/ Measure \/ Retry \/ UNCHANGED callVars)
<1>1. CASE Application
  BY <1>1 DEF Application
<1>2. CASE UNCHANGED attemptVars
  BY <1>2 DEF attemptVars
<1>3. CASE Begin \/ Submit \/ Measure \/ Retry
  BY <1>3 DEF Begin, BeginWith, Submit, Measure, Retry
<1> QED
  BY <1>1, <1>2, <1>3 DEF AttemptNext

(* New changes no value.                                                   *)
LEMMA NewLeaves ==
  ASSUME ConfigInv, NEW c \in Configs, New(c)
  PROVE  ConfigInv' /\ made' = made \cup {c} /\ \A d : Value(d)' = Value(d)
<1>1. made' = made \cup {c} /\ config' = config /\ heap' = heap
  BY DEF New
<1>2. ConfigInv'
  BY <1>1 DEF ConfigInv
<1> QED
  BY <1>1, <1>2 DEF Value, Read

(* So no step breaks the invariant.                                        *)
LEMMA ConfigInvStep == ConfigInv /\ [AttemptNext]_attemptVars => ConfigInv'
<1> SUFFICES ASSUME ConfigInv, [AttemptNext]_attemptVars PROVE ConfigInv'
  OBVIOUS
<1>1. CASE UNCHANGED configVars
  BY <1>1 DEF configVars, ConfigInv
<1>2. ASSUME NEW c \in Configs, New(c) PROVE ConfigInv'
  BY <1>2, NewLeaves
<1>3. ASSUME NEW c \in Configs, NEW d \in Configs, Clone(c, d) PROVE ConfigInv'
  BY <1>3, CloneLeaves
<1>4. ASSUME NEW c \in Configs, Configure(c) PROVE ConfigInv'
  BY <1>4, ConfigureTouches
<1> QED
  BY <1>1, <1>2, <1>3, <1>4, AttemptSteps

(***************************************************************************)
(* No two slices that append may write to share an array: the invariant    *)
(* that makes Clone deep.                                                  *)
(***************************************************************************)
THEOREM ArraysStayOwn == AttemptSpec => []ConfigInv
<1>1. AttemptInit => ConfigInv
  BY ConfigInvInit DEF AttemptInit
<1> QED
  BY <1>1, ConfigInvStep, PTL DEF AttemptSpec

(* What a step of the configurations changes.                              *)
ChangesOne ==
  /\ Cardinality({c \in made : Value(c)' # Value(c)}) <= 1
  /\ \A c \in made :
       /\ IsExtended(Value(c).options, Value(c)'.options)
       /\ IsExtended(Value(c).extraArgs, Value(c)'.extraArgs)

(* A value that stays is extended by nothing.                              *)
LEMMA Stays ==
  ASSUME ConfigInv, NEW c \in Configs, Value(c)' = Value(c)
  PROVE  /\ IsExtended(Value(c).options, Value(c)'.options)
         /\ IsExtended(Value(c).extraArgs, Value(c)'.extraArgs)
  BY ValueIs, ExtendsItself DEF Parts

(* It is one configuration at most, whose slices grow.                     *)
LEMMA OneChanges ==
  ASSUME ConfigInv, NEW x, \A c \in made : c # x => Value(c)' = Value(c),
         x \in made => /\ IsExtended(Value(x).options, Value(x)'.options)
                       /\ IsExtended(Value(x).extraArgs, Value(x)'.extraArgs)
  PROVE  ChangesOne
<1> DEFINE changed == {c \in made : Value(c)' # Value(c)}
<1>1. Cardinality(changed) <= 1
  <2>1. changed \subseteq {x}
    OBVIOUS
  <2>2. IsFiniteSet({x}) /\ Cardinality({x}) = 1
    BY FS_Singleton
  <2>3. IsFiniteSet(changed) /\ Cardinality(changed) <= Cardinality({x})
    BY <2>1, <2>2, FS_Subset
  <2> HIDE DEF changed
  <2> QED
    BY <2>2, <2>3
<1>2. ASSUME NEW c \in made
      PROVE  /\ IsExtended(Value(c).options, Value(c)'.options)
             /\ IsExtended(Value(c).extraArgs, Value(c)'.extraArgs)
  <2>1. c \in Configs
    BY DEF ConfigInv
  <2>2. CASE c = x
    BY <2>2
  <2>3. CASE c # x
    BY <2>1, <2>3, Stays
  <2> QED
    BY <2>2, <2>3
<1> QED
  BY <1>1, <1>2 DEF ChangesOne

(***************************************************************************)
(* Clones are independent: whatever an application does, and whenever, a   *)
(* step changes one configuration at most and only adds to its options and *)
(* extra arguments.                                                        *)
(***************************************************************************)
THEOREM CloneIndependence == AttemptSpec => ClonesAreIndependent
<1>1. ConfigInv /\ [AttemptNext]_attemptVars => [ChangesOne]_configVars
  <2> SUFFICES ASSUME ConfigInv, [AttemptNext]_attemptVars, ~ UNCHANGED configVars
               PROVE  ChangesOne
    OBVIOUS
  <2>1. ASSUME NEW c \in Configs, New(c) PROVE ChangesOne
    <3>1. \A d : Value(d)' = Value(d)
      BY <2>1, NewLeaves
    <3>2. c \notin made
      BY <2>1 DEF New
    <3> QED
      BY <3>1, <3>2, OneChanges
  <2>2. ASSUME NEW c \in Configs, NEW d \in Configs, Clone(c, d) PROVE ChangesOne
    <3>1. d \notin made /\ \A e \in made : e # d => Value(e)' = Value(e)
      BY <2>2, CloneLeaves DEF ConfigInv
    <3> QED
      BY <3>1, OneChanges
  <2>3. ASSUME NEW c \in Configs, Configure(c) PROVE ChangesOne
    <3>1. Touches(c) /\ made \subseteq Configs
      BY <2>3, ConfigureTouches DEF ConfigInv
    <3> QED
      BY <3>1, OneChanges DEF Touches
  <2> QED
    BY <2>1, <2>2, <2>3, AttemptSteps
<1> QED
  BY <1>1, ArraysStayOwn, PTL DEF AttemptSpec, ClonesAreIndependent, ChangesOne

(***************************************************************************)
(* The call                                                                *)
(***************************************************************************)
(* The configuration of a call exists and still has the value it had when  *)
(* the call began; that value passed if the call is a batch; and an        *)
(* attempt is refused only for a command line that is not allowed.         *)
CallInv ==
  /\ call = [phase |-> call.phase, cfg |-> call.cfg, batch |-> call.batch,
             asked |-> call.asked, target |-> call.target]
  /\ call.cfg \in made \cup {NoConfig}
  /\ call.phase # "none" => call.asked = ValueOf(call.cfg)
  /\ call.batch /\ call.phase \in {"begun", "sent", "answered", "invalid"} => Validate(call.asked)
  /\ call.phase = "invalid" => ~ ArgvAllowed(call.asked, call.target)

(* No configuration at all passes validation.                              *)
LEMMA NothingIsValid == Validate(ValueOf(NoConfig))
<1> DEFINE v == [fields |-> <<>>, options |-> <<>>, extraArgs |-> <<>>]
<1>1. /\ v.fields = <<>> /\ v.options = <<>> /\ v.extraArgs = <<>>
  OBVIOUS
<1>2. DOMAIN v.fields = {} /\ DOMAIN v.options = {} /\ DOMAIN v.extraArgs = {}
  BY <1>1
<1> HIDE DEF v
<1>3. Validate(v)
  BY <1>2 DEF Validate, Set2
<1> QED
  BY <1>3 DEF ValueOf, v

(* While nothing of the call's configuration changes, neither does what    *)
(* the call is measured by.                                                *)
LEMMA CallUntouched ==
  ASSUME CallInv, UNCHANGED callVars, made \subseteq made',
         call.phase # "none" => ValueOf(call.cfg)' = ValueOf(call.cfg)
  PROVE  CallInv'
<1>1. call' = call
  BY DEF callVars
<1>2. call'.phase # "none" => call'.asked = ValueOf(call.cfg)'
  BY <1>1 DEF CallInv
<1>3. /\ call' = [phase |-> call'.phase, cfg |-> call'.cfg, batch |-> call'.batch,
                  asked |-> call'.asked, target |-> call'.target]
      /\ call'.cfg \in made' \cup {NoConfig}
      /\ call'.phase = "invalid" => ~ ArgvAllowed(call'.asked, call'.target)
  BY <1>1 DEF CallInv
<1>4. call'.batch /\ call'.phase \in {"begun", "sent", "answered", "invalid"}
        => Validate(call'.asked)
  BY <1>1 DEF CallInv
<1> QED
  BY <1>2, <1>3, <1>4 DEF CallInv

(* The application leaves the configuration in use alone.                  *)
LEMMA ApplicationLeavesCall ==
  ASSUME ConfigInv, CallInv, [AttemptNext]_attemptVars, UNCHANGED callVars,
         ~ UNCHANGED configVars
  PROVE  CallInv'
<1>1. call.cfg \in made \cup {NoConfig} /\ made \subseteq Configs /\ NoConfig \notin Configs
  BY AttemptAssumption DEF CallInv, ConfigInv, AttemptAssumption
<1>2. call' = call
  BY DEF callVars
<1>3. ASSUME \A e \in Configs : e = call.cfg => Value(e)' = Value(e)
      PROVE  ValueOf(call.cfg)' = ValueOf(call.cfg)
  BY <1>1, <1>2, <1>3 DEF ValueOf, Value, Read
<1>4. ASSUME NEW c \in Configs, New(c) PROVE CallInv'
  <2>1. made \subseteq made' /\ \A d : Value(d)' = Value(d)
    BY <1>4, NewLeaves
  <2>2. ValueOf(call.cfg)' = ValueOf(call.cfg)
    BY <1>2, <2>1 DEF ValueOf
  <2> QED
    BY <2>1, <2>2, CallUntouched
<1>5. ASSUME NEW c \in Configs, NEW d \in Configs, Clone(c, d) PROVE CallInv'
  <2>1. /\ made \subseteq made' /\ d \notin made
        /\ \A e \in Configs : e # d => Value(e)' = Value(e)
    BY <1>5, CloneLeaves
  <2>2. ValueOf(call.cfg)' = ValueOf(call.cfg)
    BY <1>1, <1>3, <2>1
  <2> QED
    BY <2>1, <2>2, CallUntouched
<1>6. ASSUME call.phase \in {"none", "begun"}, NEW c \in Configs,
             call.phase = "begun" => c # call.cfg, Configure(c)
      PROVE  CallInv'
  <2>1. /\ made' = made
        /\ \A e \in Configs : e # c => Value(e)' = Value(e)
    BY <1>6, ConfigureTouches DEF Touches
  <2>2. call.phase # "none" => ValueOf(call.cfg)' = ValueOf(call.cfg)
    BY <1>1, <1>3, <1>6, <2>1
  <2> QED
    BY <2>1, <2>2, CallUntouched
<1> QED
  BY <1>4, <1>5, <1>6, AttemptSteps

(* A client that has not been called.                                      *)
LEMMA CallInvInit == AttemptInit => CallInv
<1> SUFFICES ASSUME AttemptInit PROVE CallInv
  OBVIOUS
<1> DEFINE nothing == ValueOf(NoConfig)
<1>1. call = [phase |-> "none", cfg |-> NoConfig, batch |-> FALSE, asked |-> nothing,
              target |-> ""]
  BY DEF AttemptInit
<1> HIDE DEF nothing
<1> QED
  BY <1>1 DEF CallInv

(* No step of the application or of the call breaks the invariant.         *)
LEMMA CallInvStep == ConfigInv /\ CallInv /\ [AttemptNext]_attemptVars => CallInv'
<1> SUFFICES ASSUME ConfigInv, CallInv, [AttemptNext]_attemptVars PROVE CallInv'
  OBVIOUS
<1>1. ASSUME UNCHANGED configVars
      PROVE  made' = made /\ \A c : ValueOf(c)' = ValueOf(c)
  BY <1>1 DEF configVars, ValueOf, Value, Read
<1>2. CASE UNCHANGED configVars /\ UNCHANGED callVars
  <2>1. made' = made /\ ValueOf(call.cfg)' = ValueOf(call.cfg)
    BY <1>1, <1>2 DEF callVars
  <2> QED
    BY <1>2, <2>1, CallUntouched
<1>3. CASE ~ UNCHANGED configVars
  BY <1>3, ApplicationLeavesCall, AttemptSteps
<1>4. CASE UNCHANGED configVars /\ Begin
  <2>1. PICK c \in made \cup {NoConfig}, batch \in BOOLEAN :
          call' = [call EXCEPT !.cfg = c, !.batch = batch, !.asked = ValueOf(c),
            !.phase = IF batch /\ c # NoConfig /\ ~Validate(Value(c)) THEN "refused" ELSE "begun"]
    BY <1>4 DEF Begin, BeginWith
  <2> DEFINE phase == IF batch /\ c # NoConfig /\ ~Validate(Value(c)) THEN "refused" ELSE "begun"
  <2>2. call' = [phase |-> phase, cfg |-> c, batch |-> batch, asked |-> ValueOf(c),
                 target |-> call.target]
    BY <2>1 DEF CallInv
  <2>3. phase \in {"refused", "begun"}
    OBVIOUS
  <2>4. batch /\ phase = "begun" => Validate(ValueOf(c))
    BY NothingIsValid DEF ValueOf
  <2> HIDE DEF phase
  <2>5. call'.cfg \in made' \cup {NoConfig} /\ call'.asked = ValueOf(call.cfg)'
    BY <1>1, <1>4, <2>2
  <2> QED
    BY <2>2, <2>3, <2>4, <2>5 DEF CallInv
<1>5. CASE UNCHANGED configVars /\ Submit
  <2> DEFINE v == ValueOf(call.cfg)
  <2>1. PICK target \in Targets :
          /\ call.phase = "begun"
          /\ call' = [call EXCEPT !.phase = IF ArgvAllowed(v, target) THEN "sent" ELSE "invalid",
                                  !.target = target]
    BY <1>5 DEF Submit
  <2> DEFINE phase == IF ArgvAllowed(v, target) THEN "sent" ELSE "invalid"
  <2>2. call' = [phase |-> phase, cfg |-> call.cfg, batch |-> call.batch, asked |-> call.asked,
                 target |-> target]
    BY <2>1 DEF CallInv
  <2>3. phase \in {"sent", "invalid"} /\ (phase = "invalid" => ~ ArgvAllowed(v, target))
    OBVIOUS
  <2>4. call.asked = v /\ call.cfg \in made \cup {NoConfig} /\ (call.batch => Validate(call.asked))
    BY <2>1 DEF CallInv
  <2>5. ValueOf(call.cfg)' = v /\ made' = made
    BY <1>1, <1>5, <2>2
  <2> HIDE DEF phase, v
  <2> QED
    BY <2>2, <2>3, <2>4, <2>5 DEF CallInv
<1>6. CASE UNCHANGED configVars /\ Measure
  <2>1. call.phase = "sent" /\ call' = [call EXCEPT !.phase = "answered"]
    BY <1>6 DEF Measure, Becomes
  <2>2. call' = [phase |-> "answered", cfg |-> call.cfg, batch |-> call.batch,
                 asked |-> call.asked, target |-> call.target]
    BY <2>1 DEF CallInv
  <2>3. /\ call.asked = ValueOf(call.cfg) /\ call.cfg \in made \cup {NoConfig}
        /\ (call.batch => Validate(call.asked))
    BY <2>1 DEF CallInv
  <2>4. ValueOf(call.cfg)' = ValueOf(call.cfg) /\ made' = made
    BY <1>1, <1>6, <2>2
  <2> QED
    BY <2>1, <2>2, <2>3, <2>4 DEF CallInv
<1>7. CASE UNCHANGED configVars /\ Retry
  <2>1. call.phase = "answered" /\ call' = [call EXCEPT !.phase = "begun"]
    BY <1>7 DEF Retry, Becomes
  <2>2. call' = [phase |-> "begun", cfg |-> call.cfg, batch |-> call.batch,
                 asked |-> call.asked, target |-> call.target]
    BY <2>1 DEF CallInv
  <2>3. /\ call.asked = ValueOf(call.cfg) /\ call.cfg \in made \cup {NoConfig}
        /\ (call.batch => Validate(call.asked))
    BY <2>1 DEF CallInv
  <2>4. ValueOf(call.cfg)' = ValueOf(call.cfg) /\ made' = made
    BY <1>1, <1>7, <2>2
  <2> QED
    BY <2>2, <2>3, <2>4 DEF CallInv
<1> QED
  BY <1>2, <1>3, <1>4, <1>5, <1>6, <1>7, AttemptSteps

(***************************************************************************)
(* Every attempt is made for what the configuration said when the call     *)
(* began, whatever the application did to its clones meanwhile; a batch    *)
(* goes on only with a configuration that passed.                          *)
(***************************************************************************)
THEOREM CallsKeepTheirConfig == AttemptSpec => []CallInv
  BY CallInvInit, CallInvStep, ArraysStayOwn, PTL DEF AttemptSpec

(***************************************************************************)
(* An attempt is refused for its target, or, of a single measurement, for  *)
(* its configuration: a batch that passed fails for no other reason.       *)
(***************************************************************************)
THEOREM RefusalHasCause == AttemptSpec => []RefusedForCause
<1>1. CallInv => RefusedForCause
  BY DEF CallInv, RefusedForCause, ArgvAllowed
<1> QED
  BY <1>1, CallsKeepTheirConfig, PTL

(***************************************************************************)
(* The result                                                              *)
(***************************************************************************)
(* What becomes of the record that decides.                                *)
Parsed(rec) == IF rec.type = "garbage" THEN ParseError ELSE convert(rec)

(* The records before the one that decides are passed over.                *)
LEMMA DecidedBy ==
  ASSUME NEW types, NEW recs, NEW n \in Nat, n \in DOMAIN recs, recs[n].type \in types,
         \A k \in DOMAIN recs : k # n => recs[k].type \notin types
  PROVE  FirstOf(types, recs) = Parsed(recs[n])
<1> DEFINE hits == {k \in DOMAIN recs : recs[k].type \in types}
           first == CHOOSE k \in hits : \A m \in hits : k <= m
<1>1. FirstOf(types, recs) = IF hits = {} \/ recs[first].type = "garbage" THEN ParseError
                             ELSE convert(recs[first])
  BY DEF FirstOf
<1>2. hits = {n}
  OBVIOUS
<1>3. ASSUME n <= n PROVE first = n
  <2> HIDE DEF hits
  <2> QED
    BY <1>2, <1>3
<1> QED
  BY <1>1, <1>2, <1>3 DEF Parsed

(* The shape of an output: records that do not decide, a snapshot among    *)
(* them only if it was asked for, and one that does.                       *)
LEMMA OutputShape ==
  ASSUME NEW set, NEW out \in Outputs(set)
  PROVE  \E n \in Nat \ {0} :
           /\ DOMAIN out = 1..n /\ out[n] \in Endings(set)
           /\ \A k \in 1..n : k # n =>
                \/ out[k].type = "other"
                \/ out[k].type = "trace" /\ out[k].reason = InProgress /\ Snapshots(set)
<1> DEFINE o == CycleStart
           p == Snapshot(set)
<1>1. PICK h \in Maybe(o), s \in IF Snapshots(set) THEN Maybe(p) ELSE {<<>>},
           f \in Endings(set) : out = Append(h \o s, f)
  BY DEF Outputs
<1>2. o.type = "other" /\ p.type = "trace" /\ p.reason = InProgress
  BY DEF Record, CycleStart, Snapshot
<1> HIDE DEF o, p
<1> DEFINE S == {o, p, f}
<1>3. /\ h \in Seq(S) /\ s \in Seq(S) /\ f \in S
      /\ \A k \in 1..Len(h) : h[k] = o
      /\ \A k \in 1..Len(s) : s[k] = p /\ Snapshots(set)
  <2>1. (h = <<>> \/ h = <<o>>) /\ (s = <<>> \/ (Snapshots(set) /\ s = <<p>>))
    BY DEF Maybe
  <2>2. o \in S /\ p \in S /\ f \in S
    OBVIOUS
  <2> HIDE DEF S
  <2>3. ASSUME NEW x \in S, NEW t, t = <<>> \/ t = <<x>>
        PROVE  t \in Seq(S) /\ \A k \in 1..Len(t) : t[k] = x
    <3>1. CASE t = <<>>
      BY <3>1
    <3>2. CASE t = <<x>>
      BY <3>2
    <3> QED
      BY <2>3, <3>1, <3>2
  <2>4. s # <<>> => Snapshots(set)
    BY <2>1
  <2>5. Len(<<>>) = 0 /\ \A k \in 1..Len(<<>>) : FALSE
    OBVIOUS
  <2>6. h \in Seq(S) /\ \A k \in 1..Len(h) : h[k] = o
    BY <2>1, <2>2, <2>3
  <2>7. s \in Seq(S) /\ \A k \in 1..Len(s) : s[k] = p
    BY <2>1, <2>2, <2>3
  <2> QED
    BY <2>2, <2>4, <2>5, <2>6, <2>7
<1> HIDE DEF S
<1> DEFINE n == Len(h) + Len(s) + 1
<1>4. /\ h \o s \in Seq(S) /\ Len(h \o s) = Len(h) + Len(s)
      /\ \A k \in 1..(Len(h) + Len(s)) : (h \o s)[k] \in {o, p} /\ ((h \o s)[k] = o \/ Snapshots(set))
  BY <1>3
<1>5. /\ out \in Seq(S) /\ Len(out) = n /\ n \in Nat \ {0} /\ out[n] = f
      /\ \A k \in 1..n : k # n => out[k] = (h \o s)[k] /\ k \in 1..(Len(h) + Len(s))
  <2> DEFINE r == h \o s
  <2>1. r \in Seq(S) /\ Len(r) = Len(h) + Len(s) /\ out = Append(r, f) /\ Len(r) \in Nat
    BY <1>1, <1>4
  <2>2. f \in S
    BY <1>3
  <2> HIDE DEF r
  <2>3. /\ out \in Seq(S) /\ Len(out) = Len(r) + 1 /\ out[Len(r) + 1] = f
        /\ \A k \in 1..(Len(r) + 1) : k # Len(r) + 1 => out[k] = r[k] /\ k \in 1..Len(r)
    BY <2>1, <2>2
  <2>4. n = Len(r) + 1
    BY <2>1
  <2> HIDE DEF n
  <2> QED
    BY <2>1, <2>3, <2>4 DEF r
<1> HIDE DEF n
<1>6. DOMAIN out = 1..n
  BY <1>5
<1>7. \A k \in 1..n : k # n => out[k] = o \/ (out[k] = p /\ Snapshots(set))
  BY <1>4, <1>5
<1> QED
  BY <1>2, <1>5, <1>6, <1>7

(* The record that ends a trace, as both clients parse it.                 *)
LEMMA EndingsParsed ==
  ASSUME NEW set, NEW rec \in Endings(set)
  PROVE  /\ rec.type \in {"trace", "garbage"}
         /\ Parsed(rec).reason # InProgress
         /\ Parsed(rec).err # "parse" =>
              "userid" \in DOMAIN Parsed(rec).metadata /\ Parsed(rec).metadata["userid"] = UserId(set)
<1> DEFINE data == Data(set)
           failed == [data EXCEPT !.errmsg = "bind"]
<1>1. /\ DOMAIN data = {"userid", "errmsg"} /\ DOMAIN failed = {"userid", "errmsg"}
      /\ data["userid"] = UserId(set) /\ failed["userid"] = UserId(set)
  BY DEF Data
<1>2. ASSUME NEW d, DOMAIN d = {"userid", "errmsg"}, d["userid"] = UserId(set), NEW reason,
             rec = Record("trace", reason, d), reason # InProgress
      PROVE  /\ rec.type = "trace" /\ Parsed(rec).reason # InProgress
             /\ "userid" \in DOMAIN Parsed(rec).metadata
             /\ Parsed(rec).metadata["userid"] = UserId(set)
  <2>1. rec.type = "trace" /\ rec.reason = reason /\ rec.data = d
    BY <1>2 DEF Record
  <2>2. "userid" \in {f \in DOMAIN rec.data : f \in TextKeys => rec.data[f] # ""}
    BY <1>2, <2>1 DEF TextKeys
  <2>3. /\ "userid" \in DOMAIN buildMetadata(rec)
        /\ buildMetadata(rec)["userid"] = UserId(set)
    BY <1>2, <2>1, <2>2 DEF buildMetadata
  <2>4. Parsed(rec) = convert(rec)
    BY <2>1 DEF Parsed
  <2>5. Parsed(rec).reason = reason /\ Parsed(rec).metadata = buildMetadata(rec)
    BY <2>1, <2>4 DEF convert
  <2> QED
    BY <1>2, <2>1, <2>3, <2>5
<1> HIDE DEF data, failed
<1>3. CASE rec = Record("garbage", "", <<>>)
  BY <1>3 DEF Record, Parsed, ParseError, InProgress
<1>4. CASE rec = Record("trace", "COMPLETED", data)
  <2>1. "COMPLETED" # InProgress
    BY DEF InProgress
  <2> QED
    BY <1>1, <1>2, <1>4, <2>1
<1>5. CASE rec = Record("trace", "ERROR", failed)
  <2>1. "ERROR" # InProgress
    BY DEF InProgress
  <2> QED
    BY <1>1, <1>2, <1>5, <2>1
<1> QED
  BY <1>3, <1>4, <1>5 DEF Endings, data, failed

(* The socket client takes the record that ends the trace, and so does the *)
(* legacy one when no snapshot comes before it.                            *)
LEMMA ResultOf ==
  ASSUME NEW set, NEW out \in Outputs(set)
  PROVE  \E rec \in Endings(set) :
           /\ SocketResult(out) = Parsed(rec)
           /\ ~ Snapshots(set) => LegacyResult(out) = Parsed(rec)
<1>1. PICK n \in Nat \ {0} :
        /\ DOMAIN out = 1..n /\ out[n] \in Endings(set)
        /\ \A k \in 1..n : k # n =>
             \/ out[k].type = "other"
             \/ out[k].type = "trace" /\ out[k].reason = InProgress /\ Snapshots(set)
  BY OutputShape
<1>2. /\ out[n].type \in {"trace", "garbage"} /\ Parsed(out[n]).reason # InProgress
      /\ n \in 1..n
  BY <1>1, EndingsParsed
<1>3. ASSUME NEW rec, rec.type \in {"trace", "garbage"}
      PROVE  ParseTrace(<<rec>>) = Parsed(rec)
  <2>1. DOMAIN <<rec>> = {1} /\ <<rec>>[1] = rec
    OBVIOUS
  <2> QED
    BY <1>3, <2>1, DecidedBy DEF ParseTrace
<1>4. SocketResult(out) = Parsed(out[n])
  <2> DEFINE Result(k) == ParseTrace(<<out[k]>>)
             hits == {k \in DOMAIN out : out[k].type # "other" /\ Result(k).reason # InProgress}
             first == CHOOSE k \in hits : \A m \in hits : k <= m
  <2>1. SocketResult(out) = Result(first)
    BY DEF SocketResult
  <2>2. Result(n) = Parsed(out[n]) /\ out[n].type # "other"
    BY <1>2, <1>3
  <2>3. ASSUME NEW k \in 1..n, k # n, out[k].type # "other" PROVE Result(k).reason = InProgress
    <3>1. out[k].type = "trace" /\ out[k].reason = InProgress
      BY <1>1, <2>3
    <3>2. Result(k) = Parsed(out[k])
      BY <1>3, <3>1
    <3> QED
      BY <3>1, <3>2 DEF Parsed, convert
  <2> HIDE DEF Result
  <2>4. hits = {n}
    BY <1>1, <1>2, <2>2, <2>3
  <2>5. first = n
    <3> HIDE DEF hits
    <3> QED
      BY <2>4
  <2> QED
    BY <2>1, <2>2, <2>5
<1>5. ASSUME ~ Snapshots(set) PROVE LegacyResult(out) = Parsed(out[n])
  <2>1. \A k \in DOMAIN out : k # n => out[k].type \notin {"trace", "garbage"}
    BY <1>1, <1>5
  <2>2. n \in Nat /\ n \in DOMAIN out
    BY <1>1, <1>2
  <2> QED
    BY <1>2, <2>1, <2>2, DecidedBy DEF LegacyResult, ParseTrace
<1> QED
  BY <1>1, <1>4, <1>5

(* The line of an attempt is the command line of the configuration as it   *)
(* was when the call began, for a target that passed; so are the words a   *)
(* result is made of.                                                      *)
LineOfAsked == call.phase \in {"sent", "answered"} =>
  /\ ArgvAllowed(call.asked, call.target)
  /\ words = Words(Argv(call.asked, call.target))

(* Only Submit makes a line, and it makes that one.                        *)
LEMMA LineStep ==
  CallInv /\ LineOfAsked /\ [AttemptNext]_attemptVars => LineOfAsked'
<1> SUFFICES ASSUME CallInv, LineOfAsked, [AttemptNext]_attemptVars PROVE LineOfAsked'
  OBVIOUS
<1>1. CASE UNCHANGED callVars
  BY <1>1 DEF callVars, LineOfAsked
<1>2. CASE Begin
  <2>1. call'.phase \in {"refused", "begun"}
    BY <1>2 DEF Begin, BeginWith, CallInv
  <2> QED
    BY <2>1 DEF LineOfAsked
<1>3. CASE Submit
  <2> DEFINE v == ValueOf(call.cfg)
  <2>1. PICK target \in Targets :
          /\ call.phase = "begun"
          /\ call' = [call EXCEPT !.phase = IF ArgvAllowed(v, target) THEN "sent" ELSE "invalid",
                                  !.target = target]
          /\ words' = IF ArgvAllowed(v, target) THEN Words(Argv(v, target)) ELSE words
    BY <1>3 DEF Submit
  <2>2. call.asked = v
    BY <2>1 DEF CallInv
  <2> HIDE DEF v
  <2>3. /\ call'.phase = IF ArgvAllowed(v, target) THEN "sent" ELSE "invalid"
        /\ call'.target = target /\ call'.asked = v
    BY <2>1, <2>2 DEF CallInv
  <2> QED
    BY <2>1, <2>3 DEF LineOfAsked
<1>4. CASE Measure
  <2>1. call.phase = "sent" /\ call' = [call EXCEPT !.phase = "answered"] /\ words' = words
    BY <1>4 DEF Measure, Becomes
  <2>2. call'.asked = call.asked /\ call'.target = call.target
    BY <2>1 DEF CallInv
  <2> QED
    BY <2>1, <2>2 DEF LineOfAsked
<1>5. CASE Retry
  <2>1. call'.phase = "begun"
    BY <1>5 DEF Retry, Becomes, CallInv
  <2> QED
    BY <2>1 DEF LineOfAsked
<1> QED
  BY <1>1, <1>2, <1>3, <1>4, <1>5, AttemptSteps

(***************************************************************************)
(* Whatever the application does to other configurations in the meantime,  *)
(* and however often an attempt is made again, the line an attempt sends   *)
(* is built of what the configuration said when the call began.            *)
(***************************************************************************)
THEOREM LinesSayWhatWasAsked == AttemptSpec => []LineOfAsked
<1>1. AttemptInit => LineOfAsked
  <2> SUFFICES ASSUME AttemptInit PROVE LineOfAsked
    OBVIOUS
  <2> DEFINE nothing == ValueOf(NoConfig)
  <2>1. call = [phase |-> "none", cfg |-> NoConfig, batch |-> FALSE, asked |-> nothing,
                target |-> ""]
    BY DEF AttemptInit
  <2> HIDE DEF nothing
  <2>2. call.phase = "none"
    BY <2>1
  <2> QED
    BY <2>2 DEF LineOfAsked
<1> QED
  BY <1>1, LineStep, CallsKeepTheirConfig, PTL DEF AttemptSpec

(* Scamper's output is one for what was asked.                             *)
AnswerInv == call.phase = "answered" => output \in Outputs(Requested(call.asked))

(* It is, when the line scamper read says what was asked.                  *)
LEMMA AnswerInvStep ==
  CallInv /\ AskedIsSent /\ AnswerInv /\ [AttemptNext]_attemptVars => AnswerInv'
<1> SUFFICES ASSUME CallInv, AskedIsSent, AnswerInv, [AttemptNext]_attemptVars PROVE AnswerInv'
  OBVIOUS
<1>1. CASE UNCHANGED callVars
  BY <1>1 DEF callVars, AnswerInv
<1>2. CASE Begin
  <2>1. call'.phase \in {"refused", "begun"}
    BY <1>2 DEF Begin, BeginWith, CallInv
  <2> QED
    BY <2>1 DEF AnswerInv
<1>3. CASE Submit
  <2>1. call'.phase \in {"sent", "invalid"}
    BY <1>3 DEF Submit, CallInv
  <2> QED
    BY <2>1 DEF AnswerInv
<1>4. CASE Measure
  <2>1. /\ call.phase = "sent" /\ output' \in Outputs(ScamperReads(words).set)
        /\ call' = [call EXCEPT !.phase = "answered"]
    BY <1>4 DEF Measure, Becomes
  <2>2. call'.asked = call.asked
    BY <2>1 DEF CallInv
  <2>3. ScamperReads(words).set = Requested(call.asked)
    <3>1. ASSUME NEW read, NEW asked, NEW rest,
                 read = [set |-> asked, rest |-> rest, flag |-> "", over |-> FALSE]
          PROVE  read.set = asked
      BY <3>1
    <3> DEFINE read == ScamperReads(words)
               asked == Requested(call.asked)
               rest == <<"trace", call.target>>
    <3>2. read = [set |-> asked, rest |-> rest, flag |-> "", over |-> FALSE]
      BY <2>1 DEF AskedIsSent
    <3> HIDE DEF read, asked, rest
    <3>3. read.set = asked
      BY <3>1, <3>2
    <3> QED
      BY <3>3 DEF read, asked
  <2> QED
    BY <2>1, <2>2, <2>3 DEF AnswerInv
<1>5. CASE Retry
  <2>1. call'.phase = "begun"
    BY <1>5 DEF Retry, Becomes, CallInv
  <2> QED
    BY <2>1 DEF AnswerInv
<1> QED
  BY <1>1, <1>2, <1>3, <1>4, <1>5, AttemptSteps

(* So it is always.                                                        *)
LEMMA AnswersAreAsked == AttemptSpec /\ []AskedIsSent => []AnswerInv
<1>1. AttemptInit => AnswerInv
  <2> SUFFICES ASSUME AttemptInit PROVE AnswerInv
    OBVIOUS
  <2> DEFINE nothing == ValueOf(NoConfig)
  <2>1. call = [phase |-> "none", cfg |-> NoConfig, batch |-> FALSE, asked |-> nothing,
                target |-> ""]
    BY DEF AttemptInit
  <2> HIDE DEF nothing
  <2>2. call.phase = "none"
    BY <2>1
  <2> QED
    BY <2>2 DEF AnswerInv
<1> QED
  BY <1>1, AnswerInvStep, CallsKeepTheirConfig, PTL DEF AttemptSpec

(***************************************************************************)
(* As long as every command line says what the configuration asked for     *)
(* (AskedIsSent), both clients make the same result of the same output,    *)
(* and the socket client takes no snapshot for it.                         *)
(***************************************************************************)
THEOREM ClientsAgree == AttemptSpec /\ []AskedIsSent => []ModesAgree
<1>1. AnswerInv => ModesAgree
  <2> SUFFICES ASSUME AnswerInv, call.phase = "answered"
               PROVE  /\ SocketResult(output).reason # InProgress
                      /\ ~ Snapshots(Requested(call.asked)) =>
                           LegacyResult(output) = SocketResult(output)
    BY DEF ModesAgree
  <2>1. PICK rec \in Endings(Requested(call.asked)) :
          /\ SocketResult(output) = Parsed(rec)
          /\ ~ Snapshots(Requested(call.asked)) => LegacyResult(output) = Parsed(rec)
    BY ResultOf DEF AnswerInv
  <2> QED
    BY <2>1, EndingsParsed
<1> QED
  BY <1>1, AnswersAreAsked, PTL

(***************************************************************************)
(* Under the same condition the user id of the configuration comes back    *)
(* with every result that parses, and the caller's own metadata wins.      *)
(***************************************************************************)
THEOREM UserIdReturns == AttemptSpec /\ []AskedIsSent => []UserIdComesBack
<1>1. AnswerInv => UserIdComesBack
  <2> DEFINE res == SocketResult(output)
             id == UserId(Requested(call.asked))
  <2> SUFFICES ASSUME AnswerInv, call.phase = "answered", res.err # "parse",
                      NEW user \in {<<>>, [userid |-> "mine"]}
               PROVE  MergeMetadata(res.metadata, user)["userid"] =
                        IF user = <<>> THEN id ELSE "mine"
    BY DEF UserIdComesBack
  <2>1. "userid" \in DOMAIN res.metadata /\ res.metadata["userid"] = id
    <3>1. PICK rec \in Endings(Requested(call.asked)) : res = Parsed(rec)
      BY ResultOf DEF AnswerInv
    <3> QED
      BY <3>1, EndingsParsed
  <2> HIDE DEF res, id
  <2>2. CASE user = <<>>
    <3>1. DOMAIN user = {}
      BY <2>2
    <3> QED
      BY <2>1, <2>2, <3>1 DEF MergeMetadata
  <2>3. CASE user = [userid |-> "mine"]
    <3>1. DOMAIN user = {"userid"} /\ user["userid"] = "mine"
      BY <2>3
    <3>2. user # <<>>
      <4>1. DOMAIN <<>> = {}
        OBVIOUS
      <4> QED
        BY <3>1, <4>1
    <3> QED
      BY <3>1, <3>2 DEF MergeMetadata
  <2> QED
    BY <2>2, <2>3
<1> QED
  BY <1>1, AnswersAreAsked, PTL
=============================================================================
