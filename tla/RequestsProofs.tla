-------------------------- MODULE RequestsProofs --------------------------
(***************************************************************************)
(* What the requests of the pages change, what their listings show, and    *)
(* who may change accounts: what stands in an escaped request comes back   *)
(* as it was, so the handler that the router finds for it reads what the   *)
(* page put in.                                                            *)
(***************************************************************************)
EXTENDS RouterProofs

-----------------------------------------------------------------------------
(* Escapes. *)

\* The characters that are escaped, each in its own way.
LEMMA EscapeProps ==
  /\ DOMAIN Escape = {Space, Quote, "#", "%", "&", "+", "<", "="}
  /\ \A c \in DOMAIN Escape : \E high, low \in HexDigit : Escape[c] = <<high, low>>
  /\ \A c, d \in DOMAIN Escape : Escape[c] = Escape[d] => c = d
<1>0. Space \notin {Quote, "#", "%", "&", "+", "<", "="} /\ Quote \notin {"#", "%", "&", "+", "<", "="}
  <2>1. Space # Quote /\ Space # "#" /\ Space # "%" /\ Space # "&" /\ Space # "+" /\ Space # "<" /\ Space # "="
    BY Zenon DEF Space, Quote
  <2>2. Quote # "#" /\ Quote # "%" /\ Quote # "&" /\ Quote # "+" /\ Quote # "<" /\ Quote # "="
    BY Zenon DEF Quote
  <2> QED BY <2>1, <2>2
<1>1. DOMAIN Escape = {Space, Quote, "#", "%", "&", "+", "<", "="}
  BY DEF Escape
<1>2. /\ Escape[Space] = <<"2", "0">> /\ Escape[Quote] = <<"2", "2">> /\ Escape["#"] = <<"2", "3">>
      /\ Escape["%"] = <<"2", "5">> /\ Escape["&"] = <<"2", "6">> /\ Escape["+"] = <<"2", "B">>
      /\ Escape["<"] = <<"3", "C">> /\ Escape["="] = <<"3", "D">>
  BY <1>0 DEF Escape
<1> DEFINE Low(c) == Escape[c][2]
           High(c) == Escape[c][1]
<1>3. \A c \in DOMAIN Escape : Escape[c] = <<High(c), Low(c)>> /\ High(c) \in HexDigit /\ Low(c) \in HexDigit
  BY <1>1, <1>2 DEF HexDigit
<1>4. ASSUME NEW c \in DOMAIN Escape, NEW d \in DOMAIN Escape, Escape[c] = Escape[d] PROVE c = d
  <2>1. Low(c) = Low(d)
    BY <1>4
  <2>2. /\ Low(Space) = "0" /\ Low(Quote) = "2" /\ Low("#") = "3" /\ Low("%") = "5"
        /\ Low("&") = "6" /\ Low("+") = "B" /\ Low("<") = "C" /\ Low("=") = "D"
    BY <1>2
  <2> HIDE DEF Low
  <2> QED BY <1>1, <2>1, <2>2
<1> QED BY <1>1, <1>3, <1>4

\* What stands for an escape is the character that is escaped that way.
LEMMA ByteProps ==
  /\ \A c \in DOMAIN Escape : Byte(Escape[c][1], Escape[c][2]) = c
  /\ \A high, low : Byte(high, low) \in DOMAIN Escape \cup {"other"}
<1>1. ASSUME NEW high, NEW low, NEW c \in DOMAIN Escape, Escape[c] = <<high, low>> PROVE Byte(high, low) = c
  <2>1. Byte(high, low) = CHOOSE d \in DOMAIN Escape : Escape[d] = <<high, low>>
    BY <1>1, Zenon DEF Byte
  <2>2. Byte(high, low) \in DOMAIN Escape /\ Escape[Byte(high, low)] = <<high, low>>
    BY <1>1, <2>1, Zenon
  <2> QED BY <1>1, <2>2, EscapeProps
<1>2. \A c \in DOMAIN Escape : Escape[c] = <<Escape[c][1], Escape[c][2]>>
  BY EscapeProps
<1>3. \A c \in DOMAIN Escape : Byte(Escape[c][1], Escape[c][2]) = c
  BY <1>1, <1>2
<1>4. ASSUME NEW high, NEW low PROVE Byte(high, low) \in DOMAIN Escape \cup {"other"}
  <2>1. CASE \E c \in DOMAIN Escape : Escape[c] = <<high, low>>
    BY <1>1, <2>1
  <2>2. CASE ~\E c \in DOMAIN Escape : Escape[c] = <<high, low>>
    <3>1. Byte(high, low) = "other"
      BY <2>2, Zenon DEF Byte
    <3> QED BY <3>1
  <2> QED BY <2>1, <2>2
<1> QED BY <1>3, <1>4

\* An escape that url_decode takes for one.
DecodesAt(text, i) ==
  /\ text[i] = "%" /\ i + 2 <= Len(text)
  /\ \/ text[i + 1] \in HexDigit /\ SubSeq(text, i + 1, i + 2) # <<"0", "x">>
     \/ text[i + 1] \in Sign \cup {Space} /\ text[i + 2] \in HexDigit

\* One step through a text; next: what the rest is decoded to.
DecodeStep(text, next, i) ==
  IF i > Len(text) THEN <<>>
  ELSE IF DecodesAt(text, i) THEN <<Byte(text[i + 1], text[i + 2])>> \o next[i + 3]
  ELSE <<IF text[i] = "+" THEN Space ELSE text[i]>> \o next[i + 1]

IsDecoding(text, f) == f = [i \in 1..(Len(text) + 1) |-> DecodeStep(text, f, i)]

DecodeSteps(text, f) == \A i \in 1..Len(text) + 1 : f[i] = DecodeStep(text, f, i)

\* What a text may be decoded to.
Bytes(U) == U \cup DOMAIN Escape \cup {"other"}

\* url_decode goes by these steps, and leaves a text.
LEMMA UrlDecodeDef ==
  ASSUME NEW U, NEW text \in Seq(U)
  PROVE  \E f : /\ DecodeSteps(text, f) /\ url_decode(text) = f[1]
                /\ \A i \in 1..Len(text) + 1 : f[i] \in Seq(Bytes(U))
<1> DEFINE D == 1..(Len(text) + 1)
           W == Bytes(U)
           V == Seq(W)
           rank == [i \in D |-> Len(text) + 1 - i]
           F == [f \in [D -> V] |-> [i \in D |-> DecodeStep(text, f, i)]]
           made == CHOOSE f : IsDecoding(text, f)
<1>0. Len(text) \in Nat /\ \A i \in 1..Len(text) : text[i] \in W
  BY LenProperties, ElementOfSeq DEF Bytes
<1>1. rank \in [D -> Nat] /\ V # {}
  <2>1. rank \in [D -> Nat]
    BY <1>0
  <2>2. <<>> \in V
    OBVIOUS
  <2> QED BY <2>1, <2>2
<1>2. \A c \in W, s \in Seq(W) : <<c>> \o s \in Seq(W)
  <2> HIDE DEF W
  <2> TAKE c \in W, s \in Seq(W)
  <2>1. <<c>> \in Seq(W)
    OBVIOUS
  <2> QED BY <2>1, ConcatProperties
<1>3. Space \in W /\ \A high, low : Byte(high, low) \in W
  BY ByteProps, EscapeProps DEF Bytes
<1>4. \A i \in D : /\ i <= Len(text) => i + 1 \in D /\ rank[i + 1] < rank[i]
                   /\ DecodesAt(text, i) => i + 3 \in D /\ rank[i + 3] < rank[i]
  BY <1>0 DEF DecodesAt
<1>5. ASSUME NEW f \in [D -> V], NEW i \in D PROVE DecodeStep(text, f, i) \in V
  <2>1. CASE i > Len(text)
    BY <2>1 DEF DecodeStep
  <2>2. CASE i <= Len(text)
    <3>0. i + 1 \in D
      BY <1>4, <2>2
    <3>1. i \in 1..Len(text) /\ ~(i > Len(text)) /\ f[i + 1] \in Seq(W) /\ text[i] \in W
      <4> HIDE DEF W
      <4>1. f[i + 1] \in V
        BY <3>0
      <4>2. i \in 1..Len(text) /\ ~(i > Len(text))
        BY <1>0, <2>2
      <4> QED BY <1>0, <4>1, <4>2
    <3>2. DecodesAt(text, i) => f[i + 3] \in Seq(W)
      BY <1>4
    <3> HIDE DEF W
    <3>3. CASE DecodesAt(text, i)
      BY <1>2, <1>3, <3>1, <3>2, <3>3 DEF DecodeStep
    <3>4. CASE ~DecodesAt(text, i)
      BY <1>2, <1>3, <3>1, <3>4 DEF DecodeStep
    <3> QED BY <3>3, <3>4
  <2> QED BY <1>0, <2>1, <2>2
<1>6. F \in [[D -> V] -> [D -> V]]
  <2> HIDE DEF D, V
  <2> QED BY <1>5
<1>7. ASSUME NEW f \in [D -> V], NEW g \in [D -> V], NEW i \in D,
             \A j \in D : rank[j] < rank[i] => f[j] = g[j]
      PROVE  F[f][i] = F[g][i]
  <2>1. i <= Len(text) => f[i + 1] = g[i + 1]
    BY <1>4, <1>7
  <2>2. DecodesAt(text, i) => f[i + 3] = g[i + 3]
    BY <1>4, <1>7
  <2>3. DecodeStep(text, f, i) = DecodeStep(text, g, i)
    BY <1>0, <2>1, <2>2 DEF DecodeStep
  <2> QED BY <2>3
<1>8. Recurses(D, V, rank, F)
  <2> HIDE DEF D, V, rank, F
  <2> QED BY <1>1, <1>6, <1>7 DEF Recurses
<1>9. PICK f \in [D -> V] : f = F[f]
  <2> HIDE DEF D, V, rank, F
  <2> QED BY <1>8, Recursion
<1>10. \E h : IsDecoding(text, h)
  <2>1. f = [i \in D |-> DecodeStep(text, f, i)]
    BY <1>9
  <2> QED BY <2>1 DEF IsDecoding
<1>11. IsDecoding(text, made)
  BY <1>10, Zenon
<1>12. url_decode(text) = made[1]
  BY DEF url_decode, IsDecoding, DecodeStep, DecodesAt
<1> HIDE DEF made
<1>13. DecodeSteps(text, made)
  BY <1>11 DEF IsDecoding, DecodeSteps
<1> DEFINE Good == {i \in D : made[i] \in Seq(W)}
<1>14. Inherited(D, Good, rank)
  <2>1. ASSUME NEW i \in D, \A j \in D : rank[j] < rank[i] => j \in Good PROVE i \in Good
    <3>1. made[i] = DecodeStep(text, made, i)
      BY <1>13 DEF DecodeSteps
    <3>2. i <= Len(text) => made[i + 1] \in Seq(W) /\ text[i] \in W
      BY <1>0, <1>4, <2>1
    <3>3. DecodesAt(text, i) => made[i + 3] \in Seq(W)
      BY <1>4, <2>1
    <3> HIDE DEF W
    <3>0. i <= Len(text) => ~(i > Len(text))
      BY <1>0
    <3>4. CASE i > Len(text)
      <4>1. made[i] = <<>>
        BY <3>1, <3>4, Zenon DEF DecodeStep
      <4>2. <<>> \in Seq(W)
        OBVIOUS
      <4> QED BY <4>1, <4>2
    <3>5. CASE i <= Len(text) /\ DecodesAt(text, i)
      <4>1. made[i] = <<Byte(text[i + 1], text[i + 2])>> \o made[i + 3]
        BY <3>0, <3>1, <3>5, Zenon DEF DecodeStep
      <4> QED BY <1>2, <1>3, <3>3, <3>5, <4>1
    <3>6. CASE i <= Len(text) /\ ~DecodesAt(text, i)
      <4>1. made[i] = <<IF text[i] = "+" THEN Space ELSE text[i]>> \o made[i + 1]
        BY <3>0, <3>1, <3>6, Zenon DEF DecodeStep
      <4> QED BY <1>2, <1>3, <3>2, <3>6, <4>1
    <3> QED BY <1>0, <3>4, <3>5, <3>6
  <2> QED BY <1>1, <2>1 DEF Inherited
<1>15. D \subseteq Good
  <2> HIDE DEF D, Good, rank
  <2> QED BY <1>14, RankInd
<1> QED BY <1>12, <1>13, <1>15

\* A part of a text has its place: up to e[k].
PartAt(s, flat, e, k) ==
  /\ e[k] = e[k - 1] + Len(s[k]) /\ e[k] <= Len(flat)
  /\ \A j \in 1..Len(s[k]) : flat[e[k - 1] + j] = s[k][j]

\* Where the parts of a text end that is put together of them.
LaidOut(s, flat, e) ==
  /\ e \in [0..Len(s) -> Nat] /\ e[0] = 0 /\ e[Len(s)] = Len(flat)
  /\ \A k \in 1..Len(s) : PartAt(s, flat, e, k)

\* What stands where in two texts put together.
LEMMA ConcatAt ==
  ASSUME NEW A, NEW a \in Seq(A), NEW b \in Seq(A), NEW c, c = a \o b
  PROVE  /\ c \in Seq(A) /\ Len(c) = Len(a) + Len(b) /\ Len(a) \in Nat /\ Len(b) \in Nat
         /\ \A j \in 1..Len(a) : c[j] = a[j]
         /\ \A j \in 1..Len(b) : c[Len(a) + j] = b[j]
<1>1. Len(a) \in Nat /\ Len(b) \in Nat
  BY LenProperties
<1>2. /\ c \in Seq(A) /\ Len(c) = Len(a) + Len(b)
      /\ \A j \in 1..(Len(a) + Len(b)) : c[j] = IF j <= Len(a) THEN a[j] ELSE b[j - Len(a)]
  BY ConcatProperties
<1>3. \A j \in 1..Len(a) : j \in 1..(Len(a) + Len(b)) /\ j <= Len(a)
  BY <1>1
<1>4. ASSUME NEW j \in 1..Len(b) PROVE c[Len(a) + j] = b[j]
  <2>1. Len(a) + j \in 1..(Len(a) + Len(b)) /\ ~(Len(a) + j <= Len(a)) /\ Len(a) + j - Len(a) = j
    BY <1>1
  <2> QED BY <1>2, <2>1
<1> QED BY <1>1, <1>2, <1>3, <1>4

\* One text behind another, by what stands where.
IsConcat(A, c, a, b) ==
  /\ c \in Seq(A) /\ Len(c) = Len(a) + Len(b) /\ Len(a) \in Nat /\ Len(b) \in Nat
  /\ \A j \in 1..Len(a) : c[j] = a[j]
  /\ \A j \in 1..Len(b) : c[Len(a) + j] = b[j]

LEMMA ConcatIs == ASSUME NEW A, NEW a \in Seq(A), NEW b \in Seq(A) PROVE IsConcat(A, a \o b, a, b)
<1>1. ASSUME NEW c, c = a \o b PROVE IsConcat(A, c, a, b)
  BY <1>1, ConcatAt DEF IsConcat
<1> QED BY <1>1

\* What is added behind a text leaves its parts in their places.
LEMMA PartStays ==
  ASSUME NEW A, NEW a \in Seq(A), NEW b \in Seq(A), NEW c, c = a \o b,
         NEW s, NEW e, NEW k \in Nat, k >= 1, e[k] \in Nat, e[k - 1] \in Nat, Len(s[k]) \in Nat,
         PartAt(s, a, e, k)
  PROVE  PartAt(s, c, e, k)
<1>1. /\ Len(c) = Len(a) + Len(b) /\ Len(a) \in Nat /\ Len(b) \in Nat
      /\ \A j \in 1..Len(a) : c[j] = a[j]
  BY ConcatAt
<1>2. /\ e[k] = e[k - 1] + Len(s[k]) /\ e[k] <= Len(a)
      /\ \A j \in 1..Len(s[k]) : a[e[k - 1] + j] = s[k][j]
  BY DEF PartAt
<1>3. e[k] <= Len(c)
  BY <1>1, <1>2
<1>4. ASSUME NEW j \in 1..Len(s[k]) PROVE c[e[k - 1] + j] = s[k][j]
  <2>1. \A x, y, l, n \in Nat : x = y + l /\ x <= n => (\A z \in 1..l : y + z \in 1..n)
    OBVIOUS
  <2>2. e[k - 1] + j \in 1..Len(a)
    BY <1>1, <1>2, <2>1
  <2> QED BY <1>1, <1>2, <2>2
<1> QED BY <1>2, <1>3, <1>4 DEF PartAt

\* What is added behind a text is a part in its place.
LEMMA PartAdded ==
  ASSUME NEW A, NEW a \in Seq(A), NEW b \in Seq(A), NEW c, c = a \o b,
         NEW s, NEW e, NEW k \in Nat, b = s[k], e[k - 1] = Len(a), e[k] = Len(c)
  PROVE  PartAt(s, c, e, k)
<1>1. /\ Len(c) = Len(a) + Len(b) /\ Len(a) \in Nat /\ Len(b) \in Nat
      /\ \A j \in 1..Len(b) : c[Len(a) + j] = b[j]
  BY ConcatAt
<1>2. e[k] = e[k - 1] + Len(s[k]) /\ e[k] <= Len(c)
  BY <1>1
<1>3. \A j \in 1..Len(s[k]) : c[e[k - 1] + j] = s[k][j]
  BY <1>1
<1> QED BY <1>2, <1>3 DEF PartAt

\* Each part of what FlattenSeq puts together is at its place.
LEMMA FlattenParts ==
  ASSUME NEW A, NEW s \in Seq(Seq(A))
  PROVE  \E e : LaidOut(s, FlattenSeq(s), e)
<1>0. Len(s) \in Nat /\ \A i \in 1..Len(s) : s[i] \in Seq(A) /\ Len(s[i]) \in Nat
  BY LenProperties, ElementOfSeq
<1>1. CASE Len(s) = 0
  <2>1. s = <<>>
    BY <1>1, EmptySeq
  <2>2. FlattenSeq(s) = <<>>
    BY <1>1, <2>1 DEF FlattenSeq
  <2>3. LaidOut(s, <<>>, [k \in 0..Len(s) |-> 0])
    BY <1>1 DEF LaidOut
  <2> QED BY <2>2, <2>3
<1>2. CASE Len(s) # 0
  <2>1. PICK f : /\ FlattenSteps(s, f) /\ FlattenSeq(s) = f[Len(s)]
                 /\ \A i \in 1..Len(s) : f[i] \in Seq(A)
    BY <1>2, FlattenDef
  <2> DEFINE D == 1..Len(s)
             rank == [i \in D |-> i]
             e == [k \in 0..Len(s) |-> IF k = 0 THEN 0 ELSE Len(f[k])]
             Laid(m) == \A k \in 1..m : PartAt(s, f[m], e, k)
             Good == {m \in D : Laid(m)}
  <2>2. e \in [0..Len(s) -> Nat] /\ e[0] = 0 /\ \A k \in D : e[k] = Len(f[k]) /\ Len(f[k]) \in Nat /\ e[k - 1] \in Nat
    <3>1. \A k \in D : Len(f[k]) \in Nat
      BY <2>1, LenProperties
    <3>2. \A k \in 0..Len(s) : k # 0 => k \in D
      BY <1>0
    <3> QED BY <1>0, <3>1, <3>2
  <2> HIDE DEF e
  <2>3. ASSUME NEW m \in D, \A j \in D : rank[j] < rank[m] => j \in Good PROVE m \in Good
    <3>1. f[m] = FlattenStep(s, f, m) /\ s[m] \in Seq(A) /\ Len(s[m]) \in Nat
      BY <1>0, <2>1 DEF FlattenSteps
    <3>2. CASE m = 1
      <4>1. f[1] = s[1]
        BY <3>1, <3>2 DEF FlattenStep
      <4>2. \A j \in 1..Len(s[1]) : 0 + j = j
        BY <3>1, <3>2
      <4>3. Laid(1)
        <5>1. \A k \in 1..1 : k = 1
          OBVIOUS
        <5>2. e[1] = e[1 - 1] + Len(s[1]) /\ e[1] <= Len(f[1])
          BY <2>2, <3>1, <3>2, <4>1
        <5>3. \A j \in 1..Len(s[1]) : f[1][e[1 - 1] + j] = s[1][j]
          BY <2>2, <4>1, <4>2
        <5> QED BY <5>1, <5>2, <5>3 DEF PartAt
      <4> QED BY <3>2, <4>3
    <3>3. CASE m # 1
      <4>1. m - 1 \in D /\ rank[m - 1] < rank[m]
        BY <1>0, <3>3
      <4>2. Laid(m - 1)
        BY <2>3, <4>1
      <4>3. f[m - 1] \in Seq(A) /\ e[m - 1] = Len(f[m - 1]) /\ e[m] = Len(f[m])
        BY <2>1, <2>2, <4>1
      <4>4. f[m] = f[m - 1] \o s[m]
        BY <3>1, <3>3 DEF FlattenStep
      <4>5. PartAt(s, f[m], e, m)
        <5>1. m \in Nat /\ f[m - 1] \in Seq(A) /\ s[m] \in Seq(A) /\ f[m] = f[m - 1] \o s[m]
          BY <1>0, <3>1, <4>3, <4>4
        <5>2. s[m] = s[m] /\ e[m - 1] = Len(f[m - 1]) /\ e[m] = Len(f[m])
          BY <4>3
        <5> HIDE DEF D, rank, Good, Laid
        <5>3. ASSUME NEW a, NEW b, NEW c, a = f[m - 1], b = s[m], c = f[m] PROVE PartAt(s, c, e, m)
          <6>1. a \in Seq(A) /\ b \in Seq(A) /\ c = a \o b /\ e[m - 1] = Len(a) /\ e[m] = Len(c) /\ m \in Nat
            BY <5>1, <5>2, <5>3
          <6> QED BY <5>3, <6>1, PartAdded
        <5> QED BY <5>3
      <4>6. ASSUME NEW k \in 1..m, k # m PROVE PartAt(s, f[m], e, k)
        <5>1. k \in 1..m - 1 /\ k \in D /\ k \in Nat /\ k >= 1
          BY <1>0, <4>6
        <5>2. e[k] \in Nat /\ e[k - 1] \in Nat /\ Len(s[k]) \in Nat
          BY <1>0, <2>2, <5>1
        <5>3. PartAt(s, f[m - 1], e, k)
          BY <4>2, <5>1
        <5> HIDE DEF D, rank, Good, Laid
        <5>4. ASSUME NEW a, NEW b, NEW c, a = f[m - 1], b = s[m], c = f[m] PROVE PartAt(s, c, e, k)
          <6>1. a \in Seq(A) /\ b \in Seq(A) /\ c = a \o b /\ PartAt(s, a, e, k)
            BY <3>1, <4>3, <4>4, <5>3, <5>4
          <6> QED BY <5>1, <5>2, <6>1, PartStays
        <5> QED BY <5>4
      <4>7. Laid(m)
        BY <4>5, <4>6
      <4> QED BY <4>7
    <3> QED BY <3>2, <3>3
  <2>4. D \subseteq Good
    <3>1. rank \in [D -> Nat]
      BY <1>0
    <3> HIDE DEF D, Good, rank
    <3> QED BY <2>3, <3>1, RankInd DEF Inherited
  <2>5. Laid(Len(s)) /\ e[Len(s)] = Len(f[Len(s)])
    <3>1. Len(s) \in D
      BY <1>0, <1>2
    <3> QED BY <2>2, <2>4, <3>1
  <2>6. LaidOut(s, f[Len(s)], e)
    BY <2>2, <2>5 DEF LaidOut
  <2> QED BY <2>1, <2>6
<1> QED BY <1>1, <1>2


\* The encoding of one character.
CharEncoded(c) == IF c \in DOMAIN Escape THEN <<"%">> \o Escape[c] ELSE <<c>>

EncodedParts(text) == [i \in DOMAIN text |-> CharEncoded(text[i])]

\* What encoded texts are made of.
EncodedChars(U) == (U \ DOMAIN Escape) \cup {"%"} \cup HexDigit

\* An escape is three characters, any other character stands for itself.
LEMMA CharProps ==
  ASSUME NEW U, NEW c \in U
  PROVE  /\ CharEncoded(c) \in Seq(EncodedChars(U))
         /\ c \notin DOMAIN Escape => CharEncoded(c) = <<c>>
         /\ c \in DOMAIN Escape => \E high, low \in HexDigit : /\ CharEncoded(c) = <<"%", high, low>>
                                                              /\ Byte(high, low) = c
<1>1. CASE c \notin DOMAIN Escape
  <2>1. CharEncoded(c) = <<c>> /\ c \in EncodedChars(U)
    BY <1>1 DEF CharEncoded, EncodedChars
  <2> QED BY <1>1, <2>1
<1>2. CASE c \in DOMAIN Escape
  <2>1. PICK high \in HexDigit, low \in HexDigit : Escape[c] = <<high, low>>
    BY <1>2, EscapeProps
  <2>2. Byte(high, low) = c
    <3>1. Escape[c][1] = high /\ Escape[c][2] = low
      BY <2>1
    <3> QED BY <1>2, <3>1, ByteProps
  <2>3. CharEncoded(c) = <<"%">> \o <<high, low>>
    BY <1>2, <2>1 DEF CharEncoded
  <2>4. CharEncoded(c) = <<"%", high, low>>
    <3> DEFINE A == {"%", high, low}
               a == <<"%">>
               b == <<high, low>>
               d == <<"%", high, low>>
    <3>1. /\ a \in Seq(A) /\ Len(a) = 1 /\ a[1] = "%" /\ b \in Seq(A) /\ Len(b) = 2 /\ b[1] = high /\ b[2] = low
          /\ d \in Seq(A) /\ Len(d) = 3 /\ d[1] = "%" /\ d[2] = high /\ d[3] = low
      OBVIOUS
    <3>2. CharEncoded(c) = a \o b
      BY <2>3
    <3> HIDE DEF A, a, b, d
    <3>3. /\ CharEncoded(c) \in Seq(A) /\ Len(CharEncoded(c)) = 3
          /\ CharEncoded(c)[1] = "%" /\ CharEncoded(c)[1 + 1] = high /\ CharEncoded(c)[1 + 2] = low
      <4>1. IsConcat(A, a \o b, a, b)
        BY <3>1, ConcatIs
      <4>2. IsConcat(A, CharEncoded(c), a, b)
        BY <3>2, <4>1, Zenon
      <4>3. 1 \in 1..1 /\ 1 \in 1..2 /\ 2 \in 1..2
        OBVIOUS
      <4> QED BY <3>1, <4>2, <4>3 DEF IsConcat
    <3>4. \A i \in 1..3 : CharEncoded(c)[i] = d[i]
      <4>1. \A i \in 1..3 : i = 1 \/ i = 1 + 1 \/ i = 1 + 2
        OBVIOUS
      <4>2. 1 + 1 = 2 /\ 1 + 2 = 3
        OBVIOUS
      <4> QED BY <3>1, <3>3, <4>1, <4>2
    <3>5. CharEncoded(c) = d
      BY <3>1, <3>3, <3>4, SeqEqual
    <3> QED BY <3>5 DEF d
  <2>5. <<"%", high, low>> \in Seq(EncodedChars(U))
    <3>1. {"%", high, low} \subseteq EncodedChars(U)
      BY DEF EncodedChars
    <3> HIDE DEF EncodedChars
    <3> QED BY <3>1
  <2> QED BY <1>2, <2>2, <2>4, <2>5
<1> QED BY <1>1, <1>2

\* Encoded texts have only such characters.
LEMMA EncodedType ==
  ASSUME NEW U, NEW text \in Seq(U)
  PROVE  /\ encodeURIComponent(text) \in Seq(EncodedChars(U))
         /\ EncodedParts(text) \in Seq(Seq(EncodedChars(U))) /\ Len(EncodedParts(text)) = Len(text)
         /\ \A i \in 1..Len(text) : EncodedParts(text)[i] = CharEncoded(text[i])
         /\ encodeURIComponent(text) = FlattenSeq(EncodedParts(text))
<1> DEFINE A == EncodedChars(U)
<1>0. Len(text) \in Nat /\ DOMAIN text = 1..Len(text) /\ \A i \in 1..Len(text) : text[i] \in U
  BY LenProperties, ElementOfSeq
<1>1. \A i \in 1..Len(text) : CharEncoded(text[i]) \in Seq(A)
  BY <1>0, CharProps
<1> HIDE DEF A
<1>2. /\ EncodedParts(text) \in Seq(Seq(A)) /\ Len(EncodedParts(text)) = Len(text)
      /\ \A i \in 1..Len(text) : EncodedParts(text)[i] = CharEncoded(text[i])
  BY <1>0, <1>1 DEF EncodedParts
<1>3. encodeURIComponent(text) = FlattenSeq(EncodedParts(text))
  BY DEF encodeURIComponent, EncodedParts, CharEncoded
<1>4. FlattenSeq(EncodedParts(text)) \in Seq(A)
  BY <1>2, FlattenType
<1> QED BY <1>2, <1>3, <1>4 DEF A

\* A text is its first character and the rest.
LEMMA FromNext ==
  ASSUME NEW U, NEW text \in Seq(U), NEW i \in 1..Len(text)
  PROVE  <<text[i]>> \o From(text, i + 1) = From(text, i)
<1>0. Len(text) \in Nat /\ text[i] \in U /\ i \in 1..Len(text) + 1 /\ i + 1 \in 1..Len(text) + 1
  BY LenProperties, ElementOfSeq
<1> DEFINE a == <<text[i]>>
           b == From(text, i + 1)
           c == From(text, i)
           d == a \o b
<1>1. a \in Seq(U) /\ Len(a) = 1 /\ a[1] = text[i]
  BY <1>0
<1>2. /\ b \in Seq(U) /\ Len(b) = Len(text) - (i + 1) + 1
      /\ \A j \in 1..Len(text) - (i + 1) + 1 : b[j] = text[i + 1 + j - 1]
  BY <1>0, FromProps
<1>3. /\ c \in Seq(U) /\ Len(c) = Len(text) - i + 1
      /\ \A j \in 1..Len(text) - i + 1 : c[j] = text[i + j - 1]
  BY <1>0, FromProps
<1> HIDE DEF a, b, c
<1>9. d = a \o b
  OBVIOUS
<1> HIDE DEF d
<1>4. /\ d \in Seq(U) /\ Len(d) = Len(a) + Len(b)
      /\ \A j \in 1..Len(a) : d[j] = a[j]
      /\ \A j \in 1..Len(b) : d[Len(a) + j] = b[j]
  <2>1. IsConcat(U, a \o b, a, b)
    BY <1>1, <1>2, ConcatIs
  <2>2. IsConcat(U, d, a, b)
    BY <1>9, <2>1, Zenon
  <2> QED BY <2>2 DEF IsConcat
<1>5. Len(d) = Len(c)
  BY <1>0, <1>1, <1>2, <1>3, <1>4
<1>6. ASSUME NEW j \in 1..Len(c) PROVE d[j] = c[j]
  <2>1. CASE j = 1
    <3>1. c[1] = text[i + 1 - 1] /\ i + 1 - 1 = i /\ d[1] = a[1]
      BY <1>0, <1>1, <1>3, <1>4
    <3> QED BY <1>1, <2>1, <3>1
  <2>2. CASE j # 1
    <3>1. j - 1 \in 1..Len(b) /\ Len(a) + (j - 1) = j /\ i + 1 + (j - 1) - 1 = i + j - 1
      BY <1>0, <1>1, <1>2, <1>3, <2>2
    <3>2. d[j] = b[j - 1] /\ b[j - 1] = text[i + 1 + (j - 1) - 1]
      BY <1>2, <1>4, <3>1
    <3>3. c[j] = text[i + j - 1]
      BY <1>3
    <3> QED BY <3>1, <3>2, <3>3
  <2> QED BY <2>1, <2>2
<1>7. d = c
  BY <1>3, <1>4, <1>5, <1>6, SeqEqual
<1> QED BY <1>7 DEF a, b, c, d

\* The second of two characters.
LEMMA PairAt == ASSUME NEW s, NEW m \in Int PROVE SubSeq(s, m, m + 1)[2] = s[m + 1]
<1> DEFINE S == {s[i] : i \in m..m + 1}
<1>1. \A i \in m..m + 1 : s[i] \in S
  OBVIOUS
<1> HIDE DEF S
<1>2. \A i \in 1..(m + 1) - m + 1 : SubSeq(s, m, m + 1)[i] = s[m + i - 1]
  BY <1>1, SubSeqProperties
<1>3. 2 \in 1..(m + 1) - m + 1 /\ m + 2 - 1 = m + 1
  OBVIOUS
<1> QED BY <1>2, <1>3

\* What a registration or login is sent with is what the server reads, whatever the characters.
LEMMA DecodedAsEncoded ==
  ASSUME NEW U, NEW text \in Seq(U)
  PROVE  url_decode(encodeURIComponent(text)) = text
<1> DEFINE flat == encodeURIComponent(text)
           s == EncodedParts(text)
           A == EncodedChars(U)
           D == 0..Len(text)
           rank == [k \in D |-> Len(text) - k]
<1>0. Len(text) \in Nat /\ \A i \in 1..Len(text) : text[i] \in U
  BY LenProperties, ElementOfSeq
<1>1. /\ flat \in Seq(A) /\ s \in Seq(Seq(A)) /\ Len(s) = Len(text) /\ flat = FlattenSeq(s)
      /\ \A i \in 1..Len(text) : s[i] = CharEncoded(text[i])
  BY EncodedType
<1> HIDE DEF flat, s, A
<1>2. PICK e : LaidOut(s, flat, e)
  BY <1>1, FlattenParts
<1>3. PICK f : DecodeSteps(flat, f) /\ url_decode(flat) = f[1]
  BY <1>1, UrlDecodeDef
<1>4. /\ Len(flat) \in Nat /\ e[0] = 0 /\ e[Len(text)] = Len(flat) /\ \A k \in D : e[k] \in Nat
      /\ \A k \in 1..Len(text) : PartAt(s, flat, e, k)
  BY <1>1, <1>2, LenProperties DEF LaidOut
<1> DEFINE Good == {k \in D : f[e[k] + 1] = From(text, k + 1)}
<1>5. ASSUME NEW k \in D, \A j \in D : rank[j] < rank[k] => j \in Good PROVE k \in Good
  <2>1. CASE k = Len(text)
    <3>1. e[k] + 1 \in 1..Len(flat) + 1 /\ e[k] + 1 > Len(flat)
      BY <1>4, <2>1
    <3>2. f[e[k] + 1] = <<>>
      BY <1>3, <3>1 DEF DecodeSteps, DecodeStep
    <3>3. From(text, k + 1) = <<>>
      <4>1. k + 1 \in 1..Len(text) + 1 /\ Len(text) - (k + 1) + 1 = 0
        BY <1>0, <2>1
      <4>2. From(text, k + 1) \in Seq(U) /\ Len(From(text, k + 1)) = 0
        BY <4>1, FromProps
      <4> QED BY <4>2, EmptySeq
    <3> QED BY <3>2, <3>3
  <2>2. CASE k # Len(text)
    <3>1. k + 1 \in 1..Len(text) /\ k + 1 \in D /\ rank[k + 1] < rank[k] /\ k + 1 - 1 = k
      BY <1>0, <2>2
    <3>2. f[e[k + 1] + 1] = From(text, k + 1 + 1)
      BY <1>5, <3>1
    <3>3. <<text[k + 1]>> \o From(text, k + 1 + 1) = From(text, k + 1)
      BY <3>1, FromNext
    <3> DEFINE c == text[k + 1]
               p == CharEncoded(c)
               i == e[k] + 1
    <3>4. /\ e[k + 1] = e[k] + Len(p) /\ e[k + 1] <= Len(flat)
          /\ \A j \in 1..Len(p) : flat[e[k] + j] = p[j]
      <4>1. PartAt(s, flat, e, k + 1) /\ s[k + 1] = p
        BY <1>1, <1>4, <3>1
      <4> HIDE DEF p
      <4> QED BY <3>1, <4>1 DEF PartAt
    <3>5. c \in U /\ e[k] \in Nat /\ e[k + 1] \in Nat
      BY <1>0, <1>4, <3>1
    <3> HIDE DEF c, Good, D, rank
    <3>6. CASE c \in DOMAIN Escape
      <4>1. PICK high \in HexDigit, low \in HexDigit : p = <<"%", high, low>> /\ Byte(high, low) = c
        BY <3>5, <3>6, CharProps
      <4>2. Len(p) = 3 /\ p[1] = "%" /\ p[2] = high /\ p[3] = low
        BY <4>1
      <4> HIDE DEF p
      <4>3. flat[e[k] + 1] = "%" /\ flat[e[k] + 2] = high /\ flat[e[k] + 3] = low
        BY <3>4, <4>2
      <4>4. /\ i \in 1..Len(flat) + 1 /\ ~(i > Len(flat)) /\ i + 2 <= Len(flat)
            /\ e[k] + 2 = i + 1 /\ e[k] + 3 = i + 2 /\ i + 3 = e[k + 1] + 1
        BY <1>4, <3>4, <3>5, <4>2
      <4>5. flat[i] = "%" /\ flat[i + 1] = high /\ flat[i + 2] = low
        BY <4>3, <4>4
      <4> HIDE DEF i
      <4>11. SubSeq(flat, i + 1, i + 2) # <<"0", "x">>
        <5>1. SubSeq(flat, i + 1, i + 2)[2] = flat[i + 2]
          <6>1. i + 1 \in Int /\ i + 2 = (i + 1) + 1
            BY <1>4, <4>4
          <6> QED BY <6>1, PairAt, Zenon
        <5>2. low # "x"
          BY <4>1 DEF HexDigit
        <5>3. <<"0", "x">>[2] = "x"
          OBVIOUS
        <5> QED BY <4>5, <5>1, <5>2, <5>3, Zenon
      <4>6. DecodesAt(flat, i)
        BY <4>1, <4>4, <4>5, <4>11 DEF DecodesAt
      <4>7. f[i] = DecodeStep(flat, f, i)
        BY <1>3, <4>4 DEF DecodeSteps
      <4>8. f[i] = <<Byte(flat[i + 1], flat[i + 2])>> \o f[i + 3]
        BY <4>4, <4>6, <4>7, Zenon DEF DecodeStep
      <4>9. f[i] = <<c>> \o f[e[k + 1] + 1]
        BY <4>1, <4>4, <4>5, <4>8, Zenon
      <4>10. f[e[k] + 1] = From(text, k + 1)
        BY <3>2, <3>3, <4>9, Zenon DEF c, i
      <4> QED BY <4>10 DEF Good
    <3>7. CASE c \notin DOMAIN Escape
      <4>1. p = <<c>>
        BY <3>5, <3>7, CharProps
      <4>2. Len(p) = 1 /\ p[1] = c
        BY <4>1
      <4> HIDE DEF p
      <4>3. flat[e[k] + 1] = c
        BY <3>4, <4>2
      <4>4. /\ i \in 1..Len(flat) + 1 /\ ~(i > Len(flat)) /\ i + 1 = e[k + 1] + 1
        BY <1>4, <3>4, <3>5, <4>2
      <4>5. flat[i] = c
        BY <4>3
      <4>6. c # "%" /\ c # "+"
        BY <3>7, EscapeProps
      <4> HIDE DEF i
      <4>7. ~DecodesAt(flat, i)
        BY <4>5, <4>6 DEF DecodesAt
      <4>8. f[i] = DecodeStep(flat, f, i)
        BY <1>3, <4>4 DEF DecodeSteps
      <4>9. f[i] = <<c>> \o f[e[k + 1] + 1]
        BY <4>4, <4>5, <4>6, <4>7, <4>8, Zenon DEF DecodeStep
      <4>10. f[e[k] + 1] = From(text, k + 1)
        BY <3>2, <3>3, <4>9, Zenon DEF c, i
      <4> QED BY <4>10 DEF Good
    <3> QED BY <3>6, <3>7
  <2> QED BY <2>1, <2>2
<1>6. D \subseteq Good
  <2>1. rank \in [D -> Nat]
    BY <1>0
  <2> HIDE DEF D, Good, rank
  <2> QED BY <1>5, <2>1, RankInd DEF Inherited
<1>7. f[e[0] + 1] = From(text, 0 + 1) /\ e[0] + 1 = 1
  <2>1. 0 \in D
    BY <1>0
  <2> QED BY <1>4, <1>6, <2>1
<1>8. From(text, 0 + 1) = text
  BY SubSeqFull DEF From
<1> QED BY <1>3, <1>7, <1>8 DEF flat

-----------------------------------------------------------------------------
(* The fields of the pages' bodies. *)

\* A value that neither ends its field nor looks like the beginning of one.
Clean(v) == \A j \in 1..Len(v) : v[j] # "&" /\ v[j] # "="

\* Every "=" belongs to a field with one of these names, and no two fields have the same.
Neat(body, names) ==
  /\ \A i \in 1..Len(body) - 1 : body[i + 1] = "=" => (i = 1 \/ body[i - 1] = "&") /\ body[i] \in names
  /\ \A i, j \in 1..Len(body) - 1 : body[i + 1] = "=" /\ body[j + 1] = "=" /\ body[i] = body[j] => i = j

\* An encoded text is such a value.
LEMMA EncodedClean == ASSUME NEW U, NEW text \in Seq(U) PROVE Clean(encodeURIComponent(text))
<1>1. encodeURIComponent(text) \in Seq(EncodedChars(U))
  BY EncodedType
<1>2. "&" \notin EncodedChars(U) /\ "=" \notin EncodedChars(U)
  <2>1. "&" \notin HexDigit /\ "=" \notin HexDigit
    BY DEF HexDigit
  <2> QED BY <2>1, EscapeProps DEF EncodedChars
<1> QED BY <1>1, <1>2, ElementOfSeq DEF Clean

\* Where the characters of an opening stand.
LEMMA OpeningAt ==
  ASSUME NEW U, NEW n \in U, "=" \in U, NEW v \in Seq(U)
  PROVE  /\ Opening(n, v) \in Seq(U) /\ Len(Opening(n, v)) = 2 + Len(v) /\ Len(v) \in Nat
         /\ Opening(n, v)[1] = n /\ Opening(n, v)[2] = "="
         /\ \A j \in 1..Len(v) : Opening(n, v)[2 + j] = v[j]
<1> DEFINE a == <<n, "=">>
<1>1. a \in Seq(U) /\ Len(a) = 2 /\ a[1] = n /\ a[2] = "=" /\ 1 \in 1..2 /\ 2 \in 1..2
  OBVIOUS
<1> HIDE DEF a
<1>2. IsConcat(U, a \o v, a, v)
  BY <1>1, ConcatIs
<1>3. Opening(n, v) = a \o v
  BY DEF Opening, a
<1>4. IsConcat(U, Opening(n, v), a, v)
  BY <1>2, <1>3, Zenon
<1> QED BY <1>1, <1>4 DEF IsConcat

\* Where the characters of another field and those before it stand.
LEMMA JoinedAt ==
  ASSUME NEW U, NEW n \in U, "=" \in U, "&" \in U, NEW v \in Seq(U), NEW body \in Seq(U)
  PROVE  /\ Joined(body, n, v) \in Seq(U) /\ Len(Joined(body, n, v)) = Len(body) + 3 + Len(v)
         /\ Len(v) \in Nat /\ Len(body) \in Nat
         /\ \A j \in 1..Len(body) : Joined(body, n, v)[j] = body[j]
         /\ Joined(body, n, v)[Len(body) + 1] = "&" /\ Joined(body, n, v)[Len(body) + 2] = n
         /\ Joined(body, n, v)[Len(body) + 3] = "="
         /\ \A j \in 1..Len(v) : Joined(body, n, v)[Len(body) + 3 + j] = v[j]
<1> DEFINE a == <<"&", n, "=">>
           b == body \o a
           c == Joined(body, n, v)
<1>1. a \in Seq(U) /\ Len(a) = 3 /\ a[1] = "&" /\ a[2] = n /\ a[3] = "=" /\ 1 \in 1..3 /\ 2 \in 1..3 /\ 3 \in 1..3
  OBVIOUS
<1>2. c = b \o v
  BY DEF Joined
<1>3. IsConcat(U, b, body, a)
  <2> HIDE DEF a
  <2> QED BY <1>1, ConcatIs
<1> HIDE DEF a, b, c
<1>4. b \in Seq(U) /\ Len(b) = Len(body) + 3 /\ Len(body) \in Nat
  BY <1>1, <1>3 DEF IsConcat
<1>5. IsConcat(U, b \o v, b, v)
  BY <1>4, ConcatIs
<1>6. IsConcat(U, c, b, v)
  BY <1>2, <1>5, Zenon
<1>7. c \in Seq(U) /\ Len(c) = Len(body) + 3 + Len(v) /\ Len(v) \in Nat
  BY <1>4, <1>6 DEF IsConcat
<1>8. \A j \in 1..Len(v) : c[Len(body) + 3 + j] = v[j]
  BY <1>4, <1>6 DEF IsConcat
<1>9. \A j \in 1..Len(body) + 3 : c[j] = b[j]
  BY <1>4, <1>6 DEF IsConcat
<1>10. \A j \in 1..Len(body) : j \in 1..Len(body) + 3 /\ b[j] = body[j]
  BY <1>3, <1>4 DEF IsConcat
<1>11. b[Len(body) + 1] = "&" /\ b[Len(body) + 2] = n /\ b[Len(body) + 3] = "="
  BY <1>1, <1>3 DEF IsConcat
<1>12. Len(body) + 1 \in 1..Len(body) + 3 /\ Len(body) + 2 \in 1..Len(body) + 3 /\ Len(body) + 3 \in 1..Len(body) + 3
  BY <1>4
<1> QED BY <1>4, <1>7, <1>8, <1>9, <1>10, <1>11, <1>12 DEF c

\* The first field.
LEMMA NeatOpening ==
  ASSUME NEW U, NEW n \in U, "=" \in U, n # "=", NEW v \in Seq(U), Clean(v)
  PROVE  Neat(Opening(n, v), {n})
<1> DEFINE body == Opening(n, v)
<1>1. /\ Len(body) = 2 + Len(v) /\ Len(v) \in Nat /\ body[1] = n /\ body[2] = "="
      /\ \A j \in 1..Len(v) : body[2 + j] = v[j]
  BY OpeningAt
<1> HIDE DEF body
<1>2. ASSUME NEW i \in 1..Len(body) - 1, body[i + 1] = "=" PROVE i = 1
  <2> SUFFICES ASSUME i # 1 PROVE FALSE
    OBVIOUS
  <2>1. i - 1 \in 1..Len(v) /\ 2 + (i - 1) = i + 1
    BY <1>1
  <2> QED BY <1>1, <1>2, <2>1 DEF Clean
<1>3. Neat(body, {n})
  BY <1>1, <1>2 DEF Neat
<1> QED BY <1>3 DEF body

\* Another field.
LEMMA NeatJoined ==
  ASSUME NEW U, NEW n \in U, "=" \in U, "&" \in U, n # "=", NEW v \in Seq(U), Clean(v), NEW body \in Seq(U),
         NEW names, Neat(body, names), n \notin names, Len(body) >= 1
  PROVE  Neat(Joined(body, n, v), names \cup {n})
<1> DEFINE more == Joined(body, n, v)
           L == Len(body)
<1>1. /\ Len(more) = L + 3 + Len(v) /\ Len(v) \in Nat /\ L \in Nat
      /\ \A j \in 1..L : more[j] = body[j]
      /\ more[L + 1] = "&" /\ more[L + 2] = n /\ more[L + 3] = "="
      /\ \A j \in 1..Len(v) : more[L + 3 + j] = v[j]
  <2>1. Len(more) = L + 3 + Len(v) /\ Len(v) \in Nat /\ L \in Nat
    BY JoinedAt
  <2>2. \A j \in 1..L : more[j] = body[j]
    BY JoinedAt
  <2>3. more[L + 1] = "&" /\ more[L + 2] = n /\ more[L + 3] = "="
    BY JoinedAt
  <2>4. \A j \in 1..Len(v) : more[L + 3 + j] = v[j]
    BY JoinedAt
  <2> QED BY <2>1, <2>2, <2>3, <2>4
<1> HIDE DEF more
<1>2. ASSUME NEW i \in 1..Len(more) - 1, more[i + 1] = "="
      PROVE  i = L + 2 \/ (i \in 1..L - 1 /\ i \in 1..L /\ i + 1 \in 1..L /\ (i # 1 => i - 1 \in 1..L))
  <2> SUFFICES ASSUME i # L + 2, i \notin 1..L - 1 PROVE FALSE
    BY <1>1
  <2>1. i = L \/ i = L + 1 \/ (i - (L + 2) \in 1..Len(v) /\ L + 3 + (i - (L + 2)) = i + 1)
    BY <1>1
  <2>2. CASE i = L
    BY <1>1, <1>2, <2>2
  <2>3. CASE i = L + 1
    <3>1. i + 1 = L + 2
      BY <1>1, <2>3
    <3> QED BY <1>1, <1>2, <3>1
  <2>4. CASE i - (L + 2) \in 1..Len(v) /\ L + 3 + (i - (L + 2)) = i + 1
    <3>1. v[i - (L + 2)] # "="
      BY <2>4 DEF Clean
    <3>2. more[i + 1] = v[i - (L + 2)]
      BY <1>1, <2>4
    <3> QED BY <1>2, <3>1, <3>2
  <2> QED BY <2>1, <2>2, <2>3, <2>4
<1>3. ASSUME NEW i \in 1..Len(more) - 1, more[i + 1] = "="
      PROVE  (i = 1 \/ more[i - 1] = "&") /\ more[i] \in names \cup {n}
  <2>1. CASE i = L + 2
    <3>1. i - 1 = L + 1
      BY <1>1, <2>1
    <3> QED BY <1>1, <2>1, <3>1
  <2>2. CASE i \in 1..L - 1 /\ i \in 1..L /\ i + 1 \in 1..L /\ (i # 1 => i - 1 \in 1..L)
    <3>1. body[i + 1] = "=" /\ more[i] = body[i] /\ (i # 1 => more[i - 1] = body[i - 1])
      BY <1>1, <1>3, <2>2
    <3> QED BY <2>2, <3>1 DEF Neat
  <2> QED BY <1>2, <1>3, <2>1, <2>2
<1>4. ASSUME NEW i \in 1..Len(more) - 1, more[i + 1] = "=", i # L + 2
      PROVE  i \in 1..L - 1 /\ body[i + 1] = "=" /\ more[i] = body[i] /\ body[i] \in names
  <2>1. i \in 1..L - 1 /\ i \in 1..L /\ i + 1 \in 1..L
    BY <1>2, <1>4
  <2>2. body[i + 1] = "=" /\ more[i] = body[i]
    BY <1>1, <1>4, <2>1
  <2> QED BY <2>1, <2>2 DEF Neat
<1>5. ASSUME NEW i \in 1..Len(more) - 1, NEW j \in 1..Len(more) - 1, more[i + 1] = "=", more[j + 1] = "=", more[i] = more[j]
      PROVE  i = j
  <2>1. CASE i = L + 2
    BY <1>1, <1>4, <1>5, <2>1
  <2>2. CASE j = L + 2
    BY <1>1, <1>4, <1>5, <2>2
  <2>3. CASE i # L + 2 /\ j # L + 2
    BY <1>4, <1>5, <2>3 DEF Neat
  <2> QED BY <2>1, <2>2, <2>3
<1>6. Neat(more, names \cup {n})
  BY <1>3, <1>5 DEF Neat
<1> QED BY <1>6 DEF more

\* In such a body the first field with a name is the last one too, and begins where a field does.
LEMMA FieldOfNeat ==
  ASSUME NEW body, NEW names, Neat(body, names), NEW name
  PROVE  FieldOf(body, name) = PostParam(body, name, <<>>)
<1> DEFINE P == {i \in 1..(Len(body) - 1) : body[i] = name /\ body[i + 1] = "="}
           First == CHOOSE i \in P : \A j \in P : i <= j
<1>1. P = FieldPlaces(body, name)
  BY DEF Neat, FieldPlaces
<1>2. FieldOf(body, name) = IF P = {} THEN <<>> ELSE ValueAt(body, First)
  BY DEF FieldOf, ValueAt
<1>3. \A i, j \in P : i = j
  BY DEF Neat
<1>4. P # {} => First = LastOf(P)
  <2> SUFFICES ASSUME NEW x \in P PROVE First = LastOf(P)
    OBVIOUS
  <2>1. x \in Int
    OBVIOUS
  <2> HIDE DEF P
  <2>2. P = {x}
    BY <1>3
  <2>3. x <= x
    BY <2>1
  <2>4. First = x /\ LastOf(P) = x
    BY <2>2, <2>3 DEF LastOf
  <2> QED BY <2>4
<1> HIDE DEF P, First
<1>5. PostParam(body, name, <<>>) = IF P = {} THEN <<>> ELSE ValueAt(body, LastOf(P))
  BY <1>1, ParamDef
<1> QED BY <1>2, <1>4, <1>5

-----------------------------------------------------------------------------
(* The numbers of the pages. *)

\* A text has a largest number of int, and an int is what it is read as.
LEMMA StoiProps ==
  ASSUME NEW n, IsNumber(n)
  PROVE  stoi(Text(n)) = n /\ ~StoiThrows(Text(n)) /\ Text(n) # <<>>
<1>1. n \in Nat /\ n <= MaxInt /\ \E t \in Numerals : Number(t) = n
  BY DEF IsNumber
<1>2. Numeral(Text(n)) = Text(n) /\ ValueOf(Text(n)) = n /\ Text(n) # <<>>
  BY <1>1, NumeralProps
<1>3. stoi(Text(n)) = n
  BY <1>2 DEF stoi
<1>4. n \in (-MaxInt - 1)..MaxInt
  BY <1>1, TextAssumption DEF MaxInt
<1> QED BY <1>2, <1>3, <1>4 DEF StoiThrows

\* So is the parameter of a route.
LEMMA ToIntProps == ASSUME NEW n, IsNumber(n) PROVE ToInt(ValueOf(Text(n))) = n
<1>1. n \in Nat /\ n <= MaxInt /\ \E t \in Numerals : Number(t) = n
  BY DEF IsNumber
<1>2. ValueOf(Text(n)) = n
  BY <1>1, NumeralProps
<1>3. PICK k \in Int : MaxInt = k - 1 /\ k = IntModulus \div 2 /\ IntModulus \in Nat \ {0}
  BY TextAssumption DEF MaxInt
<1>4. k + k <= IntModulus /\ k >= 0 /\ n < k
  BY <1>1, <1>3
<1>5. n + k \in 0..IntModulus - 1
  BY <1>1, <1>3, <1>4
<1>6. (n + k) % IntModulus = n + k
  BY <1>3, <1>5
<1>7. n + MaxInt + 1 = n + k
  BY <1>1, <1>3
<1>8. ToInt(n) = ((n + MaxInt + 1) % IntModulus) - (MaxInt + 1)
  BY Zenon DEF ToInt
<1>9. ToInt(n) = n
  <2>1. (n + MaxInt + 1) % IntModulus = n + k
    <3>1. (n + MaxInt + 1) % IntModulus = (n + k) % IntModulus
      BY <1>7, Zenon
    <3> QED BY <1>6, <3>1, Zenon
  <2>2. ToInt(n) = (n + k) - (MaxInt + 1)
    BY <1>8, <2>1, Zenon
  <2>3. (n + k) - (MaxInt + 1) = n
    BY <1>1, <1>3
  <2> QED BY <2>2, <2>3, Zenon
<1> QED BY <1>2, <1>9, Zenon

\* The digits of a number are clean, and nothing else.
LEMMA NumberText ==
  ASSUME NEW n, IsNumber(n)
  PROVE  Text(n) \in Seq(Digit) /\ Len(Text(n)) \in 1..MaxDigits /\ Clean(Text(n)) /\ Unsplit(Text(n))
<1>1. Text(n) \in Seq(Digit) /\ Len(Text(n)) \in 1..MaxDigits
  BY TextProps DEF IsNumber
<1> DEFINE t == Text(n)
<1>2. t \in Seq(Digit)
  BY <1>1
<1> HIDE DEF t
<1>3. \A j \in 1..Len(t) : t[j] \in Digit
  BY <1>2, ElementOfSeq
<1>4. \A d \in Digit : d # "&" /\ d # "="
  BY DEF Digit
<1> QED BY <1>1, <1>3, <1>4 DEF t, Clean, Unsplit

-----------------------------------------------------------------------------
(* Entries picked out of a sequence. *)

\* The entries picked so far.
SelectStep(s, I, f, i) == IF i = 0 THEN <<>> ELSE IF i \in I THEN Append(f[i - 1], s[i]) ELSE f[i - 1]

IsSelection(s, I, f) == f = [i \in 0..Len(s) |-> SelectStep(s, I, f, i)]

SelectSteps(s, I, f) == \A i \in 0..Len(s) : f[i] = SelectStep(s, I, f, i)

\* Selected goes by these steps.
LEMMA SelectedDef ==
  ASSUME NEW A, NEW s \in Seq(A), NEW I
  PROVE  \E f : /\ SelectSteps(s, I, f) /\ Selected(s, I) = f[Len(s)]
                /\ \A i \in 0..Len(s) : f[i] \in Seq(A)
<1> DEFINE D == 0..Len(s)
           V == Seq(A)
           rank == [i \in D |-> i]
           F == [f \in [D -> V] |-> [i \in D |-> SelectStep(s, I, f, i)]]
           made == CHOOSE f : IsSelection(s, I, f)
<1>0. Len(s) \in Nat /\ \A i \in 1..Len(s) : s[i] \in A
  BY LenProperties, ElementOfSeq
<1>1. rank \in [D -> Nat] /\ V # {} /\ <<>> \in V
  <2>1. rank \in [D -> Nat]
    BY <1>0
  <2>2. <<>> \in V
    OBVIOUS
  <2> QED BY <2>1, <2>2
<1>2. \A i \in D : i # 0 => i - 1 \in D /\ rank[i - 1] < rank[i] /\ s[i] \in A
  BY <1>0
<1>3. ASSUME NEW f \in [D -> V], NEW i \in D PROVE SelectStep(s, I, f, i) \in V
  <2>1. CASE i = 0
    BY <1>1, <2>1 DEF SelectStep
  <2>2. CASE i # 0
    <3>1. f[i - 1] \in Seq(A) /\ s[i] \in A
      BY <1>2, <2>2
    <3>2. Append(f[i - 1], s[i]) \in Seq(A)
      BY <3>1
    <3> QED BY <2>2, <3>1, <3>2 DEF SelectStep
  <2> QED BY <2>1, <2>2
<1>4. F \in [[D -> V] -> [D -> V]]
  <2> HIDE DEF D, V
  <2> QED BY <1>3
<1>5. ASSUME NEW f \in [D -> V], NEW g \in [D -> V], NEW i \in D,
             \A j \in D : rank[j] < rank[i] => f[j] = g[j]
      PROVE  F[f][i] = F[g][i]
  <2>1. i # 0 => f[i - 1] = g[i - 1]
    BY <1>2, <1>5
  <2>2. SelectStep(s, I, f, i) = SelectStep(s, I, g, i)
    BY <2>1 DEF SelectStep
  <2> QED BY <2>2
<1>6. Recurses(D, V, rank, F)
  <2> HIDE DEF D, V, rank, F
  <2> QED BY <1>1, <1>4, <1>5 DEF Recurses
<1>7. PICK f \in [D -> V] : f = F[f]
  <2> HIDE DEF D, V, rank, F
  <2> QED BY <1>6, Recursion
<1>8. \E h : IsSelection(s, I, h)
  <2>1. f = [i \in D |-> SelectStep(s, I, f, i)]
    BY <1>7
  <2> QED BY <2>1 DEF IsSelection
<1>9. IsSelection(s, I, made)
  BY <1>8, Zenon
<1>10. Selected(s, I) = made[Len(s)]
  BY DEF Selected, IsSelection, SelectStep
<1> HIDE DEF made
<1>11. SelectSteps(s, I, made)
  BY <1>9 DEF IsSelection, SelectSteps
<1> DEFINE Good == {i \in D : made[i] \in Seq(A)}
<1>12. Inherited(D, Good, rank)
  <2>1. ASSUME NEW i \in D, \A j \in D : rank[j] < rank[i] => j \in Good PROVE i \in Good
    <3>1. made[i] = SelectStep(s, I, made, i)
      BY <1>11 DEF SelectSteps
    <3>2. CASE i = 0
      BY <1>1, <3>1, <3>2 DEF SelectStep
    <3>3. CASE i # 0
      <4>1. made[i - 1] \in Seq(A) /\ s[i] \in A
        BY <1>2, <2>1, <3>3
      <4>2. Append(made[i - 1], s[i]) \in Seq(A)
        BY <4>1
      <4>3. made[i] \in Seq(A)
        BY <3>1, <3>3, <4>1, <4>2 DEF SelectStep
      <4> QED BY <4>3
    <3> QED BY <3>2, <3>3
  <2> QED BY <1>1, <2>1 DEF Inherited
<1>13. D \subseteq Good
  <2> HIDE DEF D, Good, rank
  <2> QED BY <1>12, RankInd
<1> QED BY <1>10, <1>11, <1>13

\* What is picked out of s are its entries at the places I and no others.
Picked(s, I, t) ==
  /\ \A k \in 1..Len(t) : \E i \in I : i \in 1..Len(s) /\ t[k] = s[i]
  /\ \A i \in I : i \in 1..Len(s) => \E k \in 1..Len(t) : t[k] = s[i]

LEMMA SelectedProps ==
  ASSUME NEW A, NEW s \in Seq(A), NEW I
  PROVE  Selected(s, I) \in Seq(A) /\ Picked(s, I, Selected(s, I))
<1>0. Len(s) \in Nat
  BY LenProperties
<1>1. PICK f : /\ SelectSteps(s, I, f) /\ Selected(s, I) = f[Len(s)]
               /\ \A i \in 0..Len(s) : f[i] \in Seq(A)
  BY SelectedDef
<1> DEFINE Out(m) == \A k \in 1..Len(f[m]) : \E i \in I : i \in 1..m /\ f[m][k] = s[i]
           In(m) == \A i \in I : i \in 1..m => \E k \in 1..Len(f[m]) : f[m][k] = s[i]
           D == 0..Len(s)
           rank == [i \in D |-> i]
           Good == {m \in D : Out(m) /\ In(m)}
<1>2. ASSUME NEW m \in D, \A j \in D : rank[j] < rank[m] => j \in Good PROVE m \in Good
  <2>1. f[m] = SelectStep(s, I, f, m) /\ f[m] \in Seq(A)
    BY <1>1 DEF SelectSteps
  <2>2. CASE m = 0
    <3>1. f[m] = <<>>
      BY <2>1, <2>2 DEF SelectStep
    <3>2. \A k \in 1..Len(<<>>) : FALSE
      OBVIOUS
    <3>3. \A i \in 1..0 : FALSE
      OBVIOUS
    <3> QED BY <2>2, <3>1, <3>2, <3>3
  <2>3. CASE m # 0
    <3>1. m - 1 \in D /\ rank[m - 1] < rank[m] /\ m \in 1..Len(s) /\ m \in 1..m
      BY <1>0, <2>3
    <3>2. Out(m - 1) /\ In(m - 1) /\ f[m - 1] \in Seq(A) /\ Len(f[m - 1]) \in Nat
      BY <1>1, <1>2, <3>1, LenProperties
    <3>3. \A i \in 1..m - 1 : i \in 1..m
      OBVIOUS
    <3>4. \A i \in 1..m : i # m => i \in 1..m - 1
      BY <2>3
    <3>5. CASE m \notin I
      <4>1. f[m] = f[m - 1]
        BY <2>1, <2>3, <3>5 DEF SelectStep
      <4>2. Out(m)
        BY <3>2, <3>3, <4>1
      <4>3. In(m)
        BY <3>2, <3>4, <3>5, <4>1
      <4> QED BY <4>2, <4>3
    <3>6. CASE m \in I
      <4>1. f[m] = Append(f[m - 1], s[m])
        BY <2>1, <2>3, <3>6 DEF SelectStep
      <4> DEFINE n == Len(f[m - 1])
      <4>2. /\ Len(f[m]) = n + 1 /\ f[m][n + 1] = s[m]
            /\ \A k \in 1..n : f[m][k] = f[m - 1][k]
        <5>1. s[m] \in A
          BY <3>1, ElementOfSeq
        <5> QED BY <3>2, <4>1, <5>1, AppendProperties
      <4>3. n \in Nat /\ n + 1 \in 1..n + 1 /\ (\A k \in 1..n : k \in 1..n + 1) /\ \A k \in 1..n + 1 : k # n + 1 => k \in 1..n
        BY <3>2
      <4> HIDE DEF n
      <4>4. Out(m)
        <5> TAKE k \in 1..Len(f[m])
        <5>1. CASE k = n + 1
          BY <3>1, <3>6, <4>2, <5>1
        <5>2. CASE k # n + 1
          <6>1. k \in 1..n
            BY <4>2, <4>3, <5>2
          <6>2. PICK i \in I : i \in 1..m - 1 /\ f[m - 1][k] = s[i]
            BY <3>2, <6>1 DEF n
          <6> QED BY <3>3, <4>2, <6>1, <6>2
        <5> QED BY <5>1, <5>2
      <4>5. In(m)
        <5> SUFFICES ASSUME NEW i \in I, i \in 1..m PROVE \E k \in 1..Len(f[m]) : f[m][k] = s[i]
          OBVIOUS
        <5>1. CASE i = m
          BY <4>2, <4>3, <5>1
        <5>2. CASE i # m
          <6>1. PICK k \in 1..n : f[m - 1][k] = s[i]
            BY <3>2, <3>4, <5>2 DEF n
          <6> QED BY <4>2, <4>3, <6>1
        <5> QED BY <5>1, <5>2
      <4> QED BY <4>4, <4>5
    <3> QED BY <3>5, <3>6
  <2> QED BY <2>2, <2>3
<1>3. D \subseteq Good
  <2>1. rank \in [D -> Nat]
    BY <1>0
  <2> HIDE DEF D, Good, rank
  <2> QED BY <1>2, <2>1, RankInd DEF Inherited
<1>4. Len(s) \in D
  BY <1>0
<1>5. Out(Len(s)) /\ In(Len(s))
  BY <1>3, <1>4
<1> QED BY <1>1, <1>4, <1>5 DEF Picked

\* So they are the same as a set.
LEMMA SelectedSet ==
  ASSUME NEW A, NEW s \in Seq(A), NEW I \in SUBSET (1..Len(s))
  PROVE  /\ ToSet(Selected(s, I)) = {s[i] : i \in I}
         /\ Selected(s, I) = <<>> <=> I = {}
<1> DEFINE t == Selected(s, I)
<1>1. t \in Seq(A) /\ Picked(s, I, t)
  BY SelectedProps
<1> HIDE DEF t
<1>2. Len(t) \in Nat /\ DOMAIN t = 1..Len(t) /\ ToSet(t) = {t[k] : k \in 1..Len(t)}
  BY <1>1, LenProperties DEF ToSet
<1>3. ToSet(t) = {s[i] : i \in I}
  BY <1>1, <1>2 DEF Picked
<1>4. t = <<>> <=> 1..Len(t) = {}
  BY <1>1, <1>2, EmptySeq
<1>5. t = <<>> <=> I = {}
  BY <1>1, <1>4 DEF Picked
<1> QED BY <1>3, <1>5 DEF t

-----------------------------------------------------------------------------
(* Which rules match a URL. *)

\* Where a rule has the character that the URL has, it goes on behind it.
LEMMA LiteralNext ==
  ASSUME NEW C, NEW pattern \in Seq(C), NEW U, NEW url \in Seq(U),
         NEW i \in 1..Len(pattern), pattern[i] \notin Param, NEW pos \in 1..Len(url), url[pos] = pattern[i]
  PROVE  Matching(pattern, url)[i][pos] = Matching(pattern, url)[i + 1][pos + 1]
<1> DEFINE m == Matching(pattern, url)
           child == NodeOf(pattern[i])
           rest == From(url, pos)
           taken == Takes(child, rest)
<1>0. Len(pattern) \in Nat /\ Len(url) \in Nat /\ i + 1 \in 1..Len(pattern) + 1 /\ pos + 1 \in 1..Len(url) + 1
      /\ pos \in 1..Len(url) + 1 /\ url[pos] \in U
  BY LenProperties, ElementOfSeq
<1>1. m[i][pos] = ParamsVia(child, m[i + 1], url, pos)
  BY MatchingAt
<1>2. m[i + 1] \in ParamSets(U, url)
  BY <1>0, MatchingType
<1> HIDE DEF m
<1>3. child.key = <<pattern[i]>> /\ child.param = "none"
  BY DEF NodeOf, NewNode
<1>4. rest \in Seq(U) /\ Len(rest) = Len(url) - pos + 1 /\ rest[1] = url[pos] /\ Len(rest) >= 1
  <2>1. /\ rest \in Seq(U) /\ Len(rest) = Len(url) - pos + 1
        /\ \A k \in 1..Len(url) - pos + 1 : rest[k] = url[pos + k - 1]
    BY <1>0, FromProps
  <2> HIDE DEF rest
  <2>2. 1 \in 1..Len(url) - pos + 1 /\ pos + 1 - 1 = pos
    BY <1>0
  <2> QED BY <1>0, <2>1, <2>2
<1>5. taken = IF IsPrefix(child.key, rest) THEN Len(child.key) ELSE 0
  BY <1>3 DEF Takes
<1> HIDE DEF child, rest
<1>6. IsPrefix(<<pattern[i]>>, rest)
  <2> DEFINE one == <<pattern[i]>>
  <2>1. one \in Seq({pattern[i]}) /\ Len(one) = 1 /\ one[1] = pattern[i]
    OBVIOUS
  <2> HIDE DEF one
  <2>2. Starts(one, rest)
    BY <1>0, <1>4, <2>1 DEF Starts
  <2>3. IsPrefix(one, rest)
    BY <1>4, <2>1, <2>2, PrefixDef
  <2> QED BY <2>3 DEF one
<1>7. taken = 1
  <2>1. Len(<<pattern[i]>>) = 1
    OBVIOUS
  <2> QED BY <1>3, <1>5, <1>6, <2>1
<1>8. ParamOf(child, SubSeq(rest, 1, 1)) = <<>>
  BY <1>3 DEF ParamOf
<1> DEFINE next == m[i + 1][pos + 1]
<1>9. next \in SUBSET Seq(Pairs(U))
  BY <1>0, <1>2 DEF ParamSets
<1>10. m[i][pos] = {<<>> \o p : p \in next}
  <2>1. m[i][pos] = IF taken = 0 THEN {} ELSE {ParamOf(child, SubSeq(rest, 1, taken)) \o p : p \in m[i + 1][pos + taken]}
    BY <1>1 DEF ParamsVia, rest
  <2> HIDE DEF taken
  <2>2. m[i][pos] = IF 1 = 0 THEN {} ELSE {ParamOf(child, SubSeq(rest, 1, 1)) \o p : p \in m[i + 1][pos + 1]}
    BY <1>7, <2>1, Zenon
  <2>3. m[i][pos] = {ParamOf(child, SubSeq(rest, 1, 1)) \o p : p \in m[i + 1][pos + 1]}
    BY <2>2
  <2> QED BY <1>8, <2>3, Zenon
<1> HIDE DEF next
<1>11. \A p \in next : <<>> \o p = p
  BY <1>9, ConcatEmptySeq
<1>12. {<<>> \o p : p \in next} = next
  BY <1>11
<1> QED BY <1>10, <1>12 DEF m, next

\* A rule and a URL have the same characters for a while.
SameRun(pattern, i, url, pos, n) ==
  /\ i + n <= Len(pattern) + 1 /\ pos + n <= Len(url) + 1
  /\ \A j \in 0..n - 1 : pattern[i + j] \notin Param /\ url[pos + j] = pattern[i + j]

LEMMA LiteralRun ==
  ASSUME NEW C, NEW pattern \in Seq(C), NEW U, NEW url \in Seq(U),
         NEW i \in 1..Len(pattern) + 1, NEW pos \in 1..Len(url) + 1, NEW n \in Nat, SameRun(pattern, i, url, pos, n)
  PROVE  Matching(pattern, url)[i][pos] = Matching(pattern, url)[i + n][pos + n]
<1> DEFINE m == Matching(pattern, url)
           S == {k \in Nat : k <= n => m[i][pos] = m[i + k][pos + k]}
<1>0. /\ Len(pattern) \in Nat /\ Len(url) \in Nat /\ i \in Nat /\ pos \in Nat /\ i >= 1 /\ pos >= 1
      /\ i + n <= Len(pattern) + 1 /\ pos + n <= Len(url) + 1
  BY LenProperties DEF SameRun
<1> HIDE DEF m
<1>1. 0 \in S
  <2>1. i + 0 = i /\ pos + 0 = pos
    BY <1>0
  <2> QED BY <2>1
<1>2. ASSUME NEW k \in S PROVE k + 1 \in S
  <2>1. SUFFICES ASSUME k + 1 <= n PROVE m[i][pos] = m[i + (k + 1)][pos + (k + 1)]
    OBVIOUS
  <2>2. k \in Nat /\ k <= n /\ k \in 0..n - 1 /\ i + k \in 1..Len(pattern) /\ pos + k \in 1..Len(url)
    BY <1>0, <2>1
  <2>3. pattern[i + k] \notin Param /\ url[pos + k] = pattern[i + k]
    BY <2>2 DEF SameRun
  <2>4. m[i + k][pos + k] = m[(i + k) + 1][(pos + k) + 1]
    BY <2>2, <2>3, LiteralNext DEF m
  <2>5. (i + k) + 1 = i + (k + 1) /\ (pos + k) + 1 = pos + (k + 1)
    BY <1>0, <2>2
  <2>6. m[i][pos] = m[i + k][pos + k]
    BY <2>2
  <2> QED BY <2>4, <2>5, <2>6, Zenon
<1>3. S = Nat
  <2>1. S \in SUBSET Nat
    OBVIOUS
  <2> HIDE DEF S
  <2> QED BY <1>1, <1>2, <2>1, NatInd
<1>4. n \in S /\ n <= n
  BY <1>3
<1> QED BY <1>4 DEF m

\* Where they differ, or the URL ends, nothing matches.
LEMMA Differs ==
  ASSUME NEW C, NEW pattern \in Seq(C), NEW U, NEW url \in Seq(U), NEW n \in Nat,
         n < Len(pattern), n <= Len(url), SameRun(pattern, 1, url, 1, n), pattern[n + 1] \notin Param,
         n = Len(url) \/ url[n + 1] # pattern[n + 1]
  PROVE  MatchesOf(pattern, url) = {}
<1>0. Len(pattern) \in Nat /\ Len(url) \in Nat
  BY LenProperties
<1>1. 1 \in 1..Len(pattern) + 1 /\ 1 \in 1..Len(url) + 1 /\ 1 + n = n + 1
  BY <1>0
<1>2. Matching(pattern, url)[1][1] = Matching(pattern, url)[n + 1][n + 1]
  <2>1. Matching(pattern, url)[1][1] = Matching(pattern, url)[1 + n][1 + n]
    BY <1>1, LiteralRun
  <2> QED BY <1>1, <2>1, Zenon
<1>3. ASSUME NEW p \in Matching(pattern, url)[n + 1][n + 1] PROVE FALSE
  <2>1. n + 1 \in 1..Len(pattern) /\ n + 1 \in 1..Len(url) + 1
    BY <1>0
  <2>2. n + 1 \in 1..Len(url) /\ url[n + 1] = pattern[n + 1]
    BY <1>3, <2>1, LiteralStep
  <2> QED BY <1>0, <2>2
<1> QED BY <1>2, <1>3 DEF MatchesOf

\* A rule without parameters matches its own URL.
LEMMA MatchesItself ==
  ASSUME NEW C, NEW url \in Seq(C), \A j \in 1..Len(url) : url[j] \notin Param
  PROVE  MatchesOf(url, url) = {<<>>}
<1>0. Len(url) \in Nat /\ 1 + Len(url) = Len(url) + 1 /\ 1 \in 1..Len(url) + 1
  BY LenProperties
<1>1. SameRun(url, 1, url, 1, Len(url))
  <2>1. \A j \in 0..Len(url) - 1 : 1 + j \in 1..Len(url)
    BY <1>0
  <2> QED BY <1>0, <2>1 DEF SameRun
<1>2. Matching(url, url)[1][1] = Matching(url, url)[Len(url) + 1][Len(url) + 1]
  <2>1. Matching(url, url)[1][1] = Matching(url, url)[1 + Len(url)][1 + Len(url)]
    BY <1>0, <1>1, LiteralRun
  <2> QED BY <1>0, <2>1, Zenon
<1> QED BY <1>2, MatchingAt DEF MatchesOf

\* A number stands in a URL from pos on: these digits and no more.
NumberAt(url, pos, t) ==
  /\ pos >= 1 /\ pos + Len(t) <= Len(url) + 1
  /\ \A j \in 1..Len(t) : url[pos - 1 + j] = t[j]
  /\ pos + Len(t) <= Len(url) => url[pos + Len(t)] \notin Digit

\* What a number is written with.
IsDigits(t) == t \in Seq(Digit) /\ Len(t) \in 1..MaxDigits

\* It is what <int> takes.
LEMMA IntTaken ==
  ASSUME NEW U, NEW url \in Seq(U), NEW t, IsDigits(t), NEW pos \in Nat, NumberAt(url, pos, t)
  PROVE  /\ IntegerSpan(From(url, pos), Sign) = Len(t) /\ SubSeq(From(url, pos), 1, Len(t)) = t
         /\ pos \in 1..Len(url) /\ Len(t) \in Nat /\ Len(t) >= 1
<1> DEFINE rest == From(url, pos)
           n == Span(rest, Digit)
<1>0. Len(url) \in Nat /\ Len(t) \in Nat /\ Len(t) >= 1 /\ Len(t) <= MaxDigits /\ \A j \in 1..Len(t) : t[j] \in Digit
  BY LenProperties, ElementOfSeq DEF IsDigits
<1>1. pos \in 1..Len(url) /\ pos \in 1..Len(url) + 1
  BY <1>0 DEF NumberAt
<1>2. /\ rest \in Seq(U) /\ Len(rest) = Len(url) - pos + 1 /\ Len(t) <= Len(rest)
      /\ \A j \in 1..Len(url) - pos + 1 : rest[j] = url[pos + j - 1]
  BY <1>0, <1>1, FromProps DEF NumberAt
<1> HIDE DEF rest
<1>3. \A j \in 1..Len(t) : rest[j] = t[j]
  <2> TAKE j \in 1..Len(t)
  <2>1. j \in 1..Len(url) - pos + 1 /\ pos + j - 1 = pos - 1 + j
    BY <1>0, <1>1, <1>2
  <2> QED BY <1>2, <2>1 DEF NumberAt
<1>4. Len(t) < Len(rest) => rest[Len(t) + 1] \notin Digit
  <2> SUFFICES ASSUME Len(t) < Len(rest) PROVE rest[Len(t) + 1] \notin Digit
    OBVIOUS
  <2>1. Len(t) + 1 \in 1..Len(url) - pos + 1 /\ pos + (Len(t) + 1) - 1 = pos + Len(t) /\ pos + Len(t) <= Len(url)
    BY <1>0, <1>1, <1>2
  <2> QED BY <1>2, <2>1 DEF NumberAt
<1>5. /\ n \in 0..Len(rest) /\ \A j \in 1..n : rest[j] \in Digit
      /\ n < Len(rest) => rest[n + 1] \notin Digit
  BY <1>2, SpanProps
<1> HIDE DEF n
<1>6. ~(n < Len(t))
  <2> SUFFICES ASSUME n < Len(t) PROVE FALSE
    OBVIOUS
  <2>1. n + 1 \in 1..Len(t) /\ n < Len(rest)
    BY <1>0, <1>2, <1>5
  <2> QED BY <1>0, <1>3, <1>5, <2>1
<1>7. ~(n > Len(t))
  <2> SUFFICES ASSUME n > Len(t) PROVE FALSE
    OBVIOUS
  <2>1. Len(t) + 1 \in 1..n /\ Len(t) < Len(rest)
    BY <1>0, <1>2, <1>5
  <2> QED BY <1>4, <1>5, <2>1
<1>8. n = Len(t)
  BY <1>0, <1>5, <1>6, <1>7
<1>9. From(rest, 1) = rest
  <2>1. SubSeq(rest, 1, Len(rest)) = rest
    BY <1>2, SubSeqFull
  <2> QED BY <2>1 DEF From
<1>10. SignOf(rest, Sign) = 0
  <2>1. 1 \in 1..Len(t) /\ rest # <<>>
    BY <1>0, <1>2, EmptySeq
  <2>2. Head(rest) \in Digit
    BY <1>0, <1>2, <1>3, <2>1
  <2> QED BY <2>2 DEF SignOf, Sign, Digit
<1>11. IntegerSpan(rest, Sign) = Len(t)
  <2>1. From(rest, 0 + 1) = rest
    BY <1>9
  <2>2. IntegerSpan(rest, Sign) = Signed(0, InRange(Len(t)))
    BY <1>8, <1>10, <2>1 DEF IntegerSpan, n
  <2>3. InRange(Len(t)) = Len(t) /\ Len(t) # 0
    BY <1>0, MaxDigitsAssumption DEF InRange
  <2> QED BY <1>0, <2>2, <2>3 DEF Signed
<1>12. SubSeq(rest, 1, Len(t)) = t
  <2> DEFINE sub == SubSeq(rest, 1, Len(t))
  <2>1. \A j \in 1..Len(t) : rest[j] \in Digit
    BY <1>0, <1>3
  <2>2. /\ sub \in Seq(Digit) /\ Len(sub) = IF 1 <= Len(t) THEN Len(t) - 1 + 1 ELSE 0
        /\ \A j \in 1..(Len(t) - 1 + 1) : sub[j] = rest[1 + j - 1]
    BY <1>0, <2>1, SubSeqProperties
  <2> HIDE DEF sub
  <2>3. Len(sub) = Len(t) /\ \A j \in 1..Len(t) : j \in 1..(Len(t) - 1 + 1) /\ 1 + j - 1 = j
    BY <1>0, <2>2
  <2>4. \A j \in 1..Len(t) : sub[j] = t[j]
    BY <1>3, <2>2, <2>3
  <2>5. sub = t
    BY <2>2, <2>3, <2>4, SeqEqual DEF IsDigits
  <2> QED BY <2>5 DEF sub
<1> QED BY <1>0, <1>1, <1>11, <1>12 DEF rest

\* The parameters of a URL with one number.
IntParam(t) == <<[param |-> "<int>", value |-> t]>>

\* A rule goes on behind the number.
GoesOn(pattern, url, i, pos, t) ==
  Matching(pattern, url)[i][pos] = {IntParam(t) \o p : p \in Matching(pattern, url)[i + 1][pos + Len(t)]}

LEMMA NumberNext ==
  ASSUME NEW C, NEW pattern \in Seq(C), NEW U, NEW url \in Seq(U), NEW i \in 1..Len(pattern), pattern[i] = "<int>",
         NEW t, IsDigits(t), NEW pos \in Nat, NumberAt(url, pos, t)
  PROVE  GoesOn(pattern, url, i, pos, t)
<1> DEFINE m == Matching(pattern, url)
           child == NodeOf(pattern[i])
           rest == From(url, pos)
           taken == Takes(child, rest)
<1>1. /\ IntegerSpan(rest, Sign) = Len(t) /\ SubSeq(rest, 1, Len(t)) = t /\ pos \in 1..Len(url)
      /\ Len(t) \in Nat /\ Len(t) >= 1
  BY IntTaken
<1>2. m[i][pos] = ParamsVia(child, m[i + 1], url, pos)
  BY <1>1, MatchingAt
<1> HIDE DEF m
<1>3. child.param = "<int>"
  BY DEF NodeOf, NewNode, Param
<1> HIDE DEF child
<1>4. taken = Len(t)
  BY <1>1, <1>3 DEF Takes
<1>5. ParamOf(child, t) = IntParam(t)
  BY <1>3 DEF ParamOf, IntParam
<1>6. m[i][pos] = IF taken = 0 THEN {} ELSE {ParamOf(child, SubSeq(rest, 1, taken)) \o p : p \in m[i + 1][pos + taken]}
  BY <1>2 DEF ParamsVia, rest
<1> HIDE DEF taken, rest
<1>7. m[i][pos] = IF Len(t) = 0 THEN {} ELSE {ParamOf(child, SubSeq(rest, 1, Len(t))) \o p : p \in m[i + 1][pos + Len(t)]}
  BY <1>4, <1>6, Zenon
<1>8. m[i][pos] = {ParamOf(child, SubSeq(rest, 1, Len(t))) \o p : p \in m[i + 1][pos + Len(t)]}
  BY <1>1, <1>7
<1>9. ParamOf(child, SubSeq(rest, 1, Len(t))) = IntParam(t)
  BY <1>1, <1>5 DEF rest
<1> QED BY <1>8, <1>9, Zenon DEF m, GoesOn

\* The URL of a rule with one <int>, and a number in its place.
Fills(pattern, k, url, t) ==
  /\ k \in 1..Len(pattern) /\ pattern[k] = "<int>" /\ IsDigits(t)
  /\ Len(url) = Len(pattern) - 1 + Len(t)
  /\ SameRun(pattern, 1, url, 1, k - 1) /\ NumberAt(url, k, t)
  /\ SameRun(pattern, k + 1, url, k + Len(t), Len(pattern) - k)

\* The rule matches it with that number.
LEMMA MatchesFilled ==
  ASSUME NEW C, NEW pattern \in Seq(C), NEW U, NEW url \in Seq(U), NEW k, NEW t, Fills(pattern, k, url, t)
  PROVE  MatchesOf(pattern, url) = {IntParam(t)}
<1> DEFINE m == Matching(pattern, url)
           K == k + 1
           P == k + Len(t)
           L == Len(pattern) - k
           J == k - 1
<1>0. Len(pattern) \in Nat /\ Len(url) \in Nat /\ Len(t) \in Nat /\ k \in Nat /\ k >= 1 /\ k <= Len(pattern) /\ Len(t) >= 1
  BY LenProperties DEF Fills, IsDigits
<1>1. m[1][1] = m[k][k]
  <2>1. 1 \in 1..Len(pattern) + 1 /\ 1 \in 1..Len(url) + 1 /\ J \in Nat /\ 1 + J = k
    BY <1>0 DEF Fills
  <2>2. SameRun(pattern, 1, url, 1, J)
    BY DEF Fills
  <2> HIDE DEF J
  <2>3. m[1][1] = m[1 + J][1 + J]
    BY <2>1, <2>2, LiteralRun
  <2> QED BY <2>1, <2>3, Zenon
<1>2. m[k][k] = {IntParam(t) \o p : p \in m[K][P]}
  <2>1. k \in 1..Len(pattern) /\ pattern[k] = "<int>" /\ IsDigits(t) /\ k \in Nat /\ NumberAt(url, k, t)
    BY <1>0 DEF Fills
  <2> HIDE DEF m
  <2>2. GoesOn(pattern, url, k, k, t)
    BY <2>1, NumberNext
  <2> QED BY <2>2, Zenon DEF m, GoesOn
<1>3. m[K][P] = m[Len(pattern) + 1][Len(url) + 1]
  <2>1. K \in 1..Len(pattern) + 1 /\ P \in 1..Len(url) + 1 /\ L \in Nat /\ K + L = Len(pattern) + 1 /\ P + L = Len(url) + 1
    BY <1>0 DEF Fills
  <2>2. SameRun(pattern, K, url, P, L)
    BY DEF Fills
  <2> HIDE DEF K, P, L
  <2>3. m[K][P] = m[K + L][P + L]
    BY <2>1, <2>2, LiteralRun
  <2> QED BY <2>1, <2>3, Zenon
<1>4. m[Len(pattern) + 1][Len(url) + 1] = {<<>>}
  BY MatchingAt
<1> HIDE DEF m, K, P
<1>5. m[1][1] = {IntParam(t) \o p : p \in {<<>>}}
  BY <1>1, <1>2, <1>3, <1>4
<1>6. IntParam(t) \o <<>> = IntParam(t)
  <2>1. IntParam(t) \in Seq({[param |-> "<int>", value |-> t]})
    BY DEF IntParam
  <2> HIDE DEF IntParam
  <2> QED BY <2>1, ConcatEmptySeq
<1>7. m[1][1] = {IntParam(t)}
  BY <1>5, <1>6
<1> QED BY <1>7 DEF MatchesOf, m

-----------------------------------------------------------------------------
(* The URLs of the application. *)

\* What the URLs of rules and pages are made of.
Letters == {"/", "api", "auth", "register", "log", "in", "project", "s", "create", "<int>", "settings", "admin",
            "users", "role", "info", "stats", "query", "advanced", "undefined", "dashboard", "workspace",
            "analytics", "health", "static", "<path>", "?", "=", "&", "a", "l", "o", "d", "r", "f", "desc", "asc",
            "0", "1", "2"}

\* Where the tokens of a URL under /api/ stand.
ApiIs(url, path) ==
  /\ url \in Seq(Letters) /\ Len(path) \in Nat /\ Len(url) = 3 + Len(path)
  /\ url[1] = "/" /\ url[2] = "api" /\ url[3] = "/"
  /\ \A j \in 1..Len(path) : url[3 + j] = path[j]

LEMMA ApiAt == ASSUME NEW path \in Seq(Letters) PROVE ApiIs(Api(path), path)
<1> DEFINE s == <<"/", "api", "/">>
<1>1. s \in Seq(Letters) /\ Len(s) = 3 /\ s[1] = "/" /\ s[2] = "api" /\ s[3] = "/"
      /\ 1 \in 1..3 /\ 2 \in 1..3 /\ 3 \in 1..3
  BY DEF Letters
<1> HIDE DEF s
<1>2. IsConcat(Letters, s \o path, s, path)
  BY <1>1, ConcatIs
<1>3. Api(path) = s \o path
  BY DEF Api, s
<1>4. IsConcat(Letters, Api(path), s, path)
  BY <1>2, <1>3, Zenon
<1> QED BY <1>1, <1>4 DEF IsConcat, ApiIs

\* And under /api/admin/users.
AdminIs(url, path) ==
  /\ url \in Seq(Letters) /\ Len(path) \in Nat /\ Len(url) = 6 + Len(path)
  /\ url[1] = "/" /\ url[2] = "api" /\ url[3] = "/" /\ url[4] = "admin" /\ url[5] = "/" /\ url[6] = "users"
  /\ \A j \in 1..Len(path) : url[6 + j] = path[j]

LEMMA AdminAt == ASSUME NEW path \in Seq(Letters) PROVE AdminIs(Admin(path), path)
<1> DEFINE s == <<"admin", "/", "users">>
           c == s \o path
<1>1. s \in Seq(Letters) /\ Len(s) = 3 /\ s[1] = "admin" /\ s[2] = "/" /\ s[3] = "users"
      /\ 1 \in 1..3 /\ 2 \in 1..3 /\ 3 \in 1..3
  BY DEF Letters
<1>2. Admin(path) = Api(c)
  BY DEF Admin
<1> HIDE DEF s
<1>3. IsConcat(Letters, c, s, path)
  BY <1>1, ConcatIs
<1> HIDE DEF c
<1>4. c \in Seq(Letters) /\ Len(c) = 3 + Len(path) /\ Len(path) \in Nat
  BY <1>1, <1>3 DEF IsConcat
<1>5. c[1] = "admin" /\ c[2] = "/" /\ c[3] = "users"
  BY <1>1, <1>3 DEF IsConcat
<1>6. \A j \in 1..Len(path) : c[3 + j] = path[j]
  BY <1>1, <1>3 DEF IsConcat
<1>7. ApiIs(Admin(path), c)
  BY <1>2, <1>4, ApiAt
<1>8. /\ Admin(path) \in Seq(Letters) /\ Len(Admin(path)) = 6 + Len(path)
      /\ Admin(path)[1] = "/" /\ Admin(path)[2] = "api" /\ Admin(path)[3] = "/"
  BY <1>4, <1>7 DEF ApiIs
<1>9. Admin(path)[4] = "admin" /\ Admin(path)[5] = "/" /\ Admin(path)[6] = "users"
  <2>1. /\ 1 \in 1..Len(c) /\ 2 \in 1..Len(c) /\ 3 \in 1..Len(c) /\ 3 + 1 = 4 /\ 3 + 2 = 5 /\ 3 + 3 = 6
    BY <1>4
  <2> QED BY <1>5, <1>7, <2>1 DEF ApiIs
<1>10. ASSUME NEW j \in 1..Len(path) PROVE Admin(path)[6 + j] = path[j]
  <2>1. 3 + j \in 1..Len(c) /\ 3 + (3 + j) = 6 + j
    BY <1>4
  <2> QED BY <1>6, <1>7, <2>1 DEF ApiIs
<1> QED BY <1>4, <1>8, <1>9, <1>10 DEF AdminIs

\* A URL that is as short as "/".
IsRoot(url) == url = <<"/">>

\* A URL with other tokens at the beginning, the k-th the first that differs.
PartsAt(pattern, url, k) ==
  /\ k \in Nat /\ k >= 1 /\ k <= Len(pattern) /\ k <= Len(url)
  /\ \A j \in 1..k - 1 : pattern[j] = url[j] /\ pattern[j] \notin Param
  /\ pattern[k] \notin Param /\ pattern[k] # url[k]

LEMMA PartedRule ==
  ASSUME NEW C, NEW pattern \in Seq(C), NEW U, NEW url \in Seq(U), NEW k, PartsAt(pattern, url, k)
  PROVE  MatchesOf(pattern, url) = {}
<1>0. Len(pattern) \in Nat /\ Len(url) \in Nat
  BY LenProperties
<1> DEFINE n == k - 1
<1>1. n \in Nat /\ n < Len(pattern) /\ n <= Len(url) /\ n + 1 = k
  BY <1>0 DEF PartsAt
<1>2. SameRun(pattern, 1, url, 1, n)
  <2>1. 1 + n <= Len(pattern) + 1 /\ 1 + n <= Len(url) + 1
    BY <1>0, <1>1
  <2>2. ASSUME NEW j \in 0..n - 1 PROVE pattern[1 + j] \notin Param /\ url[1 + j] = pattern[1 + j]
    <3>1. 1 + j \in 1..k - 1
      BY <1>0, <1>1
    <3> QED BY <3>1 DEF PartsAt
  <2> QED BY <2>1, <2>2 DEF SameRun
<1>3. pattern[n + 1] \notin Param /\ url[n + 1] # pattern[n + 1]
  BY <1>1 DEF PartsAt
<1> HIDE DEF n
<1> QED BY <1>1, <1>2, <1>3, Differs

\* "/" matches no longer URL.
LEMMA RootRule ==
  ASSUME NEW pattern, IsRoot(pattern), NEW U, NEW url \in Seq(U), Len(url) >= 2, url[1] = "/"
  PROVE  MatchesOf(pattern, url) = {}
<1>1. pattern \in Seq({"/"}) /\ Len(pattern) = 1 /\ pattern[1] = "/" /\ "/" \notin Param
  BY DEF IsRoot, Param
<1>2. Len(url) \in Nat /\ 1 \in 1..Len(pattern) /\ 1 \in 1..Len(url)
  BY <1>1, LenProperties
<1>3. Matching(pattern, url)[1][1] = Matching(pattern, url)[1 + 1][1 + 1]
  <2>1. SameRun(pattern, 1, url, 1, 1)
    <3>1. \A j \in 0..1 - 1 : 1 + j = 1
      OBVIOUS
    <3> QED BY <1>1, <1>2, <3>1 DEF SameRun
  <2>2. 1 \in 1..Len(pattern) + 1 /\ 1 \in 1..Len(url) + 1 /\ 1 \in Nat
    BY <1>1, <1>2
  <2> QED BY <1>1, <2>1, <2>2, LiteralRun
<1>4. \A pos \in 1..Len(url) : Matching(pattern, url)[Len(pattern) + 1][pos] = {}
  BY <1>1, MatchingAt
<1>5. Len(pattern) + 1 = 2 /\ 1 + 1 = 2 /\ 2 \in 1..Len(url)
  BY <1>1, <1>2
<1>6. Matching(pattern, url)[2][2] = {}
  BY <1>4, <1>5
<1>7. Matching(pattern, url)[1][1] = {}
  BY <1>3, <1>5, <1>6
<1> QED BY <1>7 DEF MatchesOf

\* A URL under /api/ that is written out.
SpellsApi(path, w) ==
  /\ Len(w) = 3 + Len(path) /\ w[1] = "/" /\ w[2] = "api" /\ w[3] = "/"
  /\ \A j \in 1..Len(path) : w[3 + j] = path[j]

LEMMA ApiSpelled == ASSUME NEW path \in Seq(Letters), NEW w \in Seq(Letters), SpellsApi(path, w) PROVE Api(path) = w
<1>1. ApiIs(Api(path), path)
  BY ApiAt
<1> DEFINE url == Api(path)
<1>2. /\ url \in Seq(Letters) /\ Len(path) \in Nat /\ Len(url) = 3 + Len(path)
      /\ url[1] = "/" /\ url[2] = "api" /\ url[3] = "/"
      /\ \A j \in 1..Len(path) : url[3 + j] = path[j]
  BY <1>1 DEF ApiIs
<1> HIDE DEF url
<1>3. ASSUME NEW j \in 1..Len(url) PROVE url[j] = w[j]
  <2>1. j = 1 \/ j = 2 \/ j = 3 \/ (j - 3 \in 1..Len(path) /\ 3 + (j - 3) = j)
    BY <1>2
  <2> QED BY <1>2, <2>1 DEF SpellsApi
<1>4. url = w
  BY <1>2, <1>3, SeqEqual DEF SpellsApi
<1> QED BY <1>4 DEF url

\* And one under /api/admin/users.
SpellsAdmin(path, w) ==
  /\ Len(w) = 6 + Len(path) /\ w[1] = "/" /\ w[2] = "api" /\ w[3] = "/" /\ w[4] = "admin" /\ w[5] = "/" /\ w[6] = "users"
  /\ \A j \in 1..Len(path) : w[6 + j] = path[j]

LEMMA AdminSpelled == ASSUME NEW path \in Seq(Letters), NEW w \in Seq(Letters), SpellsAdmin(path, w) PROVE Admin(path) = w
<1> DEFINE url == Admin(path)
<1>1. AdminIs(url, path)
  BY AdminAt
<1> HIDE DEF url
<1>2. ASSUME NEW j \in 1..Len(url) PROVE url[j] = w[j]
  <2>1. j = 1 \/ j = 2 \/ j = 3 \/ j = 4 \/ j = 5 \/ j = 6 \/ (j - 6 \in 1..Len(path) /\ 6 + (j - 6) = j)
    BY <1>1 DEF AdminIs
  <2> QED BY <1>1, <2>1 DEF AdminIs, SpellsAdmin
<1>3. url = w
  BY <1>1, <1>2, SeqEqual DEF AdminIs, SpellsAdmin
<1> QED BY <1>3 DEF url

\* URLs of so many tokens.
LEMMA Api3 ==
  ASSUME NEW t1 \in Letters, NEW t2 \in Letters, NEW t3 \in Letters
  PROVE  Api(<<t1, t2, t3>>) = <<"/", "api", "/", t1, t2, t3>>
<1> DEFINE p == <<t1, t2, t3>>
           w == <<"/", "api", "/", t1, t2, t3>>
<1>1. p \in Seq(Letters) /\ Len(p) = 3 /\ p[1] = t1 /\ p[2] = t2 /\ p[3] = t3
  OBVIOUS
<1>2. w \in Seq(Letters) /\ Len(w) = 6
  BY DEF Letters
<1>3. w[1] = "/" /\ w[2] = "api" /\ w[3] = "/" /\ w[4] = t1 /\ w[5] = t2 /\ w[6] = t3
  OBVIOUS
<1> HIDE DEF p, w
<1>4. \A j \in 1..Len(p) : w[3 + j] = p[j]
  <2>1. ASSUME NEW j \in 1..Len(p) PROVE (j = 1 /\ 3 + j = 4) \/ (j = 2 /\ 3 + j = 5) \/ (j = 3 /\ 3 + j = 6)
    BY <1>1
  <2> QED BY <1>1, <1>3, <2>1
<1>5. SpellsApi(p, w)
  BY <1>1, <1>2, <1>3, <1>4 DEF SpellsApi
<1>6. Api(p) = w
  BY <1>1, <1>2, <1>5, ApiSpelled
<1> QED BY <1>6 DEF p, w

LEMMA Api4 ==
  ASSUME NEW t1 \in Letters, NEW t2 \in Letters, NEW t3 \in Letters, NEW t4 \in Letters
  PROVE  Api(<<t1, t2, t3, t4>>) = <<"/", "api", "/", t1, t2, t3, t4>>
<1> DEFINE p == <<t1, t2, t3, t4>>
           w == <<"/", "api", "/", t1, t2, t3, t4>>
<1>1. p \in Seq(Letters) /\ Len(p) = 4 /\ p[1] = t1 /\ p[2] = t2 /\ p[3] = t3 /\ p[4] = t4
  OBVIOUS
<1>2. w \in Seq(Letters) /\ Len(w) = 7
  BY DEF Letters
<1>3. w[1] = "/" /\ w[2] = "api" /\ w[3] = "/" /\ w[4] = t1 /\ w[5] = t2 /\ w[6] = t3 /\ w[7] = t4
  OBVIOUS
<1> HIDE DEF p, w
<1>4. \A j \in 1..Len(p) : w[3 + j] = p[j]
  <2>1. ASSUME NEW j \in 1..Len(p) PROVE (j = 1 /\ 3 + j = 4) \/ (j = 2 /\ 3 + j = 5) \/ (j = 3 /\ 3 + j = 6) \/ (j = 4 /\ 3 + j = 7)
    BY <1>1
  <2> QED BY <1>1, <1>3, <2>1
<1>5. SpellsApi(p, w)
  BY <1>1, <1>2, <1>3, <1>4 DEF SpellsApi
<1>6. Api(p) = w
  BY <1>1, <1>2, <1>5, ApiSpelled
<1> QED BY <1>6 DEF p, w

LEMMA Api5 ==
  ASSUME NEW t1 \in Letters, NEW t2 \in Letters, NEW t3 \in Letters, NEW t4 \in Letters, NEW t5 \in Letters
  PROVE  Api(<<t1, t2, t3, t4, t5>>) = <<"/", "api", "/", t1, t2, t3, t4, t5>>
<1> DEFINE p == <<t1, t2, t3, t4, t5>>
           w == <<"/", "api", "/", t1, t2, t3, t4, t5>>
<1>1. p \in Seq(Letters) /\ Len(p) = 5 /\ p[1] = t1 /\ p[2] = t2 /\ p[3] = t3 /\ p[4] = t4 /\ p[5] = t5
  OBVIOUS
<1>2. w \in Seq(Letters) /\ Len(w) = 8
  BY DEF Letters
<1>3. w[1] = "/" /\ w[2] = "api" /\ w[3] = "/" /\ w[4] = t1 /\ w[5] = t2 /\ w[6] = t3 /\ w[7] = t4 /\ w[8] = t5
  OBVIOUS
<1> HIDE DEF p, w
<1>4. \A j \in 1..Len(p) : w[3 + j] = p[j]
  <2>1. ASSUME NEW j \in 1..Len(p) PROVE (j = 1 /\ 3 + j = 4) \/ (j = 2 /\ 3 + j = 5) \/ (j = 3 /\ 3 + j = 6) \/ (j = 4 /\ 3 + j = 7) \/ (j = 5 /\ 3 + j = 8)
    BY <1>1
  <2> QED BY <1>1, <1>3, <2>1
<1>5. SpellsApi(p, w)
  BY <1>1, <1>2, <1>3, <1>4 DEF SpellsApi
<1>6. Api(p) = w
  BY <1>1, <1>2, <1>5, ApiSpelled
<1> QED BY <1>6 DEF p, w

LEMMA Api6 ==
  ASSUME NEW t1 \in Letters, NEW t2 \in Letters, NEW t3 \in Letters, NEW t4 \in Letters, NEW t5 \in Letters, NEW t6 \in Letters
  PROVE  Api(<<t1, t2, t3, t4, t5, t6>>) = <<"/", "api", "/", t1, t2, t3, t4, t5, t6>>
<1> DEFINE p == <<t1, t2, t3, t4, t5, t6>>
           w == <<"/", "api", "/", t1, t2, t3, t4, t5, t6>>
<1>1. p \in Seq(Letters) /\ Len(p) = 6 /\ p[1] = t1 /\ p[2] = t2 /\ p[3] = t3 /\ p[4] = t4 /\ p[5] = t5 /\ p[6] = t6
  OBVIOUS
<1>2. w \in Seq(Letters) /\ Len(w) = 9
  BY DEF Letters
<1>3. w[1] = "/" /\ w[2] = "api" /\ w[3] = "/" /\ w[4] = t1 /\ w[5] = t2 /\ w[6] = t3 /\ w[7] = t4 /\ w[8] = t5 /\ w[9] = t6
  OBVIOUS
<1> HIDE DEF p, w
<1>4. \A j \in 1..Len(p) : w[3 + j] = p[j]
  <2>1. ASSUME NEW j \in 1..Len(p) PROVE (j = 1 /\ 3 + j = 4) \/ (j = 2 /\ 3 + j = 5) \/ (j = 3 /\ 3 + j = 6) \/ (j = 4 /\ 3 + j = 7) \/ (j = 5 /\ 3 + j = 8) \/ (j = 6 /\ 3 + j = 9)
    BY <1>1
  <2> QED BY <1>1, <1>3, <2>1
<1>5. SpellsApi(p, w)
  BY <1>1, <1>2, <1>3, <1>4 DEF SpellsApi
<1>6. Api(p) = w
  BY <1>1, <1>2, <1>5, ApiSpelled
<1> QED BY <1>6 DEF p, w

LEMMA Admin0 ==
  Admin(<<>>) = <<"/", "api", "/", "admin", "/", "users">>
<1> DEFINE p == <<>>
           w == <<"/", "api", "/", "admin", "/", "users">>
<1>1. p \in Seq(Letters) /\ Len(p) = 0
  OBVIOUS
<1>2. w \in Seq(Letters) /\ Len(w) = 6
  BY DEF Letters
<1>3. w[1] = "/" /\ w[2] = "api" /\ w[3] = "/" /\ w[4] = "admin" /\ w[5] = "/" /\ w[6] = "users"
  OBVIOUS
<1> HIDE DEF p, w
<1>4. \A j \in 1..Len(p) : w[6 + j] = p[j]
  BY <1>1
<1>5. SpellsAdmin(p, w)
  BY <1>1, <1>2, <1>3, <1>4 DEF SpellsAdmin
<1>6. Admin(p) = w
  BY <1>1, <1>2, <1>5, AdminSpelled
<1> QED BY <1>6 DEF p, w

LEMMA Admin2 ==
  ASSUME NEW t1 \in Letters, NEW t2 \in Letters
  PROVE  Admin(<<t1, t2>>) = <<"/", "api", "/", "admin", "/", "users", t1, t2>>
<1> DEFINE p == <<t1, t2>>
           w == <<"/", "api", "/", "admin", "/", "users", t1, t2>>
<1>1. p \in Seq(Letters) /\ Len(p) = 2 /\ p[1] = t1 /\ p[2] = t2
  OBVIOUS
<1>2. w \in Seq(Letters) /\ Len(w) = 8
  BY DEF Letters
<1>3. w[1] = "/" /\ w[2] = "api" /\ w[3] = "/" /\ w[4] = "admin" /\ w[5] = "/" /\ w[6] = "users" /\ w[7] = t1 /\ w[8] = t2
  OBVIOUS
<1> HIDE DEF p, w
<1>4. \A j \in 1..Len(p) : w[6 + j] = p[j]
  <2>1. ASSUME NEW j \in 1..Len(p) PROVE (j = 1 /\ 6 + j = 7) \/ (j = 2 /\ 6 + j = 8)
    BY <1>1
  <2> QED BY <1>1, <1>3, <2>1
<1>5. SpellsAdmin(p, w)
  BY <1>1, <1>2, <1>3, <1>4 DEF SpellsAdmin
<1>6. Admin(p) = w
  BY <1>1, <1>2, <1>5, AdminSpelled
<1> QED BY <1>6 DEF p, w

LEMMA Admin4 ==
  ASSUME NEW t1 \in Letters, NEW t2 \in Letters, NEW t3 \in Letters, NEW t4 \in Letters
  PROVE  Admin(<<t1, t2, t3, t4>>) = <<"/", "api", "/", "admin", "/", "users", t1, t2, t3, t4>>
<1> DEFINE p == <<t1, t2, t3, t4>>
           w == <<"/", "api", "/", "admin", "/", "users", t1, t2, t3, t4>>
<1>1. p \in Seq(Letters) /\ Len(p) = 4 /\ p[1] = t1 /\ p[2] = t2 /\ p[3] = t3 /\ p[4] = t4
  OBVIOUS
<1>2. w \in Seq(Letters) /\ Len(w) = 10
  BY DEF Letters
<1>3. w[1] = "/" /\ w[2] = "api" /\ w[3] = "/" /\ w[4] = "admin" /\ w[5] = "/" /\ w[6] = "users" /\ w[7] = t1 /\ w[8] = t2 /\ w[9] = t3 /\ w[10] = t4
  OBVIOUS
<1> HIDE DEF p, w
<1>4. \A j \in 1..Len(p) : w[6 + j] = p[j]
  <2>1. ASSUME NEW j \in 1..Len(p) PROVE (j = 1 /\ 6 + j = 7) \/ (j = 2 /\ 6 + j = 8) \/ (j = 3 /\ 6 + j = 9) \/ (j = 4 /\ 6 + j = 10)
    BY <1>1
  <2> QED BY <1>1, <1>3, <2>1
<1>5. SpellsAdmin(p, w)
  BY <1>1, <1>2, <1>3, <1>4 DEF SpellsAdmin
<1>6. Admin(p) = w
  BY <1>1, <1>2, <1>5, AdminSpelled
<1> QED BY <1>6 DEF p, w

-----------------------------------------------------------------------------
(* The rules of the application, by their methods. *)

LEMMA UrlsSpelled ==
  /\ Api(<<"auth", "/", "register">>) = <<"/", "api", "/", "auth", "/", "register">>
  /\ Api(<<"auth", "/", "log", "in">>) = <<"/", "api", "/", "auth", "/", "log", "in">>
  /\ Api(<<"project", "/", "create">>) = <<"/", "api", "/", "project", "/", "create">>
  /\ Api(<<"project", "s", "/", "<int>">>) = <<"/", "api", "/", "project", "s", "/", "<int>">>
  /\ Api(<<"project", "/", "<int>", "/", "settings">>) = <<"/", "api", "/", "project", "/", "<int>", "/", "settings">>
  /\ Api(<<"project", "/", "<int>">>) = <<"/", "api", "/", "project", "/", "<int>">>
  /\ Admin(<<"/", "<int>", "/", "role">>) = <<"/", "api", "/", "admin", "/", "users", "/", "<int>", "/", "role">>
  /\ Admin(<<"/", "<int>">>) = <<"/", "api", "/", "admin", "/", "users", "/", "<int>">>
  /\ Api(<<"project", "/", "info">>) = <<"/", "api", "/", "project", "/", "info">>
  /\ Api(<<"project", "s", "/", "<int>", "/", "settings">>) = <<"/", "api", "/", "project", "s", "/", "<int>", "/", "settings">>
  /\ Api(<<"stats", "/", "<int>">>) = <<"/", "api", "/", "stats", "/", "<int>">>
  /\ Api(<<"project", "/", "undefined">>) = <<"/", "api", "/", "project", "/", "undefined">>
  /\ Api(<<"project", "/", "undefined", "/", "settings">>) = <<"/", "api", "/", "project", "/", "undefined", "/", "settings">>
  /\ Admin(<<>>) = <<"/", "api", "/", "admin", "/", "users">>
<1>1. "/" \in Letters /\ "<int>" \in Letters /\ "auth" \in Letters /\ "create" \in Letters /\ "in" \in Letters /\ "info" \in Letters /\ "log" \in Letters
      /\ "project" \in Letters /\ "register" \in Letters /\ "role" \in Letters /\ "s" \in Letters /\ "settings" \in Letters /\ "stats" \in Letters /\ "undefined" \in Letters
  BY DEF Letters
<1>2. Api(<<"auth", "/", "register">>) = <<"/", "api", "/", "auth", "/", "register">>
  BY <1>1, Api3
<1>3. Api(<<"auth", "/", "log", "in">>) = <<"/", "api", "/", "auth", "/", "log", "in">>
  BY <1>1, Api4
<1>4. Api(<<"project", "/", "create">>) = <<"/", "api", "/", "project", "/", "create">>
  BY <1>1, Api3
<1>5. Api(<<"project", "s", "/", "<int>">>) = <<"/", "api", "/", "project", "s", "/", "<int>">>
  BY <1>1, Api4
<1>6. Api(<<"project", "/", "<int>", "/", "settings">>) = <<"/", "api", "/", "project", "/", "<int>", "/", "settings">>
  BY <1>1, Api5
<1>7. Api(<<"project", "/", "<int>">>) = <<"/", "api", "/", "project", "/", "<int>">>
  BY <1>1, Api3
<1>8. Admin(<<"/", "<int>", "/", "role">>) = <<"/", "api", "/", "admin", "/", "users", "/", "<int>", "/", "role">>
  BY <1>1, Admin4
<1>9. Admin(<<"/", "<int>">>) = <<"/", "api", "/", "admin", "/", "users", "/", "<int>">>
  BY <1>1, Admin2
<1>10. Api(<<"project", "/", "info">>) = <<"/", "api", "/", "project", "/", "info">>
  BY <1>1, Api3
<1>11. Api(<<"project", "s", "/", "<int>", "/", "settings">>) = <<"/", "api", "/", "project", "s", "/", "<int>", "/", "settings">>
  <2>1. "project" \in Letters /\ "s" \in Letters /\ "/" \in Letters /\ "<int>" \in Letters /\ "settings" \in Letters
    BY <1>1
  <2> QED BY <2>1, Api6
<1>12. Api(<<"stats", "/", "<int>">>) = <<"/", "api", "/", "stats", "/", "<int>">>
  BY <1>1, Api3
<1>13. Api(<<"project", "/", "undefined">>) = <<"/", "api", "/", "project", "/", "undefined">>
  BY <1>1, Api3
<1>14. Api(<<"project", "/", "undefined", "/", "settings">>) = <<"/", "api", "/", "project", "/", "undefined", "/", "settings">>
  BY <1>1, Api5
<1> QED BY <1>2, <1>3, <1>4, <1>5, <1>6, <1>7, <1>8, <1>9, <1>10, <1>11, <1>12, <1>13, <1>14, Admin0

PostRule(rule) ==
  /\ rule.methods = {"POST"}
  /\ \/ rule.url = <<"/", "log">> /\ rule.kind = "log"
     \/ rule.url = <<"/", "api", "/", "auth", "/", "register">> /\ rule.kind = "register"
     \/ rule.url = <<"/", "api", "/", "auth", "/", "log", "in">> /\ rule.kind = "login"
     \/ rule.url = <<"/", "api", "/", "project", "/", "create">> /\ rule.kind = "create"

PutRule(rule) ==
  /\ rule.methods = {"PUT"}
  /\ \/ rule.url = <<"/", "api", "/", "project", "/", "<int>", "/", "settings">> /\ rule.kind = "settings"
     \/ rule.url = <<"/", "api", "/", "admin", "/", "users", "/", "<int>", "/", "role">> /\ rule.kind = "role"

DeleteRule(rule) ==
  /\ rule.methods = {"DELETE"}
  /\ \/ rule.url = <<"/", "api", "/", "project", "/", "<int>">> /\ rule.kind = "delete"
     \/ rule.url = <<"/", "api", "/", "admin", "/", "users", "/", "<int>">> /\ rule.kind = "deactivate"

GetRule(rule) ==
  /\ rule.methods = {"GET"}
  /\ \/ rule.url = <<"/">> /\ rule.kind = "page"
     \/ rule.url = <<"/", "log", "in">> /\ rule.kind = "page"
     \/ rule.url = <<"/", "dashboard">> /\ rule.kind = "page"
     \/ rule.url = <<"/", "workspace">> /\ rule.kind = "page"
     \/ rule.url = <<"/", "admin">> /\ rule.kind = "page"
     \/ rule.url = <<"/", "analytics">> /\ rule.kind = "page"
     \/ rule.url = <<"/", "health">> /\ rule.kind = "constant"
     \/ rule.url = <<"/", "api", "/", "project", "s", "/", "<int>">> /\ rule.kind = "projects"
     \/ rule.url = <<"/", "api", "/", "admin", "/", "users">> /\ rule.kind = "users"
     \/ rule.url = <<"/", "query", "/", "advanced">> /\ rule.kind = "query"
     \/ rule.url = <<"/", "api", "/", "project", "/", "info">> /\ rule.kind = "constant"
     \/ rule.url = <<"/", "api", "/", "project", "s", "/", "<int>", "/", "settings">> /\ rule.kind = "constant"
     \/ rule.url = <<"/", "log", "s", "/", "<int>">> /\ rule.kind = "logs"
     \/ rule.url = <<"/", "api", "/", "stats", "/", "<int>">> /\ rule.kind = "stats"
     \/ rule.url = <<"/", "static", "/", "<path>">> /\ rule.kind = "static"

\* Every rule is among them.
AppRule(rule) == PostRule(rule) \/ PutRule(rule) \/ DeleteRule(rule) \/ GetRule(rule)

LEMMA RulesByMethod ==
  \A i \in DOMAIN AppRules : AppRule(AppRules[i])
<1>1. AppRule(Rule("GET", <<"/">>, "page"))
  BY DEF Rule, GetRule, AppRule
<1>2. AppRule(Rule("GET", <<"/", "log", "in">>, "page"))
  BY DEF Rule, GetRule, AppRule
<1>3. AppRule(Rule("GET", <<"/", "dashboard">>, "page"))
  BY DEF Rule, GetRule, AppRule
<1>4. AppRule(Rule("GET", <<"/", "workspace">>, "page"))
  BY DEF Rule, GetRule, AppRule
<1>5. AppRule(Rule("GET", <<"/", "admin">>, "page"))
  BY DEF Rule, GetRule, AppRule
<1>6. AppRule(Rule("GET", <<"/", "analytics">>, "page"))
  BY DEF Rule, GetRule, AppRule
<1>7. AppRule(Rule("GET", <<"/", "health">>, "constant"))
  BY DEF Rule, GetRule, AppRule
<1>8. AppRule(Rule("POST", <<"/", "log">>, "log"))
  BY DEF Rule, PostRule, AppRule
<1>9. AppRule(Rule("POST", Api(<<"auth", "/", "register">>), "register"))
  BY UrlsSpelled DEF Rule, PostRule, AppRule
<1>10. AppRule(Rule("POST", Api(<<"auth", "/", "log", "in">>), "login"))
  BY UrlsSpelled DEF Rule, PostRule, AppRule
<1>11. AppRule(Rule("POST", Api(<<"project", "/", "create">>), "create"))
  BY UrlsSpelled DEF Rule, PostRule, AppRule
<1>12. AppRule(Rule("GET", Api(<<"project", "s", "/", "<int>">>), "projects"))
  BY UrlsSpelled DEF Rule, GetRule, AppRule
<1>13. AppRule(Rule("PUT", Api(<<"project", "/", "<int>", "/", "settings">>), "settings"))
  BY UrlsSpelled DEF Rule, PutRule, AppRule
<1>14. AppRule(Rule("DELETE", Api(<<"project", "/", "<int>">>), "delete"))
  BY UrlsSpelled DEF Rule, DeleteRule, AppRule
<1>15. AppRule(Rule("GET", Admin(<<>>), "users"))
  BY UrlsSpelled DEF Rule, GetRule, AppRule
<1>16. AppRule(Rule("PUT", Admin(<<"/", "<int>", "/", "role">>), "role"))
  BY UrlsSpelled DEF Rule, PutRule, AppRule
<1>17. AppRule(Rule("DELETE", Admin(<<"/", "<int>">>), "deactivate"))
  BY UrlsSpelled DEF Rule, DeleteRule, AppRule
<1>18. AppRule(Rule("GET", <<"/", "query", "/", "advanced">>, "query"))
  BY DEF Rule, GetRule, AppRule
<1>19. AppRule(Rule("GET", Api(<<"project", "/", "info">>), "constant"))
  BY UrlsSpelled DEF Rule, GetRule, AppRule
<1>20. AppRule(Rule("GET", Api(<<"project", "s", "/", "<int>", "/", "settings">>), "constant"))
  BY UrlsSpelled DEF Rule, GetRule, AppRule
<1>21. AppRule(Rule("GET", <<"/", "log", "s", "/", "<int>">>, "logs"))
  BY DEF Rule, GetRule, AppRule
<1>22. AppRule(Rule("GET", Api(<<"stats", "/", "<int>">>), "stats"))
  BY UrlsSpelled DEF Rule, GetRule, AppRule
<1>23. AppRule(Rule("GET", <<"/", "static", "/", "<path>">>, "static"))
  BY DEF Rule, GetRule, AppRule
<1> QED
  BY <1>1, <1>2, <1>3, <1>4, <1>5, <1>6, <1>7, <1>8, <1>9, <1>10, <1>11, <1>12, <1>13, <1>14, <1>15, <1>16, <1>17, <1>18, <1>19, <1>20, <1>21, <1>22, <1>23, SMTT(60) DEF AppRules

\* There is a rule like this.
Declares(method, url, kind) ==
  \E i \in DOMAIN AppRules : AppRules[i].methods = {method} /\ AppRules[i].url = url /\ AppRules[i].kind = kind

LEMMA RulesDeclared ==
  /\ Declares("POST", Api(<<"auth", "/", "register">>), "register")
  /\ Declares("POST", Api(<<"auth", "/", "log", "in">>), "login")
  /\ Declares("POST", Api(<<"project", "/", "create">>), "create")
  /\ Declares("GET", Api(<<"project", "s", "/", "<int>">>), "projects")
  /\ Declares("PUT", Api(<<"project", "/", "<int>", "/", "settings">>), "settings")
  /\ Declares("DELETE", Api(<<"project", "/", "<int>">>), "delete")
  /\ Declares("GET", Admin(<<>>), "users")
  /\ Declares("PUT", Admin(<<"/", "<int>", "/", "role">>), "role")
  /\ Declares("DELETE", Admin(<<"/", "<int>">>), "deactivate")
  /\ Declares("GET", <<"/", "query", "/", "advanced">>, "query")
  /\ Declares("GET", <<"/", "log", "s", "/", "<int>">>, "logs")
  /\ Declares("GET", Api(<<"stats", "/", "<int>">>), "stats")
<1>1. ASSUME NEW i \in 1..23, NEW method, NEW url, NEW kind, AppRules[i] = Rule(method, url, kind)
      PROVE  Declares(method, url, kind)
  <2>1. i \in DOMAIN AppRules
    BY DEF AppRules
  <2>2. AppRules[i].methods = {method} /\ AppRules[i].url = url /\ AppRules[i].kind = kind
    BY <1>1 DEF Rule
  <2> QED BY <2>1, <2>2 DEF Declares
<1>2. Declares("POST", Api(<<"auth", "/", "register">>), "register")
  <2>1. AppRules[9] = Rule("POST", Api(<<"auth", "/", "register">>), "register")
    BY DEF AppRules
  <2>2. 9 \in 1..23
    OBVIOUS
  <2> QED BY <1>1, <2>1, <2>2, Zenon
<1>3. Declares("POST", Api(<<"auth", "/", "log", "in">>), "login")
  <2>1. AppRules[10] = Rule("POST", Api(<<"auth", "/", "log", "in">>), "login")
    BY DEF AppRules
  <2>2. 10 \in 1..23
    OBVIOUS
  <2> QED BY <1>1, <2>1, <2>2, Zenon
<1>4. Declares("POST", Api(<<"project", "/", "create">>), "create")
  <2>1. AppRules[11] = Rule("POST", Api(<<"project", "/", "create">>), "create")
    BY DEF AppRules
  <2>2. 11 \in 1..23
    OBVIOUS
  <2> QED BY <1>1, <2>1, <2>2, Zenon
<1>5. Declares("GET", Api(<<"project", "s", "/", "<int>">>), "projects")
  <2>1. AppRules[12] = Rule("GET", Api(<<"project", "s", "/", "<int>">>), "projects")
    BY DEF AppRules
  <2>2. 12 \in 1..23
    OBVIOUS
  <2> QED BY <1>1, <2>1, <2>2, Zenon
<1>13. Declares("PUT", Api(<<"project", "/", "<int>", "/", "settings">>), "settings")
  <2>1. AppRules[13] = Rule("PUT", Api(<<"project", "/", "<int>", "/", "settings">>), "settings")
    BY DEF AppRules
  <2>2. 13 \in 1..23
    OBVIOUS
  <2> QED BY <1>1, <2>1, <2>2, Zenon
<1>6. Declares("DELETE", Api(<<"project", "/", "<int>">>), "delete")
  <2>1. AppRules[14] = Rule("DELETE", Api(<<"project", "/", "<int>">>), "delete")
    BY DEF AppRules
  <2>2. 14 \in 1..23
    OBVIOUS
  <2> QED BY <1>1, <2>1, <2>2, Zenon
<1>7. Declares("GET", Admin(<<>>), "users")
  <2>1. AppRules[15] = Rule("GET", Admin(<<>>), "users")
    BY DEF AppRules
  <2>2. 15 \in 1..23
    OBVIOUS
  <2> QED BY <1>1, <2>1, <2>2, Zenon
<1>8. Declares("PUT", Admin(<<"/", "<int>", "/", "role">>), "role")
  <2>1. AppRules[16] = Rule("PUT", Admin(<<"/", "<int>", "/", "role">>), "role")
    BY DEF AppRules
  <2>2. 16 \in 1..23
    OBVIOUS
  <2> QED BY <1>1, <2>1, <2>2, Zenon
<1>9. Declares("DELETE", Admin(<<"/", "<int>">>), "deactivate")
  <2>1. AppRules[17] = Rule("DELETE", Admin(<<"/", "<int>">>), "deactivate")
    BY DEF AppRules
  <2>2. 17 \in 1..23
    OBVIOUS
  <2> QED BY <1>1, <2>1, <2>2, Zenon
<1>10. Declares("GET", <<"/", "query", "/", "advanced">>, "query")
  <2>1. AppRules[18] = Rule("GET", <<"/", "query", "/", "advanced">>, "query")
    BY DEF AppRules
  <2>2. 18 \in 1..23
    OBVIOUS
  <2> QED BY <1>1, <2>1, <2>2, Zenon
<1>11. Declares("GET", <<"/", "log", "s", "/", "<int>">>, "logs")
  <2>1. AppRules[21] = Rule("GET", <<"/", "log", "s", "/", "<int>">>, "logs")
    BY DEF AppRules
  <2>2. 21 \in 1..23
    OBVIOUS
  <2> QED BY <1>1, <2>1, <2>2, Zenon
<1>12. Declares("GET", Api(<<"stats", "/", "<int>">>), "stats")
  <2>1. AppRules[22] = Rule("GET", Api(<<"stats", "/", "<int>">>), "stats")
    BY DEF AppRules
  <2>2. 22 \in 1..23
    OBVIOUS
  <2> QED BY <1>1, <2>1, <2>2, Zenon
<1> QED BY <1>2, <1>3, <1>4, <1>5, <1>6, <1>7, <1>8, <1>9, <1>10, <1>11, <1>12, <1>13

-----------------------------------------------------------------------------
(* The handler of a request. *)

\* No rule of the application ends with a slash but "/".
LEMMA NoLastSlash == ASSUME NEW rule, AppRule(rule) PROVE WithoutSlash(rule.url) = rule.url
<1> DEFINE EndsOpen(url) == Len(url) = 1 \/ url[Len(url)] # "/"
<1>1. ASSUME NEW url, EndsOpen(url) PROVE WithoutSlash(url) = url
  BY <1>1 DEF WithoutSlash, Last
<1>2. CASE PostRule(rule)
  <2>1. EndsOpen(rule.url)
    <3>1. (Len(rule.url) = 2 /\ rule.url[2] # "/") \/ (Len(rule.url) = 6 /\ rule.url[6] # "/") \/ (Len(rule.url) = 7 /\ rule.url[7] # "/")
      BY <1>2 DEF PostRule
    <3> QED BY <3>1
  <2> QED BY <1>1, <2>1
<1>3. CASE PutRule(rule)
  <2>1. EndsOpen(rule.url)
    <3>1. (Len(rule.url) = 8 /\ rule.url[8] # "/") \/ (Len(rule.url) = 10 /\ rule.url[10] # "/")
      BY <1>3 DEF PutRule
    <3> QED BY <3>1
  <2> QED BY <1>1, <2>1
<1>4. CASE DeleteRule(rule)
  <2>1. EndsOpen(rule.url)
    <3>1. (Len(rule.url) = 6 /\ rule.url[6] # "/") \/ (Len(rule.url) = 8 /\ rule.url[8] # "/")
      BY <1>4 DEF DeleteRule
    <3> QED BY <3>1
  <2> QED BY <1>1, <2>1
<1>5. CASE GetRule(rule)
  <2>1. EndsOpen(rule.url)
    <3>1. Len(rule.url) = 1 \/ (Len(rule.url) = 2 /\ rule.url[2] # "/") \/ (Len(rule.url) = 3 /\ rule.url[3] # "/") \/ (Len(rule.url) = 4 /\ rule.url[4] # "/")
          \/ (Len(rule.url) = 5 /\ rule.url[5] # "/") \/ (Len(rule.url) = 6 /\ rule.url[6] # "/") \/ (Len(rule.url) = 7 /\ rule.url[7] # "/") \/ (Len(rule.url) = 9 /\ rule.url[9] # "/")
      BY <1>5 DEF GetRule
    <3> QED BY <3>1
  <2> QED BY <1>1, <2>1
<1> QED BY <1>2, <1>3, <1>4, <1>5 DEF AppRule

\* A rule of the method that matches the URL.
Suits(i, m, url) == m \in AppRules[i].methods /\ MatchesOf(AppRules[i].url, url) # {}

\* What a lookup finds is a rule that matches; it finds nothing only where no rule does.
LEMMA LookupSuits ==
  ASSUME RouterInv, Serving, NEW m \in Method, NEW U, NEW url \in Seq(U)
  PROVE  /\ Lookup(router, url)[m].rule_index = 0 => \A i \in DOMAIN AppRules : ~Suits(i, m, url)
         /\ Lookup(router, url)[m].rule_index # RULE_SPECIAL_REDIRECT_SLASH
<1> DEFINE found == Lookup(router, url)[m]
           list == router[m].rules
<1>1. rules = AppRules /\ rules \in Tables /\ phase = "serving"
  BY DEF Serving, RouterInv
<1>2. Listed(rules, list, m, Len(rules)) /\ Len(list) \in Nat /\ DOMAIN rules = 1..Len(rules)
  <2>1. Listed(rules, list, m, Len(rules))
    BY <1>1 DEF RouterInv, Compact
  <2> QED BY <1>1, <2>1, LenProperties, RulesProps DEF Listed
<1>3. PICK trie : Holds(rules, trie, m, Len(rules)) /\ router[m].trie = optimize(trie)
  BY <1>1 DEF RouterInv, Compact
<1>4. PICK path : IsTrie(trie, path, TokensOf(rules)) /\ Entries(trie, path) = DeclaredBy(rules, m, Len(rules))
  BY <1>3 DEF Holds
<1>5. found = find(optimize(trie), url)
  BY <1>3 DEF Lookup
<1>6. BestIn(MatchesAmong(DeclaredBy(rules, m, Len(rules)), url), found)
  BY <1>4, <1>5, FindProps
<1> HIDE DEF found, list
<1>7. ASSUME NEW i \in DOMAIN rules, m \in rules[i].methods
      PROVE  /\ Declared(rules, m, i) = {<<rules[i].url, IndexOf(rules, m, i)>>}
             /\ IndexOf(rules, m, i) >= 2 /\ IndexOf(rules, m, i) \in Nat
  <2>1. WithoutSlash(rules[i].url) = rules[i].url
    BY <1>1, NoLastSlash, RulesByMethod
  <2>2. IndexOf(rules, m, i) - 1 \in 1..Len(list)
    BY <1>2, <1>7 DEF Listed
  <2>3. IndexOf(rules, m, i) \in Nat
    <3>1. IsFiniteSet({j \in 1..i : m \in rules[j].methods})
      <4>1. IsFiniteSet(1..i) /\ {j \in 1..i : m \in rules[j].methods} \in SUBSET (1..i)
        BY <1>2, FS_Interval
      <4> QED BY <4>1, FS_Subset
    <3>2. Cardinality({j \in 1..i : m \in rules[j].methods}) \in Nat
      BY <3>1, FS_CardinalityType
    <3> QED BY <3>2 DEF IndexOf
  <2> QED BY <1>2, <2>1, <2>2, <2>3 DEF Declared
<1>8. found.rule_index # RULE_SPECIAL_REDIRECT_SLASH
  <2> SUFFICES ASSUME found.rule_index = 1 PROVE FALSE
    BY DEF RULE_SPECIAL_REDIRECT_SLASH
  <2>1. found \in MatchesAmong(DeclaredBy(rules, m, Len(rules)), url)
    BY <1>6 DEF BestIn
  <2>2. PICK d \in DeclaredBy(rules, m, Len(rules)) :
          found \in {[rule_index |-> d[2], params |-> p] : p \in MatchesOf(d[1], url)}
    BY <2>1 DEF MatchesAmong
  <2>3. found.rule_index = d[2]
    BY <2>2
  <2>4. PICK i \in {j \in 1..Len(rules) : m \in rules[j].methods} : d \in Declared(rules, m, i)
    BY <2>2 DEF DeclaredBy
  <2>5. d = <<rules[i].url, IndexOf(rules, m, i)>> /\ IndexOf(rules, m, i) >= 2 /\ IndexOf(rules, m, i) \in Nat
    BY <1>2, <1>7, <2>4
  <2> QED BY <2>3, <2>5
<1>9. ASSUME NEW i \in DOMAIN AppRules, Suits(i, m, url) PROVE found.rule_index # 0
  <2>1. PICK p : p \in MatchesOf(rules[i].url, url)
    BY <1>1, <1>9 DEF Suits
  <2>2. m \in rules[i].methods /\ i \in 1..Len(rules)
    BY <1>1, <1>2, <1>9 DEF Suits
  <2>3. <<rules[i].url, IndexOf(rules, m, i)>> \in DeclaredBy(rules, m, Len(rules))
    BY <2>2, <1>2, <1>7 DEF DeclaredBy
  <2>4. [rule_index |-> IndexOf(rules, m, i), params |-> p] \in MatchesAmong(DeclaredBy(rules, m, Len(rules)), url)
    <3> DEFINE d == <<rules[i].url, IndexOf(rules, m, i)>>
               those == {[rule_index |-> d[2], params |-> q] : q \in MatchesOf(d[1], url)}
    <3>1. d[1] = rules[i].url /\ d[2] = IndexOf(rules, m, i)
      OBVIOUS
    <3>2. [rule_index |-> IndexOf(rules, m, i), params |-> p] \in those
      BY <2>1, <3>1
    <3> QED BY <2>3, <3>2, Zenon DEF MatchesAmong
  <2> QED BY <1>6, <2>4 DEF BestIn
<1> QED BY <1>8, <1>9 DEF found

\* A request goes to the handler of a rule that matches, or there is no such rule.
RoutedTo(m, url, found) ==
  \/ found.handler = None /\ \A i \in DOMAIN AppRules : ~Suits(i, m, url)
  \/ \E i \in DOMAIN AppRules : /\ Suits(i, m, url) /\ found.handler = AppRules[i].kind
                                /\ found.params \in MatchesOf(AppRules[i].url, url)

LEMMA RequestRouted ==
  ASSUME RouterInv, Serving, NEW r, r.method \in {"GET", "POST", "PUT", "DELETE"}, NEW U, PathOf(r) \in Seq(U)
  PROVE  RoutedTo(r.method, PathOf(r), Routed(r))
<1> DEFINE url == PathOf(r)
           m == r.method
           looked == Lookup(router, url)
           first == Initially(router, m, looked, url, NewResponse)
<1>1. Routed(r) = HandlerOf(first)
  BY DEF Routed, handle_initial, PathOf
<1>2. m \in Method /\ m \notin {"HEAD", "OPTIONS"} /\ rules = AppRules /\ phase = "serving"
  BY DEF Method, Serving
<1>3. RuleFor(rules, router[m].rules, m, looked[m], url)
  BY <1>2, LookupProps
<1>4. /\ looked[m].rule_index = 0 => \A i \in DOMAIN AppRules : ~Suits(i, m, url)
      /\ looked[m].rule_index # RULE_SPECIAL_REDIRECT_SLASH
  BY <1>2, LookupSuits
<1>5. PICK methods : first = InitialOther(looked[m], m, methods, NewResponse)
  BY <1>2 DEF Initially
<1> HIDE DEF url, looked, first, m
<1>6. CASE looked[m].rule_index = 0
  <2>1. first.found = [NotFound EXCEPT !.catch_all = TRUE]
    BY <1>5, <1>6 DEF InitialOther, Initial
  <2>2. first.found.rule_index = 0
    BY <2>1 DEF NotFound, Found, NoRule
  <2>3. Routed(r).handler = None
    BY <1>1, <2>2 DEF HandlerOf
  <2> QED BY <1>4, <1>6, <2>3 DEF RoutedTo, url, m
<1>7. CASE looked[m].rule_index # 0
  <2>1. /\ first.found.method = m /\ first.found.params = looked[m].params
        /\ first.found.rule_index = looked[m].rule_index
    BY <1>5, <1>7 DEF InitialOther, Initial, Found
  <2>2. PICK i \in DOMAIN rules :
          /\ m \in rules[i].methods /\ router[m].rules[looked[m].rule_index - 1] = rules[i]
          /\ looked[m].params \in MatchesOf(rules[i].url, url)
    BY <1>3, <1>4, <1>7 DEF RuleFor
  <2>3. Routed(r) = [handler |-> router[m].rules[looked[m].rule_index - 1].kind,
                     params |-> looked[m].params, code |-> 200]
    BY <1>1, <1>4, <1>7, <2>1 DEF HandlerOf
  <2>4. Routed(r).handler = rules[i].kind /\ Routed(r).params \in MatchesOf(rules[i].url, url)
    BY <2>2, <2>3
  <2>5. i \in DOMAIN AppRules /\ Suits(i, m, url)
    BY <1>2, <2>2 DEF Suits
  <2>6. Routed(r).handler = AppRules[i].kind /\ Routed(r).params \in MatchesOf(AppRules[i].url, url)
    BY <1>2, <2>4, Zenon
  <2> QED BY <2>5, <2>6 DEF RoutedTo, url, m
<1> QED BY <1>6, <1>7

\* Only rules of this kind suit, with these parameters, and there is one.
OnlyRule(m, url, kind, p) ==
  /\ \A i \in DOMAIN AppRules : Suits(i, m, url) => AppRules[i].kind = kind /\ MatchesOf(AppRules[i].url, url) = {p}
  /\ \E i \in DOMAIN AppRules : Suits(i, m, url)

LEMMA OnlyRouted ==
  ASSUME RouterInv, Serving, NEW r, r.method \in {"GET", "POST", "PUT", "DELETE"}, NEW U, PathOf(r) \in Seq(U),
         NEW kind, NEW p, OnlyRule(r.method, PathOf(r), kind, p)
  PROVE  Routed(r).handler = kind /\ Routed(r).params = p
<1>1. RoutedTo(r.method, PathOf(r), Routed(r))
  BY RequestRouted
<1> QED BY <1>1 DEF RoutedTo, OnlyRule

-----------------------------------------------------------------------------
(* Rules that do not match, by the first token that differs. *)

Parts2(p, u) ==
  /\ Len(p) >= 2 /\ Len(u) >= 2 /\ p[1] = "/" /\ u[1] = "/" /\ p[2] \notin Param /\ p[2] # u[2]
Parts3(p, u) ==
  /\ Len(p) >= 3 /\ Len(u) >= 3 /\ p[1] = "/" /\ u[1] = "/" /\ p[2] = "log" /\ u[2] = "log"
  /\ p[3] \notin Param /\ p[3] # u[3]
BothApi(p, u) ==
  p[1] = "/" /\ u[1] = "/" /\ p[2] = "api" /\ u[2] = "api" /\ p[3] = "/" /\ u[3] = "/"
Parts4(p, u) ==
  /\ Len(p) >= 4 /\ Len(u) >= 4 /\ BothApi(p, u) /\ p[4] \notin Param /\ p[4] # u[4]
Parts5(p, u) ==
  /\ Len(p) >= 5 /\ Len(u) >= 5 /\ BothApi(p, u) /\ p[4] = "project" /\ u[4] = "project"
  /\ p[5] \notin Param /\ p[5] # u[5]
Parts6(p, u) ==
  /\ Len(p) >= 6 /\ Len(u) >= 6 /\ BothApi(p, u) /\ p[4] = "auth" /\ u[4] = "auth" /\ p[5] = "/" /\ u[5] = "/"
  /\ p[6] \notin Param /\ p[6] # u[6]
Parts(p, u) == Parts2(p, u) \/ Parts3(p, u) \/ Parts4(p, u) \/ Parts5(p, u) \/ Parts6(p, u)

LEMMA PartsNone ==
  ASSUME NEW p \in Seq(Letters), NEW u \in Seq(Letters), Parts(p, u) PROVE MatchesOf(p, u) = {}
<1>0. /\ "/" \notin Param /\ "log" \notin Param /\ "api" \notin Param /\ "project" \notin Param /\ "auth" \notin Param
      /\ Len(p) \in Nat /\ Len(u) \in Nat
  BY LenProperties DEF Param
<1>1. CASE Parts2(p, u)
  <2>1. \A j \in 1..2 - 1 : j = 1
    OBVIOUS
  <2>2. PartsAt(p, u, 2)
    BY <1>0, <1>1, <2>1 DEF Parts2, PartsAt
  <2> QED BY <2>2, PartedRule
<1>2. CASE Parts3(p, u)
  <2>1. \A j \in 1..3 - 1 : j = 1 \/ j = 2
    OBVIOUS
  <2>2. PartsAt(p, u, 3)
    BY <1>0, <1>2, <2>1 DEF Parts3, PartsAt
  <2> QED BY <2>2, PartedRule
<1>3. CASE Parts4(p, u)
  <2>1. \A j \in 1..4 - 1 : j = 1 \/ j = 2 \/ j = 3
    OBVIOUS
  <2>2. PartsAt(p, u, 4)
    BY <1>0, <1>3, <2>1 DEF Parts4, BothApi, PartsAt
  <2> QED BY <2>2, PartedRule
<1>4. CASE Parts5(p, u)
  <2>1. \A j \in 1..5 - 1 : j = 1 \/ j = 2 \/ j = 3 \/ j = 4
    OBVIOUS
  <2>2. PartsAt(p, u, 5)
    BY <1>0, <1>4, <2>1 DEF Parts5, BothApi, PartsAt
  <2> QED BY <2>2, PartedRule
<1>5. CASE Parts6(p, u)
  <2>1. \A j \in 1..6 - 1 : j = 1 \/ j = 2 \/ j = 3 \/ j = 4 \/ j = 5
    OBVIOUS
  <2>2. PartsAt(p, u, 6)
    BY <1>0, <1>5, <2>1 DEF Parts6, BothApi, PartsAt
  <2> QED BY <2>2, PartedRule
<1> QED BY <1>1, <1>2, <1>3, <1>4, <1>5 DEF Parts

\* A URL that ends with a number, and its rule.
EndsWith(pattern, url, t) ==
  /\ Len(pattern) >= 1 /\ pattern[Len(pattern)] = "<int>" /\ IsDigits(t) /\ Len(url) = Len(pattern) - 1 + Len(t)
  /\ \A j \in 1..Len(pattern) - 1 : pattern[j] \notin Param /\ url[j] = pattern[j]
  /\ \A j \in 1..Len(t) : url[Len(pattern) - 1 + j] = t[j]

LEMMA EndFills ==
  ASSUME NEW pattern \in Seq(Letters), NEW url \in Seq(Letters), NEW t, EndsWith(pattern, url, t)
  PROVE  MatchesOf(pattern, url) = {IntParam(t)}
<1> DEFINE k == Len(pattern)
<1>0. k \in Nat /\ Len(url) \in Nat /\ Len(t) \in Nat /\ k >= 1 /\ Len(url) = k - 1 + Len(t)
  BY LenProperties DEF EndsWith, IsDigits
<1>1. SameRun(pattern, 1, url, 1, k - 1)
  <2>1. \A j \in 0..(k - 1) - 1 : 1 + j \in 1..k - 1
    BY <1>0
  <2> QED BY <1>0, <2>1 DEF SameRun, EndsWith
<1>2. NumberAt(url, k, t)
  BY <1>0 DEF NumberAt, EndsWith
<1>3. SameRun(pattern, k + 1, url, k + Len(t), k - k)
  <2>1. \A j \in 0..(k - k) - 1 : FALSE
    BY <1>0
  <2> QED BY <1>0, <2>1 DEF SameRun
<1>4. Fills(pattern, k, url, t)
  BY <1>0, <1>1, <1>2, <1>3 DEF Fills, EndsWith
<1> QED BY <1>4, MatchesFilled

\* The rules of a method.
LEMMA RuleOfMethod ==
  ASSUME NEW i \in DOMAIN AppRules
  PROVE  /\ "POST" \in AppRules[i].methods => PostRule(AppRules[i])
         /\ "PUT" \in AppRules[i].methods => PutRule(AppRules[i])
         /\ "DELETE" \in AppRules[i].methods => DeleteRule(AppRules[i])
         /\ "GET" \in AppRules[i].methods => GetRule(AppRules[i])
<1>1. AppRule(AppRules[i])
  BY RulesByMethod
<1> DEFINE rule == AppRules[i]
<1>2. /\ PostRule(rule) => rule.methods = {"POST"}
      /\ PutRule(rule) => rule.methods = {"PUT"}
      /\ DeleteRule(rule) => rule.methods = {"DELETE"}
      /\ GetRule(rule) => rule.methods = {"GET"}
  <2> HIDE DEF rule
  <2> QED BY DEF PostRule, PutRule, DeleteRule, GetRule
<1> HIDE DEF rule
<1>3. AppRule(rule)
  BY <1>1 DEF rule
<1>4. /\ "POST" \in rule.methods => PostRule(rule)
      /\ "PUT" \in rule.methods => PutRule(rule)
      /\ "DELETE" \in rule.methods => DeleteRule(rule)
      /\ "GET" \in rule.methods => GetRule(rule)
  BY <1>2, <1>3 DEF AppRule
<1> QED BY <1>4 DEF rule

\* A rule suits only where its URL does not part from that of the request.
LEMMA SuitsNotParted ==
  ASSUME NEW i \in DOMAIN AppRules, NEW m, NEW url \in Seq(Letters), Suits(i, m, url), AppRules[i].url \in Seq(Letters)
  PROVE  ~Parts(AppRules[i].url, url)
BY PartsNone DEF Suits

-----------------------------------------------------------------------------
(* The routes of the pages that post. *)

\* POST /api/auth/register goes to its handler.
LEMMA RegisterRoute == OnlyRule("POST", Api(<<"auth", "/", "register">>), "register", <<>>) /\ Api(<<"auth", "/", "register">>) \in Seq(Letters)
<1> DEFINE url == <<"/", "api", "/", "auth", "/", "register">>
<1>1. /\ url \in Seq(Letters) /\ Len(url) = 6
      /\ url[1] = "/" /\ url[2] = "api" /\ url[3] = "/" /\ url[4] = "auth" /\ url[5] = "/" /\ url[6] = "register"
  BY DEF Letters
<1>2. Api(<<"auth", "/", "register">>) = url
  BY UrlsSpelled
<1> HIDE DEF url
<1>3. MatchesOf(url, url) = {<<>>}
  <2>1. ASSUME NEW j \in 1..Len(url) PROVE url[j] \notin Param
    <3>1. j = 1 \/ j = 2 \/ j = 3 \/ j = 4 \/ j = 5 \/ j = 6
      BY <1>1
    <3> QED BY <1>1, <3>1 DEF Param
  <2> QED BY <1>1, <2>1, MatchesItself
<1>4. ASSUME NEW i \in DOMAIN AppRules, Suits(i, "POST", url)
      PROVE  AppRules[i].kind = "register" /\ MatchesOf(AppRules[i].url, url) = {<<>>}
  <2>1. PostRule(AppRules[i])
    BY <1>4, RuleOfMethod DEF Suits
  <2> DEFINE p == AppRules[i].url
  <2>2. p \in Seq(Letters) => ~Parts(p, url)
    BY <1>1, <1>4, SuitsNotParted
  <2>3. \/ p = url /\ AppRules[i].kind = "register"
        \/ p = <<"/", "log">>
        \/ p = <<"/", "api", "/", "auth", "/", "log", "in">>
        \/ p = <<"/", "api", "/", "project", "/", "create">>
    BY <2>1 DEF PostRule, url
  <2> HIDE DEF p
  <2>4. CASE p = <<"/", "log">>
    <3>1. p \in Seq(Letters) /\ Len(p) = 2
      BY <2>4 DEF Letters
    <3>2. p[1] = "/" /\ p[2] = "log"
      BY <2>4
    <3>3. Parts2(p, url)
      BY <1>1, <3>1, <3>2 DEF Parts2, Param
    <3> QED BY <2>2, <3>1, <3>3 DEF Parts
  <2>5. CASE p = <<"/", "api", "/", "auth", "/", "log", "in">>
    <3>1. p \in Seq(Letters) /\ Len(p) = 7
      BY <2>5 DEF Letters
    <3>2. p[1] = "/" /\ p[2] = "api" /\ p[3] = "/" /\ p[4] = "auth" /\ p[5] = "/" /\ p[6] = "log"
      BY <2>5
    <3>3. Parts6(p, url)
      BY <1>1, <3>1, <3>2 DEF Parts6, BothApi, Param
    <3> QED BY <2>2, <3>1, <3>3 DEF Parts
  <2>6. CASE p = <<"/", "api", "/", "project", "/", "create">>
    <3>1. p \in Seq(Letters) /\ Len(p) = 6
      BY <2>6 DEF Letters
    <3>2. p[1] = "/" /\ p[2] = "api" /\ p[3] = "/" /\ p[4] = "project"
      BY <2>6
    <3>3. Parts4(p, url)
      BY <1>1, <3>1, <3>2 DEF Parts4, BothApi, Param
    <3> QED BY <2>2, <3>1, <3>3 DEF Parts
  <2>7. CASE p = url /\ AppRules[i].kind = "register"
    BY <1>3, <2>7 DEF p
  <2> QED BY <2>3, <2>4, <2>5, <2>6, <2>7
<1>5. \E i \in DOMAIN AppRules : Suits(i, "POST", url)
  <2>1. PICK i \in DOMAIN AppRules : AppRules[i].methods = {"POST"} /\ AppRules[i].url = url
    BY <1>2, RulesDeclared DEF Declares
  <2> QED BY <1>3, <2>1 DEF Suits
<1>6. OnlyRule("POST", url, "register", <<>>)
  BY <1>4, <1>5 DEF OnlyRule
<1> QED BY <1>1, <1>2, <1>6

\* POST /api/auth/login goes to its handler.
LEMMA LoginRoute == OnlyRule("POST", Api(<<"auth", "/", "log", "in">>), "login", <<>>) /\ Api(<<"auth", "/", "log", "in">>) \in Seq(Letters)
<1> DEFINE url == <<"/", "api", "/", "auth", "/", "log", "in">>
<1>1. /\ url \in Seq(Letters) /\ Len(url) = 7
      /\ url[1] = "/" /\ url[2] = "api" /\ url[3] = "/" /\ url[4] = "auth" /\ url[5] = "/" /\ url[6] = "log" /\ url[7] = "in"
  BY DEF Letters
<1>2. Api(<<"auth", "/", "log", "in">>) = url
  BY UrlsSpelled
<1> HIDE DEF url
<1>3. MatchesOf(url, url) = {<<>>}
  <2>1. ASSUME NEW j \in 1..Len(url) PROVE url[j] \notin Param
    <3>1. j = 1 \/ j = 2 \/ j = 3 \/ j = 4 \/ j = 5 \/ j = 6 \/ j = 7
      BY <1>1
    <3> QED BY <1>1, <3>1 DEF Param
  <2> QED BY <1>1, <2>1, MatchesItself
<1>4. ASSUME NEW i \in DOMAIN AppRules, Suits(i, "POST", url)
      PROVE  AppRules[i].kind = "login" /\ MatchesOf(AppRules[i].url, url) = {<<>>}
  <2>1. PostRule(AppRules[i])
    BY <1>4, RuleOfMethod DEF Suits
  <2> DEFINE p == AppRules[i].url
  <2>2. p \in Seq(Letters) => ~Parts(p, url)
    BY <1>1, <1>4, SuitsNotParted
  <2>3. \/ p = url /\ AppRules[i].kind = "login"
        \/ p = <<"/", "log">>
        \/ p = <<"/", "api", "/", "auth", "/", "register">>
        \/ p = <<"/", "api", "/", "project", "/", "create">>
    BY <2>1 DEF PostRule, url
  <2> HIDE DEF p
  <2>4. CASE p = <<"/", "log">>
    <3>1. p \in Seq(Letters) /\ Len(p) = 2
      BY <2>4 DEF Letters
    <3>2. p[1] = "/" /\ p[2] = "log"
      BY <2>4
    <3>3. Parts2(p, url)
      BY <1>1, <3>1, <3>2 DEF Parts2, Param
    <3> QED BY <2>2, <3>1, <3>3 DEF Parts
  <2>5. CASE p = <<"/", "api", "/", "auth", "/", "register">>
    <3>1. p \in Seq(Letters) /\ Len(p) = 6
      BY <2>5 DEF Letters
    <3>2. p[1] = "/" /\ p[2] = "api" /\ p[3] = "/" /\ p[4] = "auth" /\ p[5] = "/" /\ p[6] = "register"
      BY <2>5
    <3>3. Parts6(p, url)
      BY <1>1, <3>1, <3>2 DEF Parts6, BothApi, Param
    <3> QED BY <2>2, <3>1, <3>3 DEF Parts
  <2>6. CASE p = <<"/", "api", "/", "project", "/", "create">>
    <3>1. p \in Seq(Letters) /\ Len(p) = 6
      BY <2>6 DEF Letters
    <3>2. p[1] = "/" /\ p[2] = "api" /\ p[3] = "/" /\ p[4] = "project"
      BY <2>6
    <3>3. Parts4(p, url)
      BY <1>1, <3>1, <3>2 DEF Parts4, BothApi, Param
    <3> QED BY <2>2, <3>1, <3>3 DEF Parts
  <2>7. CASE p = url /\ AppRules[i].kind = "login"
    BY <1>3, <2>7 DEF p
  <2> QED BY <2>3, <2>4, <2>5, <2>6, <2>7
<1>5. \E i \in DOMAIN AppRules : Suits(i, "POST", url)
  <2>1. PICK i \in DOMAIN AppRules : AppRules[i].methods = {"POST"} /\ AppRules[i].url = url
    BY <1>2, RulesDeclared DEF Declares
  <2> QED BY <1>3, <2>1 DEF Suits
<1>6. OnlyRule("POST", url, "login", <<>>)
  BY <1>4, <1>5 DEF OnlyRule
<1> QED BY <1>1, <1>2, <1>6

\* POST /api/project/create goes to its handler.
LEMMA CreateRoute == OnlyRule("POST", Api(<<"project", "/", "create">>), "create", <<>>) /\ Api(<<"project", "/", "create">>) \in Seq(Letters)
<1> DEFINE url == <<"/", "api", "/", "project", "/", "create">>
<1>1. /\ url \in Seq(Letters) /\ Len(url) = 6
      /\ url[1] = "/" /\ url[2] = "api" /\ url[3] = "/" /\ url[4] = "project" /\ url[5] = "/" /\ url[6] = "create"
  BY DEF Letters
<1>2. Api(<<"project", "/", "create">>) = url
  BY UrlsSpelled
<1> HIDE DEF url
<1>3. MatchesOf(url, url) = {<<>>}
  <2>1. ASSUME NEW j \in 1..Len(url) PROVE url[j] \notin Param
    <3>1. j = 1 \/ j = 2 \/ j = 3 \/ j = 4 \/ j = 5 \/ j = 6
      BY <1>1
    <3> QED BY <1>1, <3>1 DEF Param
  <2> QED BY <1>1, <2>1, MatchesItself
<1>4. ASSUME NEW i \in DOMAIN AppRules, Suits(i, "POST", url)
      PROVE  AppRules[i].kind = "create" /\ MatchesOf(AppRules[i].url, url) = {<<>>}
  <2>1. PostRule(AppRules[i])
    BY <1>4, RuleOfMethod DEF Suits
  <2> DEFINE p == AppRules[i].url
  <2>2. p \in Seq(Letters) => ~Parts(p, url)
    BY <1>1, <1>4, SuitsNotParted
  <2>3. \/ p = url /\ AppRules[i].kind = "create"
        \/ p = <<"/", "log">>
        \/ p = <<"/", "api", "/", "auth", "/", "register">>
        \/ p = <<"/", "api", "/", "auth", "/", "log", "in">>
    BY <2>1 DEF PostRule, url
  <2> HIDE DEF p
  <2>4. CASE p = <<"/", "log">>
    <3>1. p \in Seq(Letters) /\ Len(p) = 2
      BY <2>4 DEF Letters
    <3>2. p[1] = "/" /\ p[2] = "log"
      BY <2>4
    <3>3. Parts2(p, url)
      BY <1>1, <3>1, <3>2 DEF Parts2, Param
    <3> QED BY <2>2, <3>1, <3>3 DEF Parts
  <2>5. CASE p = <<"/", "api", "/", "auth", "/", "register">>
    <3>1. p \in Seq(Letters) /\ Len(p) = 6
      BY <2>5 DEF Letters
    <3>2. p[1] = "/" /\ p[2] = "api" /\ p[3] = "/" /\ p[4] = "auth"
      BY <2>5
    <3>3. Parts4(p, url)
      BY <1>1, <3>1, <3>2 DEF Parts4, BothApi, Param
    <3> QED BY <2>2, <3>1, <3>3 DEF Parts
  <2>6. CASE p = <<"/", "api", "/", "auth", "/", "log", "in">>
    <3>1. p \in Seq(Letters) /\ Len(p) = 7
      BY <2>6 DEF Letters
    <3>2. p[1] = "/" /\ p[2] = "api" /\ p[3] = "/" /\ p[4] = "auth"
      BY <2>6
    <3>3. Parts4(p, url)
      BY <1>1, <3>1, <3>2 DEF Parts4, BothApi, Param
    <3> QED BY <2>2, <3>1, <3>3 DEF Parts
  <2>7. CASE p = url /\ AppRules[i].kind = "create"
    BY <1>3, <2>7 DEF p
  <2> QED BY <2>3, <2>4, <2>5, <2>6, <2>7
<1>5. \E i \in DOMAIN AppRules : Suits(i, "POST", url)
  <2>1. PICK i \in DOMAIN AppRules : AppRules[i].methods = {"POST"} /\ AppRules[i].url = url
    BY <1>2, RulesDeclared DEF Declares
  <2> QED BY <1>3, <2>1 DEF Suits
<1>6. OnlyRule("POST", url, "create", <<>>)
  BY <1>4, <1>5 DEF OnlyRule
<1> QED BY <1>1, <1>2, <1>6

-----------------------------------------------------------------------------
(* The routes with a number at the end. *)

\* Words and a number behind them.
Numbered(url, w, t) ==
  /\ url \in Seq(Letters) /\ Len(url) = Len(w) + Len(t)
  /\ \A j \in 1..Len(w) : url[j] = w[j]
  /\ \A j \in 1..Len(t) : url[Len(w) + j] = t[j]

LEMMA NumberedAt ==
  ASSUME NEW w \in Seq(Letters), NEW t \in Seq(Letters) PROVE Numbered(w \o t, w, t)
BY ConcatIs DEF IsConcat, Numbered

\* DELETE /api/project/<int> goes to its handler.
LEMMA DeleteRoute ==
  ASSUME NEW url, NEW t, IsDigits(t), Numbered(url, <<"/", "api", "/", "project", "/">>, t)
  PROVE  OnlyRule("DELETE", url, "delete", IntParam(t))
<1>1. /\ url \in Seq(Letters) /\ Len(url) = 5 + Len(t) /\ Len(t) \in Nat /\ Len(t) >= 1
      /\ url[1] = "/" /\ url[2] = "api" /\ url[3] = "/" /\ url[4] = "project" /\ url[5] = "/"
      /\ \A j \in 1..Len(t) : url[5 + j] = t[j]
  <2> DEFINE w == <<"/", "api", "/", "project", "/">>
  <2>1. Len(w) = 5 /\ w[1] = "/" /\ w[2] = "api" /\ w[3] = "/" /\ w[4] = "project" /\ w[5] = "/"
    OBVIOUS
  <2>2. Numbered(url, w, t)
    OBVIOUS
  <2> HIDE DEF w
  <2>3. Len(t) \in Nat /\ Len(t) >= 1
    BY LenProperties DEF IsDigits
  <2>4. 1 \in 1..5 /\ 2 \in 1..5 /\ 3 \in 1..5 /\ 4 \in 1..5 /\ 5 \in 1..5
    OBVIOUS
  <2> QED BY <2>1, <2>2, <2>3, <2>4 DEF Numbered
<1> DEFINE own == <<"/", "api", "/", "project", "/", "<int>">>
<1>2. MatchesOf(own, url) = {IntParam(t)}
  <2>1. own \in Seq(Letters) /\ Len(own) = 6 /\ own[6] = "<int>"
        /\ own[1] = "/" /\ own[2] = "api" /\ own[3] = "/" /\ own[4] = "project" /\ own[5] = "/"
    BY DEF Letters
  <2> HIDE DEF own
  <2>2. ASSUME NEW j \in 1..Len(own) - 1 PROVE own[j] \notin Param /\ url[j] = own[j]
    <3>1. j = 1 \/ j = 2 \/ j = 3 \/ j = 4 \/ j = 5
      BY <2>1
    <3> QED BY <1>1, <2>1, <3>1 DEF Param
  <2>3. EndsWith(own, url, t)
    BY <1>1, <2>1, <2>2 DEF EndsWith
  <2> QED BY <1>1, <2>1, <2>3, EndFills
<1> HIDE DEF own
<1>3. ASSUME NEW i \in DOMAIN AppRules, Suits(i, "DELETE", url)
      PROVE  AppRules[i].kind = "delete" /\ MatchesOf(AppRules[i].url, url) = {IntParam(t)}
  <2> DEFINE p == AppRules[i].url
  <2>1. DeleteRule(AppRules[i])
    BY <1>3, RuleOfMethod DEF Suits
  <2>2. p \in Seq(Letters) => ~Parts(p, url)
    BY <1>1, <1>3, SuitsNotParted
  <2>3. \/ p = own /\ AppRules[i].kind = "delete"
        \/ p = <<"/", "api", "/", "admin", "/", "users", "/", "<int>">>
    BY <2>1 DEF DeleteRule, own
  <2> HIDE DEF p
  <2>4. CASE p = <<"/", "api", "/", "admin", "/", "users", "/", "<int>">>
    <3>1. p \in Seq(Letters) /\ Len(p) = 8
      BY <2>4 DEF Letters
    <3>2. p[1] = "/" /\ p[2] = "api" /\ p[3] = "/" /\ p[4] = "admin"
      BY <2>4
    <3>3. Parts4(p, url)
      BY <1>1, <3>1, <3>2 DEF Parts4, BothApi, Param
    <3> QED BY <2>2, <3>1, <3>3 DEF Parts
  <2>5. CASE p = own /\ AppRules[i].kind = "delete"
    BY <1>2, <2>5 DEF p
  <2> QED BY <2>3, <2>4, <2>5
<1>4. \E i \in DOMAIN AppRules : Suits(i, "DELETE", url)
  <2>1. Declares("DELETE", own, "delete")
    <3>1. Api(<<"project", "/", "<int>">>) = own
      BY UrlsSpelled DEF own
    <3>2. Declares("DELETE", Api(<<"project", "/", "<int>">>), "delete")
      BY RulesDeclared
    <3> QED BY <3>1, <3>2, Zenon
  <2>2. PICK i \in DOMAIN AppRules : AppRules[i].methods = {"DELETE"} /\ AppRules[i].url = own
    BY <2>1 DEF Declares
  <2> QED BY <1>2, <2>2 DEF Suits
<1> QED BY <1>3, <1>4 DEF OnlyRule

\* DELETE /api/admin/users/<int> goes to its handler.
LEMMA DeactivateRoute ==
  ASSUME NEW url, NEW t, IsDigits(t), Numbered(url, <<"/", "api", "/", "admin", "/", "users", "/">>, t)
  PROVE  OnlyRule("DELETE", url, "deactivate", IntParam(t))
<1>1. /\ url \in Seq(Letters) /\ Len(url) = 7 + Len(t) /\ Len(t) \in Nat /\ Len(t) >= 1
      /\ url[1] = "/" /\ url[2] = "api" /\ url[3] = "/" /\ url[4] = "admin" /\ url[5] = "/" /\ url[6] = "users" /\ url[7] = "/"
      /\ \A j \in 1..Len(t) : url[7 + j] = t[j]
  <2> DEFINE w == <<"/", "api", "/", "admin", "/", "users", "/">>
  <2>1. Len(w) = 7 /\ w[1] = "/" /\ w[2] = "api" /\ w[3] = "/" /\ w[4] = "admin" /\ w[5] = "/" /\ w[6] = "users" /\ w[7] = "/"
    OBVIOUS
  <2>2. Numbered(url, w, t)
    OBVIOUS
  <2> HIDE DEF w
  <2>3. Len(t) \in Nat /\ Len(t) >= 1
    BY LenProperties DEF IsDigits
  <2>4. 1 \in 1..7 /\ 2 \in 1..7 /\ 3 \in 1..7 /\ 4 \in 1..7 /\ 5 \in 1..7 /\ 6 \in 1..7 /\ 7 \in 1..7
    OBVIOUS
  <2> QED BY <2>1, <2>2, <2>3, <2>4 DEF Numbered
<1> DEFINE own == <<"/", "api", "/", "admin", "/", "users", "/", "<int>">>
<1>2. MatchesOf(own, url) = {IntParam(t)}
  <2>1. own \in Seq(Letters) /\ Len(own) = 8 /\ own[8] = "<int>"
        /\ own[1] = "/" /\ own[2] = "api" /\ own[3] = "/" /\ own[4] = "admin" /\ own[5] = "/" /\ own[6] = "users" /\ own[7] = "/"
    BY DEF Letters
  <2> HIDE DEF own
  <2>2. ASSUME NEW j \in 1..Len(own) - 1 PROVE own[j] \notin Param /\ url[j] = own[j]
    <3>1. j = 1 \/ j = 2 \/ j = 3 \/ j = 4 \/ j = 5 \/ j = 6 \/ j = 7
      BY <2>1
    <3> QED BY <1>1, <2>1, <3>1 DEF Param
  <2>3. EndsWith(own, url, t)
    BY <1>1, <2>1, <2>2 DEF EndsWith
  <2> QED BY <1>1, <2>1, <2>3, EndFills
<1> HIDE DEF own
<1>3. ASSUME NEW i \in DOMAIN AppRules, Suits(i, "DELETE", url)
      PROVE  AppRules[i].kind = "deactivate" /\ MatchesOf(AppRules[i].url, url) = {IntParam(t)}
  <2> DEFINE p == AppRules[i].url
  <2>1. DeleteRule(AppRules[i])
    BY <1>3, RuleOfMethod DEF Suits
  <2>2. p \in Seq(Letters) => ~Parts(p, url)
    BY <1>1, <1>3, SuitsNotParted
  <2>3. \/ p = own /\ AppRules[i].kind = "deactivate"
        \/ p = <<"/", "api", "/", "project", "/", "<int>">>
    BY <2>1 DEF DeleteRule, own
  <2> HIDE DEF p
  <2>4. CASE p = <<"/", "api", "/", "project", "/", "<int>">>
    <3>1. p \in Seq(Letters) /\ Len(p) = 6
      BY <2>4 DEF Letters
    <3>2. p[1] = "/" /\ p[2] = "api" /\ p[3] = "/" /\ p[4] = "project"
      BY <2>4
    <3>3. Parts4(p, url)
      BY <1>1, <3>1, <3>2 DEF Parts4, BothApi, Param
    <3> QED BY <2>2, <3>1, <3>3 DEF Parts
  <2>5. CASE p = own /\ AppRules[i].kind = "deactivate"
    BY <1>2, <2>5 DEF p
  <2> QED BY <2>3, <2>4, <2>5
<1>4. \E i \in DOMAIN AppRules : Suits(i, "DELETE", url)
  <2>1. Declares("DELETE", own, "deactivate")
    <3>1. Admin(<<"/", "<int>">>) = own
      BY UrlsSpelled DEF own
    <3>2. Declares("DELETE", Admin(<<"/", "<int>">>), "deactivate")
      BY RulesDeclared
    <3> QED BY <3>1, <3>2, Zenon
  <2>2. PICK i \in DOMAIN AppRules : AppRules[i].methods = {"DELETE"} /\ AppRules[i].url = own
    BY <2>1 DEF Declares
  <2> QED BY <1>2, <2>2 DEF Suits
<1> QED BY <1>3, <1>4 DEF OnlyRule

\* The other pages, by the second token of their URL.
OtherPage(p) ==
  /\ p \in Seq(Letters) /\ Len(p) >= 2 /\ p[1] = "/"
  /\ p[2] \in {"dashboard", "workspace", "admin", "analytics", "health", "static"}

LEMMA OtherPages ==
  /\ OtherPage(<<"/", "dashboard">>)
  /\ OtherPage(<<"/", "workspace">>)
  /\ OtherPage(<<"/", "admin">>)
  /\ OtherPage(<<"/", "analytics">>)
  /\ OtherPage(<<"/", "health">>)
  /\ OtherPage(<<"/", "static", "/", "<path>">>)
BY DEF OtherPage, Letters

\* The list of projects is not the settings of one.
IsSettingsList(p) == p = <<"/", "api", "/", "project", "s", "/", "<int>", "/", "settings">>

LEMMA GoesNotOn ==
  ASSUME NEW p, IsSettingsList(p),
         NEW url, NEW t, IsDigits(t), Numbered(url, <<"/", "api", "/", "project", "s", "/">>, t)
  PROVE  MatchesOf(p, url) = {}
<1> DEFINE w == <<"/", "api", "/", "project", "s", "/">>
<1>1. /\ Len(w) = 6 /\ w[1] = "/" /\ w[2] = "api" /\ w[3] = "/" /\ w[4] = "project" /\ w[5] = "s" /\ w[6] = "/"
  OBVIOUS
<1>2. Numbered(url, w, t)
  OBVIOUS
<1>3. /\ p \in Seq(Letters) /\ Len(p) = 9 /\ p[7] = "<int>" /\ p[8] = "/"
      /\ p[1] = "/" /\ p[2] = "api" /\ p[3] = "/" /\ p[4] = "project" /\ p[5] = "s" /\ p[6] = "/"
  BY DEF Letters, IsSettingsList
<1> HIDE DEF w
<1>4. Len(t) \in Nat /\ Len(t) >= 1 /\ url \in Seq(Letters) /\ Len(url) = 6 + Len(t) /\ \A j \in 1..Len(t) : url[6 + j] = t[j]
  BY <1>1, <1>2, LenProperties DEF IsDigits, Numbered
<1>5. SameRun(p, 1, url, 1, 6)
  <2>1. ASSUME NEW j \in 0..6 - 1 PROVE p[1 + j] \notin Param /\ url[1 + j] = p[1 + j]
    <3>1. 1 + j \in 1..6 /\ (1 + j = 1 \/ 1 + j = 2 \/ 1 + j = 3 \/ 1 + j = 4 \/ 1 + j = 5 \/ 1 + j = 6)
      OBVIOUS
    <3>2. url[1 + j] = w[1 + j]
      BY <1>1, <1>2, <3>1 DEF Numbered
    <3> QED BY <1>1, <1>3, <3>1, <3>2 DEF Param
  <2> QED BY <1>3, <1>4, <2>1 DEF SameRun
<1>6. Matching(p, url)[1][1] = Matching(p, url)[7][7]
  <2>1. 1 \in 1..Len(p) + 1 /\ 1 \in 1..Len(url) + 1 /\ 6 \in Nat
    BY <1>3, <1>4
  <2>2. Matching(p, url)[1][1] = Matching(p, url)[1 + 6][1 + 6]
    BY <1>3, <1>4, <1>5, <2>1, LiteralRun
  <2>3. 1 + 6 = 7
    OBVIOUS
  <2> QED BY <2>2, <2>3, Zenon
<1>7. GoesOn(p, url, 7, 7, t)
  <2>1. NumberAt(url, 7, t)
    BY <1>4 DEF NumberAt
  <2>2. 7 \in 1..Len(p) /\ 7 \in Nat
    BY <1>3
  <2> QED BY <1>3, <1>4, <2>1, <2>2, NumberNext
<1>8. Matching(p, url)[7 + 1][7 + Len(t)] = {}
  <2>1. 7 + 1 \in 1..Len(p) /\ 7 + Len(t) = Len(url) + 1
    BY <1>3, <1>4
  <2>2. Matching(p, url)[7 + 1][Len(url) + 1] = {}
    BY <1>3, <1>4, <2>1, MatchingAt
  <2> QED BY <2>1, <2>2
<1>9. Matching(p, url)[1][1] = {}
  BY <1>6, <1>7, <1>8 DEF GoesOn
<1> QED BY <1>9 DEF MatchesOf

\* GET /api/projects/<int> goes to its handler.
LEMMA ProjectsRoute ==
  ASSUME NEW url, NEW t, IsDigits(t), Numbered(url, <<"/", "api", "/", "project", "s", "/">>, t)
  PROVE  OnlyRule("GET", url, "projects", IntParam(t))
<1>1. /\ url \in Seq(Letters) /\ Len(url) = 6 + Len(t) /\ Len(t) \in Nat /\ Len(t) >= 1
      /\ url[1] = "/" /\ url[2] = "api" /\ url[3] = "/" /\ url[4] = "project" /\ url[5] = "s" /\ url[6] = "/"
      /\ \A j \in 1..Len(t) : url[6 + j] = t[j]
  <2> DEFINE w == <<"/", "api", "/", "project", "s", "/">>
  <2>1. Len(w) = 6 /\ w[1] = "/" /\ w[2] = "api" /\ w[3] = "/" /\ w[4] = "project" /\ w[5] = "s" /\ w[6] = "/"
    OBVIOUS
  <2>2. Numbered(url, w, t)
    OBVIOUS
  <2> HIDE DEF w
  <2>3. Len(t) \in Nat /\ Len(t) >= 1
    BY LenProperties DEF IsDigits
  <2>4. 1 \in 1..6 /\ 2 \in 1..6 /\ 3 \in 1..6 /\ 4 \in 1..6 /\ 5 \in 1..6 /\ 6 \in 1..6
    OBVIOUS
  <2> QED BY <2>1, <2>2, <2>3, <2>4 DEF Numbered
<1> DEFINE own == <<"/", "api", "/", "project", "s", "/", "<int>">>
<1>2. MatchesOf(own, url) = {IntParam(t)}
  <2>1. own \in Seq(Letters) /\ Len(own) = 7 /\ own[7] = "<int>"
        /\ own[1] = "/" /\ own[2] = "api" /\ own[3] = "/" /\ own[4] = "project" /\ own[5] = "s" /\ own[6] = "/"
    BY DEF Letters
  <2> HIDE DEF own
  <2>2. ASSUME NEW j \in 1..Len(own) - 1 PROVE own[j] \notin Param /\ url[j] = own[j]
    <3>1. j = 1 \/ j = 2 \/ j = 3 \/ j = 4 \/ j = 5 \/ j = 6
      BY <2>1
    <3> QED BY <1>1, <2>1, <3>1 DEF Param
  <2>3. EndsWith(own, url, t)
    BY <1>1, <2>1, <2>2 DEF EndsWith
  <2> QED BY <1>1, <2>1, <2>3, EndFills
<1> HIDE DEF own
<1>3. ASSUME NEW i \in DOMAIN AppRules, Suits(i, "GET", url)
      PROVE  AppRules[i].kind = "projects" /\ MatchesOf(AppRules[i].url, url) = {IntParam(t)}
  <2> DEFINE p == AppRules[i].url
  <2>1. GetRule(AppRules[i])
    BY <1>3, RuleOfMethod DEF Suits
  <2>2. p \in Seq(Letters) => ~Parts(p, url)
    BY <1>1, <1>3, SuitsNotParted
  <2>3. \/ p = own /\ AppRules[i].kind = "projects"
        \/ p = <<"/", "log", "in">>
        \/ p = <<"/", "api", "/", "admin", "/", "users">>
        \/ p = <<"/", "query", "/", "advanced">>
        \/ p = <<"/", "api", "/", "project", "/", "info">>
        \/ p = <<"/", "api", "/", "project", "s", "/", "<int>", "/", "settings">>
        \/ p = <<"/", "log", "s", "/", "<int>">>
        \/ p = <<"/", "api", "/", "stats", "/", "<int>">>
        \/ IsRoot(p)
        \/ OtherPage(p)
    BY <2>1, OtherPages DEF GetRule, own, IsRoot
  <2> HIDE DEF p
  <2>4. CASE p = <<"/", "log", "in">>
    <3>1. p \in Seq(Letters) /\ Len(p) = 3
      BY <2>4 DEF Letters
    <3>2. p[1] = "/" /\ p[2] = "log"
      BY <2>4
    <3>3. Parts2(p, url)
      BY <1>1, <3>1, <3>2 DEF Parts2, Param
    <3> QED BY <2>2, <3>1, <3>3 DEF Parts
  <2>5. CASE p = <<"/", "api", "/", "admin", "/", "users">>
    <3>1. p \in Seq(Letters) /\ Len(p) = 6
      BY <2>5 DEF Letters
    <3>2. p[1] = "/" /\ p[2] = "api" /\ p[3] = "/" /\ p[4] = "admin"
      BY <2>5
    <3>3. Parts4(p, url)
      BY <1>1, <3>1, <3>2 DEF Parts4, BothApi, Param
    <3> QED BY <2>2, <3>1, <3>3 DEF Parts
  <2>6. CASE p = <<"/", "query", "/", "advanced">>
    <3>1. p \in Seq(Letters) /\ Len(p) = 4
      BY <2>6 DEF Letters
    <3>2. p[1] = "/" /\ p[2] = "query"
      BY <2>6
    <3>3. Parts2(p, url)
      BY <1>1, <3>1, <3>2 DEF Parts2, Param
    <3> QED BY <2>2, <3>1, <3>3 DEF Parts
  <2>7. CASE p = <<"/", "api", "/", "project", "/", "info">>
    <3>1. p \in Seq(Letters) /\ Len(p) = 6
      BY <2>7 DEF Letters
    <3>2. p[1] = "/" /\ p[2] = "api" /\ p[3] = "/" /\ p[4] = "project" /\ p[5] = "/"
      BY <2>7
    <3>3. Parts5(p, url)
      BY <1>1, <3>1, <3>2 DEF Parts5, BothApi, Param
    <3> QED BY <2>2, <3>1, <3>3 DEF Parts
  <2>8. CASE p = <<"/", "api", "/", "project", "s", "/", "<int>", "/", "settings">>
    <3>1. MatchesOf(p, url) = {}
      BY <1>1, <2>8, GoesNotOn DEF IsSettingsList
    <3> QED BY <1>3, <3>1 DEF Suits, p
  <2>9. CASE p = <<"/", "log", "s", "/", "<int>">>
    <3>1. p \in Seq(Letters) /\ Len(p) = 5
      BY <2>9 DEF Letters
    <3>2. p[1] = "/" /\ p[2] = "log"
      BY <2>9
    <3>3. Parts2(p, url)
      BY <1>1, <3>1, <3>2 DEF Parts2, Param
    <3> QED BY <2>2, <3>1, <3>3 DEF Parts
  <2>10. CASE p = <<"/", "api", "/", "stats", "/", "<int>">>
    <3>1. p \in Seq(Letters) /\ Len(p) = 6
      BY <2>10 DEF Letters
    <3>2. p[1] = "/" /\ p[2] = "api" /\ p[3] = "/" /\ p[4] = "stats"
      BY <2>10
    <3>3. Parts4(p, url)
      BY <1>1, <3>1, <3>2 DEF Parts4, BothApi, Param
    <3> QED BY <2>2, <3>1, <3>3 DEF Parts
  <2>11. CASE IsRoot(p)
    <3>1. Len(url) >= 2 /\ url[1] = "/" /\ url \in Seq(Letters)
      BY <1>1
    <3>2. MatchesOf(p, url) = {}
      BY <2>11, <3>1, RootRule
    <3> QED BY <1>3, <3>2 DEF Suits, p
  <2>12. CASE OtherPage(p)
    <3>1. Parts2(p, url)
      BY <1>1, <2>12 DEF Parts2, OtherPage, Param
    <3> QED BY <2>2, <2>12, <3>1 DEF Parts, OtherPage
  <2>13. CASE p = own /\ AppRules[i].kind = "projects"
    BY <1>2, <2>13 DEF p
  <2> QED BY <2>3, <2>4, <2>5, <2>6, <2>7, <2>8, <2>9, <2>10, <2>11, <2>12, <2>13
<1>4. \E i \in DOMAIN AppRules : Suits(i, "GET", url)
  <2>1. Declares("GET", own, "projects")
    <3>1. Api(<<"project", "s", "/", "<int>">>) = own
      BY UrlsSpelled DEF own
    <3>2. Declares("GET", Api(<<"project", "s", "/", "<int>">>), "projects")
      BY RulesDeclared
    <3> QED BY <3>1, <3>2, Zenon
  <2>2. PICK i \in DOMAIN AppRules : AppRules[i].methods = {"GET"} /\ AppRules[i].url = own
    BY <2>1 DEF Declares
  <2> QED BY <1>2, <2>2 DEF Suits
<1> QED BY <1>3, <1>4 DEF OnlyRule

\* GET /logs/<int> goes to its handler.
LEMMA LogsRoute ==
  ASSUME NEW url, NEW t, IsDigits(t), Numbered(url, <<"/", "log", "s", "/">>, t)
  PROVE  OnlyRule("GET", url, "logs", IntParam(t))
<1>1. /\ url \in Seq(Letters) /\ Len(url) = 4 + Len(t) /\ Len(t) \in Nat /\ Len(t) >= 1
      /\ url[1] = "/" /\ url[2] = "log" /\ url[3] = "s" /\ url[4] = "/"
      /\ \A j \in 1..Len(t) : url[4 + j] = t[j]
  <2> DEFINE w == <<"/", "log", "s", "/">>
  <2>1. Len(w) = 4 /\ w[1] = "/" /\ w[2] = "log" /\ w[3] = "s" /\ w[4] = "/"
    OBVIOUS
  <2>2. Numbered(url, w, t)
    OBVIOUS
  <2> HIDE DEF w
  <2>3. Len(t) \in Nat /\ Len(t) >= 1
    BY LenProperties DEF IsDigits
  <2>4. 1 \in 1..4 /\ 2 \in 1..4 /\ 3 \in 1..4 /\ 4 \in 1..4
    OBVIOUS
  <2> QED BY <2>1, <2>2, <2>3, <2>4 DEF Numbered
<1> DEFINE own == <<"/", "log", "s", "/", "<int>">>
<1>2. MatchesOf(own, url) = {IntParam(t)}
  <2>1. own \in Seq(Letters) /\ Len(own) = 5 /\ own[5] = "<int>"
        /\ own[1] = "/" /\ own[2] = "log" /\ own[3] = "s" /\ own[4] = "/"
    BY DEF Letters
  <2> HIDE DEF own
  <2>2. ASSUME NEW j \in 1..Len(own) - 1 PROVE own[j] \notin Param /\ url[j] = own[j]
    <3>1. j = 1 \/ j = 2 \/ j = 3 \/ j = 4
      BY <2>1
    <3> QED BY <1>1, <2>1, <3>1 DEF Param
  <2>3. EndsWith(own, url, t)
    BY <1>1, <2>1, <2>2 DEF EndsWith
  <2> QED BY <1>1, <2>1, <2>3, EndFills
<1> HIDE DEF own
<1>3. ASSUME NEW i \in DOMAIN AppRules, Suits(i, "GET", url)
      PROVE  AppRules[i].kind = "logs" /\ MatchesOf(AppRules[i].url, url) = {IntParam(t)}
  <2> DEFINE p == AppRules[i].url
  <2>1. GetRule(AppRules[i])
    BY <1>3, RuleOfMethod DEF Suits
  <2>2. p \in Seq(Letters) => ~Parts(p, url)
    BY <1>1, <1>3, SuitsNotParted
  <2>3. \/ p = own /\ AppRules[i].kind = "logs"
        \/ p = <<"/", "log", "in">>
        \/ p = <<"/", "api", "/", "project", "s", "/", "<int>">>
        \/ p = <<"/", "api", "/", "admin", "/", "users">>
        \/ p = <<"/", "query", "/", "advanced">>
        \/ p = <<"/", "api", "/", "project", "/", "info">>
        \/ p = <<"/", "api", "/", "project", "s", "/", "<int>", "/", "settings">>
        \/ p = <<"/", "api", "/", "stats", "/", "<int>">>
        \/ IsRoot(p)
        \/ OtherPage(p)
    BY <2>1, OtherPages DEF GetRule, own, IsRoot
  <2> HIDE DEF p
  <2>4. CASE p = <<"/", "log", "in">>
    <3>1. p \in Seq(Letters) /\ Len(p) = 3
      BY <2>4 DEF Letters
    <3>2. p[1] = "/" /\ p[2] = "log" /\ p[3] = "in"
      BY <2>4
    <3>3. Parts3(p, url)
      BY <1>1, <3>1, <3>2 DEF Parts3, Param
    <3> QED BY <2>2, <3>1, <3>3 DEF Parts
  <2>5. CASE p = <<"/", "api", "/", "project", "s", "/", "<int>">>
    <3>1. p \in Seq(Letters) /\ Len(p) = 7
      BY <2>5 DEF Letters
    <3>2. p[1] = "/" /\ p[2] = "api"
      BY <2>5
    <3>3. Parts2(p, url)
      BY <1>1, <3>1, <3>2 DEF Parts2, Param
    <3> QED BY <2>2, <3>1, <3>3 DEF Parts
  <2>6. CASE p = <<"/", "api", "/", "admin", "/", "users">>
    <3>1. p \in Seq(Letters) /\ Len(p) = 6
      BY <2>6 DEF Letters
    <3>2. p[1] = "/" /\ p[2] = "api"
      BY <2>6
    <3>3. Parts2(p, url)
      BY <1>1, <3>1, <3>2 DEF Parts2, Param
    <3> QED BY <2>2, <3>1, <3>3 DEF Parts
  <2>7. CASE p = <<"/", "query", "/", "advanced">>
    <3>1. p \in Seq(Letters) /\ Len(p) = 4
      BY <2>7 DEF Letters
    <3>2. p[1] = "/" /\ p[2] = "query"
      BY <2>7
    <3>3. Parts2(p, url)
      BY <1>1, <3>1, <3>2 DEF Parts2, Param
    <3> QED BY <2>2, <3>1, <3>3 DEF Parts
  <2>8. CASE p = <<"/", "api", "/", "project", "/", "info">>
    <3>1. p \in Seq(Letters) /\ Len(p) = 6
      BY <2>8 DEF Letters
    <3>2. p[1] = "/" /\ p[2] = "api"
      BY <2>8
    <3>3. Parts2(p, url)
      BY <1>1, <3>1, <3>2 DEF Parts2, Param
    <3> QED BY <2>2, <3>1, <3>3 DEF Parts
  <2>9. CASE p = <<"/", "api", "/", "project", "s", "/", "<int>", "/", "settings">>
    <3>1. p \in Seq(Letters) /\ Len(p) = 9
      BY <2>9 DEF Letters
    <3>2. p[1] = "/" /\ p[2] = "api"
      BY <2>9
    <3>3. Parts2(p, url)
      BY <1>1, <3>1, <3>2 DEF Parts2, Param
    <3> QED BY <2>2, <3>1, <3>3 DEF Parts
  <2>10. CASE p = <<"/", "api", "/", "stats", "/", "<int>">>
    <3>1. p \in Seq(Letters) /\ Len(p) = 6
      BY <2>10 DEF Letters
    <3>2. p[1] = "/" /\ p[2] = "api"
      BY <2>10
    <3>3. Parts2(p, url)
      BY <1>1, <3>1, <3>2 DEF Parts2, Param
    <3> QED BY <2>2, <3>1, <3>3 DEF Parts
  <2>11. CASE IsRoot(p)
    <3>1. Len(url) >= 2 /\ url[1] = "/" /\ url \in Seq(Letters)
      BY <1>1
    <3>2. MatchesOf(p, url) = {}
      BY <2>11, <3>1, RootRule
    <3> QED BY <1>3, <3>2 DEF Suits, p
  <2>12. CASE OtherPage(p)
    <3>1. Parts2(p, url)
      BY <1>1, <2>12 DEF Parts2, OtherPage, Param
    <3> QED BY <2>2, <2>12, <3>1 DEF Parts, OtherPage
  <2>13. CASE p = own /\ AppRules[i].kind = "logs"
    BY <1>2, <2>13 DEF p
  <2> QED BY <2>3, <2>4, <2>5, <2>6, <2>7, <2>8, <2>9, <2>10, <2>11, <2>12, <2>13
<1>4. \E i \in DOMAIN AppRules : Suits(i, "GET", url)
  <2>1. Declares("GET", own, "logs")
    BY RulesDeclared DEF own
  <2>2. PICK i \in DOMAIN AppRules : AppRules[i].methods = {"GET"} /\ AppRules[i].url = own
    BY <2>1 DEF Declares
  <2> QED BY <1>2, <2>2 DEF Suits
<1> QED BY <1>3, <1>4 DEF OnlyRule

\* GET /api/stats/<int> goes to its handler.
LEMMA StatsRoute ==
  ASSUME NEW url, NEW t, IsDigits(t), Numbered(url, <<"/", "api", "/", "stats", "/">>, t)
  PROVE  OnlyRule("GET", url, "stats", IntParam(t))
<1>1. /\ url \in Seq(Letters) /\ Len(url) = 5 + Len(t) /\ Len(t) \in Nat /\ Len(t) >= 1
      /\ url[1] = "/" /\ url[2] = "api" /\ url[3] = "/" /\ url[4] = "stats" /\ url[5] = "/"
      /\ \A j \in 1..Len(t) : url[5 + j] = t[j]
  <2> DEFINE w == <<"/", "api", "/", "stats", "/">>
  <2>1. Len(w) = 5 /\ w[1] = "/" /\ w[2] = "api" /\ w[3] = "/" /\ w[4] = "stats" /\ w[5] = "/"
    OBVIOUS
  <2>2. Numbered(url, w, t)
    OBVIOUS
  <2> HIDE DEF w
  <2>3. Len(t) \in Nat /\ Len(t) >= 1
    BY LenProperties DEF IsDigits
  <2>4. 1 \in 1..5 /\ 2 \in 1..5 /\ 3 \in 1..5 /\ 4 \in 1..5 /\ 5 \in 1..5
    OBVIOUS
  <2> QED BY <2>1, <2>2, <2>3, <2>4 DEF Numbered
<1> DEFINE own == <<"/", "api", "/", "stats", "/", "<int>">>
<1>2. MatchesOf(own, url) = {IntParam(t)}
  <2>1. own \in Seq(Letters) /\ Len(own) = 6 /\ own[6] = "<int>"
        /\ own[1] = "/" /\ own[2] = "api" /\ own[3] = "/" /\ own[4] = "stats" /\ own[5] = "/"
    BY DEF Letters
  <2> HIDE DEF own
  <2>2. ASSUME NEW j \in 1..Len(own) - 1 PROVE own[j] \notin Param /\ url[j] = own[j]
    <3>1. j = 1 \/ j = 2 \/ j = 3 \/ j = 4 \/ j = 5
      BY <2>1
    <3> QED BY <1>1, <2>1, <3>1 DEF Param
  <2>3. EndsWith(own, url, t)
    BY <1>1, <2>1, <2>2 DEF EndsWith
  <2> QED BY <1>1, <2>1, <2>3, EndFills
<1> HIDE DEF own
<1>3. ASSUME NEW i \in DOMAIN AppRules, Suits(i, "GET", url)
      PROVE  AppRules[i].kind = "stats" /\ MatchesOf(AppRules[i].url, url) = {IntParam(t)}
  <2> DEFINE p == AppRules[i].url
  <2>1. GetRule(AppRules[i])
    BY <1>3, RuleOfMethod DEF Suits
  <2>2. p \in Seq(Letters) => ~Parts(p, url)
    BY <1>1, <1>3, SuitsNotParted
  <2>3. \/ p = own /\ AppRules[i].kind = "stats"
        \/ p = <<"/", "log", "in">>
        \/ p = <<"/", "api", "/", "project", "s", "/", "<int>">>
        \/ p = <<"/", "api", "/", "admin", "/", "users">>
        \/ p = <<"/", "query", "/", "advanced">>
        \/ p = <<"/", "api", "/", "project", "/", "info">>
        \/ p = <<"/", "api", "/", "project", "s", "/", "<int>", "/", "settings">>
        \/ p = <<"/", "log", "s", "/", "<int>">>
        \/ IsRoot(p)
        \/ OtherPage(p)
    BY <2>1, OtherPages DEF GetRule, own, IsRoot
  <2> HIDE DEF p
  <2>4. CASE p = <<"/", "log", "in">>
    <3>1. p \in Seq(Letters) /\ Len(p) = 3
      BY <2>4 DEF Letters
    <3>2. p[1] = "/" /\ p[2] = "log"
      BY <2>4
    <3>3. Parts2(p, url)
      BY <1>1, <3>1, <3>2 DEF Parts2, Param
    <3> QED BY <2>2, <3>1, <3>3 DEF Parts
  <2>5. CASE p = <<"/", "api", "/", "project", "s", "/", "<int>">>
    <3>1. p \in Seq(Letters) /\ Len(p) = 7
      BY <2>5 DEF Letters
    <3>2. p[1] = "/" /\ p[2] = "api" /\ p[3] = "/" /\ p[4] = "project"
      BY <2>5
    <3>3. Parts4(p, url)
      BY <1>1, <3>1, <3>2 DEF Parts4, BothApi, Param
    <3> QED BY <2>2, <3>1, <3>3 DEF Parts
  <2>6. CASE p = <<"/", "api", "/", "admin", "/", "users">>
    <3>1. p \in Seq(Letters) /\ Len(p) = 6
      BY <2>6 DEF Letters
    <3>2. p[1] = "/" /\ p[2] = "api" /\ p[3] = "/" /\ p[4] = "admin"
      BY <2>6
    <3>3. Parts4(p, url)
      BY <1>1, <3>1, <3>2 DEF Parts4, BothApi, Param
    <3> QED BY <2>2, <3>1, <3>3 DEF Parts
  <2>7. CASE p = <<"/", "query", "/", "advanced">>
    <3>1. p \in Seq(Letters) /\ Len(p) = 4
      BY <2>7 DEF Letters
    <3>2. p[1] = "/" /\ p[2] = "query"
      BY <2>7
    <3>3. Parts2(p, url)
      BY <1>1, <3>1, <3>2 DEF Parts2, Param
    <3> QED BY <2>2, <3>1, <3>3 DEF Parts
  <2>8. CASE p = <<"/", "api", "/", "project", "/", "info">>
    <3>1. p \in Seq(Letters) /\ Len(p) = 6
      BY <2>8 DEF Letters
    <3>2. p[1] = "/" /\ p[2] = "api" /\ p[3] = "/" /\ p[4] = "project"
      BY <2>8
    <3>3. Parts4(p, url)
      BY <1>1, <3>1, <3>2 DEF Parts4, BothApi, Param
    <3> QED BY <2>2, <3>1, <3>3 DEF Parts
  <2>9. CASE p = <<"/", "api", "/", "project", "s", "/", "<int>", "/", "settings">>
    <3>1. p \in Seq(Letters) /\ Len(p) = 9
      BY <2>9 DEF Letters
    <3>2. p[1] = "/" /\ p[2] = "api" /\ p[3] = "/" /\ p[4] = "project"
      BY <2>9
    <3>3. Parts4(p, url)
      BY <1>1, <3>1, <3>2 DEF Parts4, BothApi, Param
    <3> QED BY <2>2, <3>1, <3>3 DEF Parts
  <2>10. CASE p = <<"/", "log", "s", "/", "<int>">>
    <3>1. p \in Seq(Letters) /\ Len(p) = 5
      BY <2>10 DEF Letters
    <3>2. p[1] = "/" /\ p[2] = "log"
      BY <2>10
    <3>3. Parts2(p, url)
      BY <1>1, <3>1, <3>2 DEF Parts2, Param
    <3> QED BY <2>2, <3>1, <3>3 DEF Parts
  <2>11. CASE IsRoot(p)
    <3>1. Len(url) >= 2 /\ url[1] = "/" /\ url \in Seq(Letters)
      BY <1>1
    <3>2. MatchesOf(p, url) = {}
      BY <2>11, <3>1, RootRule
    <3> QED BY <1>3, <3>2 DEF Suits, p
  <2>12. CASE OtherPage(p)
    <3>1. Parts2(p, url)
      BY <1>1, <2>12 DEF Parts2, OtherPage, Param
    <3> QED BY <2>2, <2>12, <3>1 DEF Parts, OtherPage
  <2>13. CASE p = own /\ AppRules[i].kind = "stats"
    BY <1>2, <2>13 DEF p
  <2> QED BY <2>3, <2>4, <2>5, <2>6, <2>7, <2>8, <2>9, <2>10, <2>11, <2>12, <2>13
<1>4. \E i \in DOMAIN AppRules : Suits(i, "GET", url)
  <2>1. Declares("GET", own, "stats")
    <3>1. Api(<<"stats", "/", "<int>">>) = own
      BY UrlsSpelled DEF own
    <3>2. Declares("GET", Api(<<"stats", "/", "<int>">>), "stats")
      BY RulesDeclared
    <3> QED BY <3>1, <3>2, Zenon
  <2>2. PICK i \in DOMAIN AppRules : AppRules[i].methods = {"GET"} /\ AppRules[i].url = own
    BY <2>1 DEF Declares
  <2> QED BY <1>2, <2>2 DEF Suits
<1> QED BY <1>3, <1>4 DEF OnlyRule

\* GET /api/admin/users goes to its handler.
LEMMA UsersRoute == OnlyRule("GET", <<"/", "api", "/", "admin", "/", "users">>, "users", <<>>)
<1> DEFINE url == <<"/", "api", "/", "admin", "/", "users">>
           own == url
<1>1. /\ url \in Seq(Letters) /\ Len(url) = 6
      /\ url[1] = "/" /\ url[2] = "api" /\ url[3] = "/" /\ url[4] = "admin" /\ url[5] = "/" /\ url[6] = "users"
  BY DEF Letters
<1>2. MatchesOf(own, url) = {<<>>}
  <2> HIDE DEF url
  <2>1. ASSUME NEW j \in 1..Len(url) PROVE url[j] \notin Param
    <3>1. j = 1 \/ j = 2 \/ j = 3 \/ j = 4 \/ j = 5 \/ j = 6
      BY <1>1
    <3> QED BY <1>1, <3>1 DEF Param
  <2> QED BY <1>1, <2>1, MatchesItself
<1> HIDE DEF own, url
<1>3. ASSUME NEW i \in DOMAIN AppRules, Suits(i, "GET", url)
      PROVE  AppRules[i].kind = "users" /\ MatchesOf(AppRules[i].url, url) = {<<>>}
  <2> DEFINE p == AppRules[i].url
  <2>1. GetRule(AppRules[i])
    BY <1>3, RuleOfMethod DEF Suits
  <2>2. p \in Seq(Letters) => ~Parts(p, url)
    BY <1>1, <1>3, SuitsNotParted
  <2>3. \/ p = own /\ AppRules[i].kind = "users"
        \/ p = <<"/", "log", "in">>
        \/ p = <<"/", "api", "/", "project", "s", "/", "<int>">>
        \/ p = <<"/", "query", "/", "advanced">>
        \/ p = <<"/", "api", "/", "project", "/", "info">>
        \/ p = <<"/", "api", "/", "project", "s", "/", "<int>", "/", "settings">>
        \/ p = <<"/", "log", "s", "/", "<int>">>
        \/ p = <<"/", "api", "/", "stats", "/", "<int>">>
        \/ IsRoot(p)
        \/ OtherPage(p)
    BY <2>1, OtherPages DEF GetRule, own, url, IsRoot
  <2> HIDE DEF p
  <2>4. CASE p = <<"/", "log", "in">>
    <3>1. p \in Seq(Letters) /\ Len(p) = 3
      BY <2>4 DEF Letters
    <3>2. p[1] = "/" /\ p[2] = "log"
      BY <2>4
    <3>3. Parts2(p, url)
      BY <1>1, <3>1, <3>2 DEF Parts2, Param
    <3> QED BY <2>2, <3>1, <3>3 DEF Parts
  <2>5. CASE p = <<"/", "api", "/", "project", "s", "/", "<int>">>
    <3>1. p \in Seq(Letters) /\ Len(p) = 7
      BY <2>5 DEF Letters
    <3>2. p[1] = "/" /\ p[2] = "api" /\ p[3] = "/" /\ p[4] = "project"
      BY <2>5
    <3>3. Parts4(p, url)
      BY <1>1, <3>1, <3>2 DEF Parts4, BothApi, Param
    <3> QED BY <2>2, <3>1, <3>3 DEF Parts
  <2>6. CASE p = <<"/", "query", "/", "advanced">>
    <3>1. p \in Seq(Letters) /\ Len(p) = 4
      BY <2>6 DEF Letters
    <3>2. p[1] = "/" /\ p[2] = "query"
      BY <2>6
    <3>3. Parts2(p, url)
      BY <1>1, <3>1, <3>2 DEF Parts2, Param
    <3> QED BY <2>2, <3>1, <3>3 DEF Parts
  <2>7. CASE p = <<"/", "api", "/", "project", "/", "info">>
    <3>1. p \in Seq(Letters) /\ Len(p) = 6
      BY <2>7 DEF Letters
    <3>2. p[1] = "/" /\ p[2] = "api" /\ p[3] = "/" /\ p[4] = "project"
      BY <2>7
    <3>3. Parts4(p, url)
      BY <1>1, <3>1, <3>2 DEF Parts4, BothApi, Param
    <3> QED BY <2>2, <3>1, <3>3 DEF Parts
  <2>8. CASE p = <<"/", "api", "/", "project", "s", "/", "<int>", "/", "settings">>
    <3>1. p \in Seq(Letters) /\ Len(p) = 9
      BY <2>8 DEF Letters
    <3>2. p[1] = "/" /\ p[2] = "api" /\ p[3] = "/" /\ p[4] = "project"
      BY <2>8
    <3>3. Parts4(p, url)
      BY <1>1, <3>1, <3>2 DEF Parts4, BothApi, Param
    <3> QED BY <2>2, <3>1, <3>3 DEF Parts
  <2>9. CASE p = <<"/", "log", "s", "/", "<int>">>
    <3>1. p \in Seq(Letters) /\ Len(p) = 5
      BY <2>9 DEF Letters
    <3>2. p[1] = "/" /\ p[2] = "log"
      BY <2>9
    <3>3. Parts2(p, url)
      BY <1>1, <3>1, <3>2 DEF Parts2, Param
    <3> QED BY <2>2, <3>1, <3>3 DEF Parts
  <2>10. CASE p = <<"/", "api", "/", "stats", "/", "<int>">>
    <3>1. p \in Seq(Letters) /\ Len(p) = 6
      BY <2>10 DEF Letters
    <3>2. p[1] = "/" /\ p[2] = "api" /\ p[3] = "/" /\ p[4] = "stats"
      BY <2>10
    <3>3. Parts4(p, url)
      BY <1>1, <3>1, <3>2 DEF Parts4, BothApi, Param
    <3> QED BY <2>2, <3>1, <3>3 DEF Parts
  <2>11. CASE IsRoot(p)
    <3>1. Len(url) >= 2 /\ url[1] = "/" /\ url \in Seq(Letters)
      BY <1>1
    <3>2. MatchesOf(p, url) = {}
      BY <2>11, <3>1, RootRule
    <3> QED BY <1>3, <3>2 DEF Suits, p
  <2>12. CASE OtherPage(p)
    <3>1. Parts2(p, url)
      BY <1>1, <2>12 DEF Parts2, OtherPage, Param
    <3> QED BY <2>2, <2>12, <3>1 DEF Parts, OtherPage
  <2>13. CASE p = own /\ AppRules[i].kind = "users"
    BY <1>2, <2>13 DEF p
  <2> QED BY <2>3, <2>4, <2>5, <2>6, <2>7, <2>8, <2>9, <2>10, <2>11, <2>12, <2>13
<1>4. \E i \in DOMAIN AppRules : Suits(i, "GET", url)
  <2>1. Declares("GET", own, "users")
    <3>1. Admin(<<>>) = own
      BY UrlsSpelled DEF own, url
    <3>2. Declares("GET", Admin(<<>>), "users")
      BY RulesDeclared
    <3> QED BY <3>1, <3>2, Zenon
  <2>2. PICK i \in DOMAIN AppRules : AppRules[i].methods = {"GET"} /\ AppRules[i].url = own
    BY <2>1 DEF Declares
  <2> QED BY <1>2, <2>2 DEF Suits
<1>5. OnlyRule("GET", url, "users", <<>>)
  BY <1>3, <1>4 DEF OnlyRule
<1> QED BY <1>5 DEF url

\* GET /query/advanced goes to its handler.
LEMMA QueryRoute == OnlyRule("GET", <<"/", "query", "/", "advanced">>, "query", <<>>)
<1> DEFINE url == <<"/", "query", "/", "advanced">>
           own == url
<1>1. /\ url \in Seq(Letters) /\ Len(url) = 4
      /\ url[1] = "/" /\ url[2] = "query" /\ url[3] = "/" /\ url[4] = "advanced"
  BY DEF Letters
<1>2. MatchesOf(own, url) = {<<>>}
  <2> HIDE DEF url
  <2>1. ASSUME NEW j \in 1..Len(url) PROVE url[j] \notin Param
    <3>1. j = 1 \/ j = 2 \/ j = 3 \/ j = 4
      BY <1>1
    <3> QED BY <1>1, <3>1 DEF Param
  <2> QED BY <1>1, <2>1, MatchesItself
<1> HIDE DEF own, url
<1>3. ASSUME NEW i \in DOMAIN AppRules, Suits(i, "GET", url)
      PROVE  AppRules[i].kind = "query" /\ MatchesOf(AppRules[i].url, url) = {<<>>}
  <2> DEFINE p == AppRules[i].url
  <2>1. GetRule(AppRules[i])
    BY <1>3, RuleOfMethod DEF Suits
  <2>2. p \in Seq(Letters) => ~Parts(p, url)
    BY <1>1, <1>3, SuitsNotParted
  <2>3. \/ p = own /\ AppRules[i].kind = "query"
        \/ p = <<"/", "log", "in">>
        \/ p = <<"/", "api", "/", "project", "s", "/", "<int>">>
        \/ p = <<"/", "api", "/", "admin", "/", "users">>
        \/ p = <<"/", "api", "/", "project", "/", "info">>
        \/ p = <<"/", "api", "/", "project", "s", "/", "<int>", "/", "settings">>
        \/ p = <<"/", "log", "s", "/", "<int>">>
        \/ p = <<"/", "api", "/", "stats", "/", "<int>">>
        \/ IsRoot(p)
        \/ OtherPage(p)
    BY <2>1, OtherPages DEF GetRule, own, url, IsRoot
  <2> HIDE DEF p
  <2>4. CASE p = <<"/", "log", "in">>
    <3>1. p \in Seq(Letters) /\ Len(p) = 3
      BY <2>4 DEF Letters
    <3>2. p[1] = "/" /\ p[2] = "log"
      BY <2>4
    <3>3. Parts2(p, url)
      BY <1>1, <3>1, <3>2 DEF Parts2, Param
    <3> QED BY <2>2, <3>1, <3>3 DEF Parts
  <2>5. CASE p = <<"/", "api", "/", "project", "s", "/", "<int>">>
    <3>1. p \in Seq(Letters) /\ Len(p) = 7
      BY <2>5 DEF Letters
    <3>2. p[1] = "/" /\ p[2] = "api"
      BY <2>5
    <3>3. Parts2(p, url)
      BY <1>1, <3>1, <3>2 DEF Parts2, Param
    <3> QED BY <2>2, <3>1, <3>3 DEF Parts
  <2>6. CASE p = <<"/", "api", "/", "admin", "/", "users">>
    <3>1. p \in Seq(Letters) /\ Len(p) = 6
      BY <2>6 DEF Letters
    <3>2. p[1] = "/" /\ p[2] = "api"
      BY <2>6
    <3>3. Parts2(p, url)
      BY <1>1, <3>1, <3>2 DEF Parts2, Param
    <3> QED BY <2>2, <3>1, <3>3 DEF Parts
  <2>7. CASE p = <<"/", "api", "/", "project", "/", "info">>
    <3>1. p \in Seq(Letters) /\ Len(p) = 6
      BY <2>7 DEF Letters
    <3>2. p[1] = "/" /\ p[2] = "api"
      BY <2>7
    <3>3. Parts2(p, url)
      BY <1>1, <3>1, <3>2 DEF Parts2, Param
    <3> QED BY <2>2, <3>1, <3>3 DEF Parts
  <2>8. CASE p = <<"/", "api", "/", "project", "s", "/", "<int>", "/", "settings">>
    <3>1. p \in Seq(Letters) /\ Len(p) = 9
      BY <2>8 DEF Letters
    <3>2. p[1] = "/" /\ p[2] = "api"
      BY <2>8
    <3>3. Parts2(p, url)
      BY <1>1, <3>1, <3>2 DEF Parts2, Param
    <3> QED BY <2>2, <3>1, <3>3 DEF Parts
  <2>9. CASE p = <<"/", "log", "s", "/", "<int>">>
    <3>1. p \in Seq(Letters) /\ Len(p) = 5
      BY <2>9 DEF Letters
    <3>2. p[1] = "/" /\ p[2] = "log"
      BY <2>9
    <3>3. Parts2(p, url)
      BY <1>1, <3>1, <3>2 DEF Parts2, Param
    <3> QED BY <2>2, <3>1, <3>3 DEF Parts
  <2>10. CASE p = <<"/", "api", "/", "stats", "/", "<int>">>
    <3>1. p \in Seq(Letters) /\ Len(p) = 6
      BY <2>10 DEF Letters
    <3>2. p[1] = "/" /\ p[2] = "api"
      BY <2>10
    <3>3. Parts2(p, url)
      BY <1>1, <3>1, <3>2 DEF Parts2, Param
    <3> QED BY <2>2, <3>1, <3>3 DEF Parts
  <2>11. CASE IsRoot(p)
    <3>1. Len(url) >= 2 /\ url[1] = "/" /\ url \in Seq(Letters)
      BY <1>1
    <3>2. MatchesOf(p, url) = {}
      BY <2>11, <3>1, RootRule
    <3> QED BY <1>3, <3>2 DEF Suits, p
  <2>12. CASE OtherPage(p)
    <3>1. Parts2(p, url)
      BY <1>1, <2>12 DEF Parts2, OtherPage, Param
    <3> QED BY <2>2, <2>12, <3>1 DEF Parts, OtherPage
  <2>13. CASE p = own /\ AppRules[i].kind = "query"
    BY <1>2, <2>13 DEF p
  <2> QED BY <2>3, <2>4, <2>5, <2>6, <2>7, <2>8, <2>9, <2>10, <2>11, <2>12, <2>13
<1>4. \E i \in DOMAIN AppRules : Suits(i, "GET", url)
  <2>1. Declares("GET", own, "query")
    BY RulesDeclared DEF own, url
  <2>2. PICK i \in DOMAIN AppRules : AppRules[i].methods = {"GET"} /\ AppRules[i].url = own
    BY <2>1 DEF Declares
  <2> QED BY <1>2, <2>2 DEF Suits
<1>5. OnlyRule("GET", url, "query", <<>>)
  BY <1>3, <1>4 DEF OnlyRule
<1> QED BY <1>5 DEF url

-----------------------------------------------------------------------------
(* The routes of the pages that put. *)

\* The URL of a user's role, and where things stand in it.
RoleUrl(url, t) ==
  /\ url \in Seq(Letters) /\ Len(url) = 9 + Len(t) /\ Len(t) \in Nat
  /\ url[1] = "/" /\ url[2] = "api" /\ url[3] = "/" /\ url[4] = "admin" /\ url[5] = "/" /\ url[6] = "users" /\ url[7] = "/"
  /\ \A j \in 1..Len(t) : url[7 + j] = t[j]
  /\ url[8 + Len(t)] = "/" /\ url[9 + Len(t)] = "role"

\* A number is one of letters.
LEMMA DigitsLetters == ASSUME NEW t, IsDigits(t) PROVE t \in Seq(Letters) /\ Len(t) \in Nat /\ Len(t) >= 1
<1>1. t \in Seq(Digit) /\ Digit \subseteq Letters
  BY DEF IsDigits, Digit, Letters
<1>2. t \in Seq(Letters)
  BY <1>1, SeqOver
<1> QED BY <1>2, LenProperties DEF IsDigits

LEMMA RoleAt == ASSUME NEW t, IsDigits(t) PROVE RoleUrl(Admin(<<"/">> \o t \o <<"/", "role">>), t)
<1> DEFINE a == <<"/">>
           e == <<"/", "role">>
           b == a \o t
           c == b \o e
           url == Admin(c)
<1>1. t \in Seq(Letters) /\ Len(t) \in Nat /\ Len(t) >= 1
  BY DigitsLetters
<1>2. a \in Seq(Letters) /\ Len(a) = 1 /\ a[1] = "/"
  BY DEF Letters
<1>3. e \in Seq(Letters) /\ Len(e) = 2 /\ e[1] = "/" /\ e[2] = "role"
  BY DEF Letters
<1>4. url = Admin(<<"/">> \o t \o <<"/", "role">>)
  OBVIOUS
<1> HIDE DEF a, e, url
<1>5. IsConcat(Letters, b, a, t)
  BY <1>1, <1>2, ConcatIs
<1> HIDE DEF b
<1>6. b \in Seq(Letters) /\ Len(b) = 1 + Len(t) /\ b[1] = "/" /\ \A j \in 1..Len(t) : b[1 + j] = t[j]
  <2>1. 1 \in 1..1
    OBVIOUS
  <2> QED BY <1>2, <1>5, <2>1 DEF IsConcat
<1>7. IsConcat(Letters, c, b, e)
  BY <1>3, <1>6, ConcatIs
<1> HIDE DEF c
<1>8. /\ c \in Seq(Letters) /\ Len(c) = 3 + Len(t) /\ c[1] = "/" /\ \A j \in 1..Len(t) : c[1 + j] = t[j]
      /\ c[2 + Len(t)] = "/" /\ c[3 + Len(t)] = "role"
  <2>1. c \in Seq(Letters) /\ Len(c) = (1 + Len(t)) + 2 /\ (\A j \in 1..1 + Len(t) : c[j] = b[j]) /\ (\A j \in 1..2 : c[(1 + Len(t)) + j] = e[j])
    BY <1>3, <1>6, <1>7 DEF IsConcat
  <2>2. Len(c) = 3 + Len(t) /\ 1 \in 1..1 + Len(t) /\ (\A j \in 1..Len(t) : 1 + j \in 1..1 + Len(t)) /\ (1 + Len(t)) + 1 = 2 + Len(t) /\ (1 + Len(t)) + 2 = 3 + Len(t)
        /\ 1 \in 1..2 /\ 2 \in 1..2
    BY <1>1, <2>1
  <2>3. c[(1 + Len(t)) + 1] = "/" /\ c[(1 + Len(t)) + 2] = "role"
    BY <1>3, <2>1, <2>2
  <2> QED BY <1>6, <2>1, <2>2, <2>3
<1>9. AdminIs(url, c)
  BY <1>8, AdminAt DEF url
<1>10. RoleUrl(url, t)
  <2>1. /\ 1 \in 1..Len(c) /\ 6 + 1 = 7 /\ (\A j \in 1..Len(t) : 1 + j \in 1..Len(c) /\ 6 + (1 + j) = 7 + j)
        /\ 2 + Len(t) \in 1..Len(c) /\ 6 + (2 + Len(t)) = 8 + Len(t) /\ 3 + Len(t) \in 1..Len(c) /\ 6 + (3 + Len(t)) = 9 + Len(t)
        /\ 6 + Len(c) = 9 + Len(t)
    BY <1>1, <1>8
  <2>2. /\ url \in Seq(Letters) /\ Len(url) = 6 + Len(c)
        /\ url[1] = "/" /\ url[2] = "api" /\ url[3] = "/" /\ url[4] = "admin" /\ url[5] = "/" /\ url[6] = "users"
        /\ \A j \in 1..Len(c) : url[6 + j] = c[j]
    BY <1>9 DEF AdminIs
  <2>3. url[7] = "/"
    BY <1>8, <2>1, <2>2
  <2>4. \A j \in 1..Len(t) : url[7 + j] = t[j]
    BY <1>8, <2>1, <2>2
  <2>5. url[8 + Len(t)] = "/"
    BY <1>8, <2>1, <2>2
  <2>6. url[9 + Len(t)] = "role"
    BY <1>8, <2>1, <2>2
  <2> QED BY <1>1, <2>1, <2>2, <2>3, <2>4, <2>5, <2>6 DEF RoleUrl
<1> QED BY <1>4, <1>10

\* PUT /api/admin/users/<int>/role goes to its handler.
LEMMA RoleRoute ==
  ASSUME NEW url, NEW t, IsDigits(t), RoleUrl(url, t)
  PROVE  OnlyRule("PUT", url, "role", IntParam(t))
<1> DEFINE own == <<"/", "api", "/", "admin", "/", "users", "/", "<int>", "/", "role">>
<1>1. /\ url \in Seq(Letters) /\ Len(url) = 9 + Len(t) /\ Len(t) \in Nat /\ Len(t) >= 1
      /\ url[1] = "/" /\ url[2] = "api" /\ url[3] = "/" /\ url[4] = "admin" /\ url[5] = "/" /\ url[6] = "users" /\ url[7] = "/"
      /\ \A j \in 1..Len(t) : url[7 + j] = t[j]
      /\ url[8 + Len(t)] = "/" /\ url[9 + Len(t)] = "role"
  BY DigitsLetters DEF RoleUrl
<1>2. MatchesOf(own, url) = {IntParam(t)}
  <2>1. own \in Seq(Letters) /\ Len(own) = 10 /\ own[8] = "<int>" /\ own[9] = "/" /\ own[10] = "role"
        /\ own[1] = "/" /\ own[2] = "api" /\ own[3] = "/" /\ own[4] = "admin" /\ own[5] = "/" /\ own[6] = "users" /\ own[7] = "/"
    BY DEF Letters
  <2> HIDE DEF own
  <2>2. SameRun(own, 1, url, 1, 8 - 1)
    <3>1. ASSUME NEW j \in 0..(8 - 1) - 1 PROVE own[1 + j] \notin Param /\ url[1 + j] = own[1 + j]
      <4>1. 1 + j = 1 \/ 1 + j = 2 \/ 1 + j = 3 \/ 1 + j = 4 \/ 1 + j = 5 \/ 1 + j = 6 \/ 1 + j = 7
        OBVIOUS
      <4> QED BY <1>1, <2>1, <4>1 DEF Param
    <3> QED BY <1>1, <2>1, <3>1 DEF SameRun
  <2>3. NumberAt(url, 8, t)
    <3>1. "/" \notin Digit
      BY DEF Digit
    <3> QED BY <1>1, <3>1 DEF NumberAt
  <2>4. SameRun(own, 8 + 1, url, 8 + Len(t), Len(own) - 8)
    <3>1. ASSUME NEW j \in 0..(Len(own) - 8) - 1 PROVE own[8 + 1 + j] \notin Param /\ url[8 + Len(t) + j] = own[8 + 1 + j]
      <4>1. (j = 0 /\ 8 + 1 + j = 9 /\ 8 + Len(t) + j = 8 + Len(t)) \/ (j = 1 /\ 8 + 1 + j = 10 /\ 8 + Len(t) + j = 9 + Len(t))
        BY <1>1, <2>1
      <4> QED BY <1>1, <2>1, <4>1 DEF Param
    <3> QED BY <1>1, <2>1, <3>1 DEF SameRun
  <2>5. Fills(own, 8, url, t)
    <3>1. 8 \in 1..Len(own) /\ Len(url) = Len(own) - 1 + Len(t)
      BY <1>1, <2>1
    <3> QED BY <2>1, <2>2, <2>3, <2>4, <3>1 DEF Fills
  <2> QED BY <1>1, <2>1, <2>5, MatchesFilled
<1> HIDE DEF own
<1>3. ASSUME NEW i \in DOMAIN AppRules, Suits(i, "PUT", url)
      PROVE  AppRules[i].kind = "role" /\ MatchesOf(AppRules[i].url, url) = {IntParam(t)}
  <2> DEFINE p == AppRules[i].url
  <2>1. PutRule(AppRules[i])
    BY <1>3, RuleOfMethod DEF Suits
  <2>2. p \in Seq(Letters) => ~Parts(p, url)
    BY <1>1, <1>3, SuitsNotParted
  <2>3. \/ p = own /\ AppRules[i].kind = "role"
        \/ p = <<"/", "api", "/", "project", "/", "<int>", "/", "settings">>
    BY <2>1 DEF PutRule, own
  <2> HIDE DEF p
  <2>4. CASE p = <<"/", "api", "/", "project", "/", "<int>", "/", "settings">>
    <3>1. p \in Seq(Letters) /\ Len(p) = 8
      BY <2>4 DEF Letters
    <3>2. p[1] = "/" /\ p[2] = "api" /\ p[3] = "/" /\ p[4] = "project"
      BY <2>4
    <3>3. Parts4(p, url)
      BY <1>1, <3>1, <3>2 DEF Parts4, BothApi, Param
    <3> QED BY <2>2, <3>1, <3>3 DEF Parts
  <2>5. CASE p = own /\ AppRules[i].kind = "role"
    BY <1>2, <2>5 DEF p
  <2> QED BY <2>3, <2>4, <2>5
<1>4. \E i \in DOMAIN AppRules : Suits(i, "PUT", url)
  <2>1. Declares("PUT", own, "role")
    <3>1. Admin(<<"/", "<int>", "/", "role">>) = own
      BY UrlsSpelled DEF own
    <3>2. Declares("PUT", Admin(<<"/", "<int>", "/", "role">>), "role")
      BY RulesDeclared
    <3> QED BY <3>1, <3>2, Zenon
  <2>2. PICK i \in DOMAIN AppRules : AppRules[i].methods = {"PUT"} /\ AppRules[i].url = own
    BY <2>1 DEF Declares
  <2> QED BY <1>2, <2>2 DEF Suits
<1> QED BY <1>3, <1>4 DEF OnlyRule

\* A URL under /api/project.
OfProject(url) ==
  url \in Seq(Letters) /\ Len(url) >= 4 /\ url[1] = "/" /\ url[2] = "api" /\ url[3] = "/" /\ url[4] = "project"

\* What is put there goes to the settings, if anywhere.
LEMMA SettingsRules ==
  ASSUME NEW url, OfProject(url), NEW i \in DOMAIN AppRules, Suits(i, "PUT", url)
  PROVE  /\ AppRules[i].kind = "settings"
         /\ AppRules[i].url = <<"/", "api", "/", "project", "/", "<int>", "/", "settings">>
<1> DEFINE p == AppRules[i].url
<1>1. PutRule(AppRules[i])
  BY RuleOfMethod DEF Suits
<1>2. p \in Seq(Letters) => ~Parts(p, url)
  BY SuitsNotParted DEF OfProject
<1>3. \/ p = <<"/", "api", "/", "project", "/", "<int>", "/", "settings">> /\ AppRules[i].kind = "settings"
      \/ p = <<"/", "api", "/", "admin", "/", "users", "/", "<int>", "/", "role">>
  BY <1>1 DEF PutRule
<1> HIDE DEF p
<1>4. CASE p = <<"/", "api", "/", "admin", "/", "users", "/", "<int>", "/", "role">>
  <2>1. p \in Seq(Letters) /\ Len(p) = 10
    BY <1>4 DEF Letters
  <2>2. p[1] = "/" /\ p[2] = "api" /\ p[3] = "/" /\ p[4] = "admin"
    BY <1>4
  <2>3. Parts4(p, url)
    BY <2>1, <2>2 DEF Parts4, BothApi, Param, OfProject
  <2> QED BY <1>2, <2>1, <2>3 DEF Parts
<1> QED BY <1>3, <1>4 DEF p

\* Nothing is deleted there but a project.
LEMMA DeleteRules ==
  ASSUME NEW url, OfProject(url), NEW i \in DOMAIN AppRules, Suits(i, "DELETE", url)
  PROVE  AppRules[i].url = <<"/", "api", "/", "project", "/", "<int>">>
<1> DEFINE p == AppRules[i].url
<1>1. DeleteRule(AppRules[i])
  BY RuleOfMethod DEF Suits
<1>2. p \in Seq(Letters) => ~Parts(p, url)
  BY SuitsNotParted DEF OfProject
<1>3. \/ p = <<"/", "api", "/", "project", "/", "<int>">>
      \/ p = <<"/", "api", "/", "admin", "/", "users", "/", "<int>">>
  BY <1>1 DEF DeleteRule
<1> HIDE DEF p
<1>4. CASE p = <<"/", "api", "/", "admin", "/", "users", "/", "<int>">>
  <2>1. p \in Seq(Letters) /\ Len(p) = 8
    BY <1>4 DEF Letters
  <2>2. p[1] = "/" /\ p[2] = "api" /\ p[3] = "/" /\ p[4] = "admin"
    BY <1>4
  <2>3. Parts4(p, url)
    BY <2>1, <2>2 DEF Parts4, BothApi, Param, OfProject
  <2> QED BY <1>2, <2>1, <2>3 DEF Parts
<1> QED BY <1>3, <1>4 DEF p

\* A rule that wants a number where the URL has none.
WantsNumber(pattern, url, k) ==
  /\ k \in 1..Len(pattern) /\ k \in 1..Len(url) /\ pattern[k] = "<int>"
  /\ \A j \in 1..k - 1 : pattern[j] = url[j] /\ pattern[j] \notin Param
  /\ url[k] \notin Digit \cup Sign

LEMMA NoNumber ==
  ASSUME NEW C, NEW pattern \in Seq(C), NEW U, NEW url \in Seq(U), NEW k, WantsNumber(pattern, url, k)
  PROVE  MatchesOf(pattern, url) = {}
<1> DEFINE m == Matching(pattern, url)
           child == NodeOf(pattern[k])
           rest == From(url, k)
           taken == Takes(child, rest)
           n == k - 1
<1>0. Len(pattern) \in Nat /\ Len(url) \in Nat /\ k \in Nat /\ k >= 1 /\ k <= Len(pattern) /\ k <= Len(url)
  BY LenProperties DEF WantsNumber
<1>1. m[1][1] = m[k][k]
  <2>1. SameRun(pattern, 1, url, 1, n)
    <3>1. \A j \in 0..n - 1 : 1 + j \in 1..k - 1
      BY <1>0
    <3> QED BY <1>0, <3>1 DEF SameRun, WantsNumber
  <2>2. 1 \in 1..Len(pattern) + 1 /\ 1 \in 1..Len(url) + 1 /\ n \in Nat /\ 1 + n = k
    BY <1>0
  <2> HIDE DEF n
  <2>3. m[1][1] = m[1 + n][1 + n]
    BY <2>1, <2>2, LiteralRun
  <2> QED BY <2>2, <2>3, Zenon
<1>2. m[k][k] = ParamsVia(child, m[k + 1], url, k)
  <2>1. k \in 1..Len(pattern) /\ k \in 1..Len(url)
    BY DEF WantsNumber
  <2> QED BY <2>1, MatchingAt
<1> HIDE DEF m
<1>3. child.param = "<int>"
  <2>1. pattern[k] = "<int>"
    BY DEF WantsNumber
  <2> QED BY <2>1 DEF NodeOf, NewNode, Param
<1> HIDE DEF child
<1>4. rest \in Seq(U) /\ Len(rest) = Len(url) - k + 1 /\ Len(rest) >= 1 /\ rest[1] = url[k] /\ Len(rest) \in Nat
  <2>1. k \in 1..Len(url) + 1
    BY <1>0
  <2>2. /\ rest \in Seq(U) /\ Len(rest) = Len(url) - k + 1
        /\ \A j \in 1..Len(url) - k + 1 : rest[j] = url[k + j - 1]
    BY <2>1, FromProps
  <2> HIDE DEF rest
  <2>3. 1 \in 1..Len(url) - k + 1 /\ k + 1 - 1 = k
    BY <1>0
  <2> QED BY <1>0, <2>2, <2>3
<1>5. taken = IntegerSpan(rest, Sign)
  BY <1>3 DEF Takes
<1>6. m[k][k] = IF taken = 0 THEN {} ELSE {ParamOf(child, SubSeq(rest, 1, taken)) \o p : p \in m[k + 1][k + taken]}
  BY <1>2 DEF ParamsVia
<1> HIDE DEF rest, taken
<1>7. SignOf(rest, Sign) = 0 /\ rest[1] \notin Digit
  <2>1. rest # <<>>
    BY <1>4, EmptySeq
  <2> QED BY <1>4, <2>1 DEF SignOf, WantsNumber
<1>8. From(rest, 0 + 1) = rest
  <2>1. SubSeq(rest, 1, Len(rest)) = rest
    BY <1>4, SubSeqFull
  <2> QED BY <2>1 DEF From
<1>9. Span(rest, Digit) = 0
  <2> DEFINE s == Span(rest, Digit)
  <2>1. s \in 0..Len(rest) /\ \A j \in 1..s : rest[j] \in Digit
    BY <1>4, SpanProps
  <2> HIDE DEF s
  <2>2. s >= 1 => 1 \in 1..s
    BY <1>4, <2>1
  <2>3. s = 0
    BY <1>4, <1>7, <2>1, <2>2
  <2> QED BY <2>3 DEF s
<1>10. IntegerSpan(rest, Sign) = 0
  <2>1. IntegerSpan(rest, Sign) = Signed(0, InRange(0))
    BY <1>7, <1>8, <1>9 DEF IntegerSpan
  <2>2. InRange(0) = 0
    BY MaxDigitsAssumption DEF InRange
  <2> QED BY <2>1, <2>2 DEF Signed
<1>11. m[1][1] = {}
  BY <1>1, <1>5, <1>6, <1>10
<1> QED BY <1>11 DEF MatchesOf, m

\* "undefined" is no number: what the workspace puts and deletes there goes nowhere.
LEMMA UndefinedRoutes ==
  /\ \A i \in DOMAIN AppRules : ~Suits(i, "PUT", Api(<<"project", "/", "undefined", "/", "settings">>))
  /\ \A i \in DOMAIN AppRules : ~Suits(i, "DELETE", Api(<<"project", "/", "undefined">>))
<1> DEFINE u1 == <<"/", "api", "/", "project", "/", "undefined", "/", "settings">>
           u2 == <<"/", "api", "/", "project", "/", "undefined">>
           p1 == <<"/", "api", "/", "project", "/", "<int>", "/", "settings">>
           p2 == <<"/", "api", "/", "project", "/", "<int>">>
<1>1. Api(<<"project", "/", "undefined", "/", "settings">>) = u1 /\ Api(<<"project", "/", "undefined">>) = u2
  BY UrlsSpelled
<1>2. /\ u1 \in Seq(Letters) /\ Len(u1) = 8 /\ u1[6] = "undefined"
      /\ u1[1] = "/" /\ u1[2] = "api" /\ u1[3] = "/" /\ u1[4] = "project" /\ u1[5] = "/"
  BY DEF Letters
<1>3. /\ u2 \in Seq(Letters) /\ Len(u2) = 6 /\ u2[6] = "undefined"
      /\ u2[1] = "/" /\ u2[2] = "api" /\ u2[3] = "/" /\ u2[4] = "project" /\ u2[5] = "/"
  BY DEF Letters
<1>4. /\ p1 \in Seq(Letters) /\ Len(p1) = 8 /\ p1[6] = "<int>"
      /\ p1[1] = "/" /\ p1[2] = "api" /\ p1[3] = "/" /\ p1[4] = "project" /\ p1[5] = "/"
  BY DEF Letters
<1>5. /\ p2 \in Seq(Letters) /\ Len(p2) = 6 /\ p2[6] = "<int>"
      /\ p2[1] = "/" /\ p2[2] = "api" /\ p2[3] = "/" /\ p2[4] = "project" /\ p2[5] = "/"
  BY DEF Letters
<1> HIDE DEF u1, u2, p1, p2
<1>6. "undefined" \notin Digit \cup Sign /\ \A j \in 1..6 - 1 : j = 1 \/ j = 2 \/ j = 3 \/ j = 4 \/ j = 5
  BY DEF Digit, Sign
<1>7. "/" \notin Param /\ "api" \notin Param /\ "project" \notin Param
  BY DEF Param
<1>8. WantsNumber(p1, u1, 6)
  BY <1>2, <1>4, <1>6, <1>7 DEF WantsNumber
<1>9. WantsNumber(p2, u2, 6)
  BY <1>3, <1>5, <1>6, <1>7 DEF WantsNumber
<1>10. MatchesOf(p1, u1) = {} /\ MatchesOf(p2, u2) = {}
  <2>1. MatchesOf(p1, u1) = {}
    BY <1>2, <1>4, <1>8, NoNumber
  <2>2. MatchesOf(p2, u2) = {}
    BY <1>3, <1>5, <1>9, NoNumber
  <2> QED BY <2>1, <2>2
<1>11. OfProject(u1) /\ OfProject(u2)
  BY <1>2, <1>3 DEF OfProject
<1>12. ASSUME NEW i \in DOMAIN AppRules, Suits(i, "PUT", u1) PROVE FALSE
  <2>1. AppRules[i].url = p1
    BY <1>11, <1>12, SettingsRules DEF p1
  <2>2. MatchesOf(AppRules[i].url, u1) # {}
    BY <1>12 DEF Suits
  <2> QED BY <1>10, <2>1, <2>2
<1>13. ASSUME NEW i \in DOMAIN AppRules, Suits(i, "DELETE", u2) PROVE FALSE
  <2>1. AppRules[i].url = p2
    BY <1>11, <1>13, DeleteRules DEF p2
  <2>2. MatchesOf(AppRules[i].url, u2) # {}
    BY <1>13 DEF Suits
  <2> QED BY <1>10, <2>1, <2>2
<1>14. (\A i \in DOMAIN AppRules : ~Suits(i, "PUT", u1)) /\ (\A i \in DOMAIN AppRules : ~Suits(i, "DELETE", u2))
  BY <1>12, <1>13
<1> QED BY <1>1, <1>14

-----------------------------------------------------------------------------
(* Query strings. *)

\* How many characters there are before the first of stops.
LEMMA StopAt ==
  ASSUME NEW U, NEW text \in Seq(U), NEW stops, NEW k \in 0..Len(text),
         \A j \in 1..k : text[j] \notin stops, k < Len(text) => text[k + 1] \in stops
  PROVE  strcspn(text, stops) = k
<1> DEFINE chars == {text[i] : i \in DOMAIN text} \ stops
           n == Span(text, chars)
<1>1. Len(text) \in Nat /\ DOMAIN text = 1..Len(text)
  BY LenProperties
<1>2. /\ n \in 0..Len(text) /\ \A j \in 1..n : text[j] \in chars
      /\ n < Len(text) => text[n + 1] \notin chars
  <2> HIDE DEF chars
  <2> QED BY SpanProps
<1>3. strcspn(text, stops) = n
  BY DEF strcspn
<1> HIDE DEF n
<1>4. ~(k < n)
  <2> SUFFICES ASSUME k < n PROVE FALSE
    OBVIOUS
  <2>1. k + 1 \in 1..n /\ k < Len(text)
    BY <1>1, <1>2
  <2> QED BY <1>2, <2>1
<1>5. ~(n < k)
  <2> SUFFICES ASSUME n < k PROVE FALSE
    OBVIOUS
  <2>1. n + 1 \in 1..k /\ n < Len(text) /\ n + 1 \in DOMAIN text
    BY <1>1, <1>2
  <2>2. text[n + 1] \in chars
    BY <2>1
  <2> QED BY <1>2, <2>1, <2>2
<1> QED BY <1>1, <1>2, <1>3, <1>4, <1>5

\* A URL with a query behind its path.
Queried(url, path, qs) ==
  /\ url \in Seq(Letters) /\ path \in Seq(Letters) /\ qs \in Seq(Letters) /\ Len(path) \in Nat /\ Len(qs) \in Nat
  /\ Len(url) = Len(path) + 1 + Len(qs)
  /\ \A j \in 1..Len(path) : url[j] = path[j] /\ path[j] # "?"
  /\ url[Len(path) + 1] = "?"
  /\ \A j \in 1..Len(qs) : url[Len(path) + 1 + j] = qs[j]

LEMMA QueriedProps ==
  ASSUME NEW url, NEW path, NEW qs, Queried(url, path, qs)
  PROVE  /\ SubSeq(url, 1, strcspn(url, {"?"})) = path
         /\ strcspn(url, {"?", "#"}) = Len(path) /\ From(url, Len(path) + 2) = qs
<1> DEFINE n == Len(path)
<1>1. /\ url \in Seq(Letters) /\ path \in Seq(Letters) /\ qs \in Seq(Letters) /\ n \in Nat /\ Len(qs) \in Nat
      /\ Len(url) = n + 1 + Len(qs)
      /\ \A j \in 1..n : url[j] = path[j] /\ path[j] # "?"
      /\ url[n + 1] = "?"
      /\ \A j \in 1..Len(qs) : url[n + 1 + j] = qs[j]
  BY DEF Queried
<1>2. \A j \in 1..n : path[j] # "#"
  <2>1. \A j \in 1..n : path[j] \in Letters
    BY <1>1, ElementOfSeq
  <2>2. "#" \notin Letters
    BY DEF Letters
  <2> QED BY <2>1, <2>2
<1> HIDE DEF n
<1>3. n \in 0..Len(url) /\ n < Len(url)
  BY <1>1
<1>4. strcspn(url, {"?"}) = n
  <2>1. \A j \in 1..n : url[j] \notin {"?"}
    BY <1>1
  <2>2. url[n + 1] \in {"?"}
    BY <1>1
  <2> QED BY <1>1, <1>3, <2>1, <2>2, StopAt
<1>5. strcspn(url, {"?", "#"}) = n
  <2>1. \A j \in 1..n : url[j] \notin {"?", "#"}
    BY <1>1, <1>2
  <2>2. url[n + 1] \in {"?", "#"}
    BY <1>1
  <2> QED BY <1>1, <1>3, <2>1, <2>2, StopAt
<1>6. SubSeq(url, 1, n) = path
  <2> DEFINE s == SubSeq(url, 1, n)
  <2>1. \A j \in 1..n : url[j] \in Letters
    BY <1>1, <1>3, ElementOfSeq
  <2>2. /\ s \in Seq(Letters) /\ Len(s) = (IF 1 <= n THEN n - 1 + 1 ELSE 0)
        /\ \A j \in 1..(n - 1 + 1) : s[j] = url[1 + j - 1]
    BY <1>1, <2>1, SubSeqProperties
  <2> HIDE DEF s
  <2>3. Len(s) = n /\ \A j \in 1..n : j \in 1..(n - 1 + 1) /\ 1 + j - 1 = j
    BY <1>1, <2>2
  <2>4. \A j \in 1..n : s[j] = path[j]
    BY <1>1, <2>2, <2>3
  <2>5. s = path
    BY <1>1, <2>2, <2>3, <2>4, SeqEqual DEF n
  <2> QED BY <2>5 DEF s
<1>7. From(url, n + 2) = qs
  <2> DEFINE s == From(url, n + 2)
  <2>1. n + 2 \in 1..Len(url) + 1
    BY <1>1
  <2>2. /\ s \in Seq(Letters) /\ Len(s) = Len(url) - (n + 2) + 1
        /\ \A j \in 1..Len(url) - (n + 2) + 1 : s[j] = url[n + 2 + j - 1]
    BY <1>1, <2>1, FromProps
  <2> HIDE DEF s
  <2>3. Len(s) = Len(qs) /\ \A j \in 1..Len(qs) : j \in 1..Len(url) - (n + 2) + 1 /\ n + 2 + j - 1 = n + 1 + j
    BY <1>1, <2>2
  <2>4. \A j \in 1..Len(qs) : s[j] = qs[j]
    BY <1>1, <2>2, <2>3
  <2>5. s = qs
    BY <1>1, <2>2, <2>3, <2>4, SeqEqual
  <2> QED BY <2>5 DEF s
<1> QED BY <1>4, <1>5, <1>6, <1>7 DEF n

\* Where nothing is picked, nothing is added.
NoneBetween(I, a, b) == \A i \in a + 1..b : i \notin I

LEMMA SelectGap ==
  ASSUME NEW s, Len(s) \in Nat, NEW I, NEW f, SelectSteps(s, I, f), NEW a \in 0..Len(s), NEW b \in a..Len(s),
         NoneBetween(I, a, b)
  PROVE  f[b] = f[a]
<1> DEFINE D == 0..b - a
           rank == [k \in D |-> k]
           Good == {k \in D : f[a + k] = f[a]}
<1>0. a \in Nat /\ b \in Nat /\ a <= b /\ b <= Len(s)
  OBVIOUS
<1>1. ASSUME NEW k \in D, \A j \in D : rank[j] < rank[k] => j \in Good PROVE k \in Good
  <2>1. CASE k = 0
    BY <1>0, <2>1
  <2>2. CASE k # 0
    <3>1. k - 1 \in D /\ rank[k - 1] < rank[k] /\ a + k \in 0..Len(s) /\ a + k \in a + 1..b /\ a + k # 0 /\ a + k - 1 = a + (k - 1)
      BY <1>0, <2>2
    <3>2. f[a + (k - 1)] = f[a]
      BY <1>1, <3>1
    <3>3. f[a + k] = f[a + k - 1]
      BY <3>1 DEF SelectSteps, SelectStep, NoneBetween
    <3> QED BY <3>1, <3>2, <3>3
  <2> QED BY <2>1, <2>2
<1>2. D \subseteq Good
  <2>1. rank \in [D -> Nat]
    BY <1>0
  <2> HIDE DEF D, Good, rank
  <2> QED BY <1>1, <2>1, RankInd DEF Inherited
<1>3. b - a \in D /\ a + (b - a) = b
  BY <1>0
<1> QED BY <1>2, <1>3

\* The two steps of a selection.
LEMMA SelectFirst == ASSUME NEW s, Len(s) \in Nat, NEW I, NEW f, SelectSteps(s, I, f) PROVE f[0] = <<>>
<1>1. 0 \in 0..Len(s)
  OBVIOUS
<1>2. f[0] = SelectStep(s, I, f, 0)
  BY <1>1 DEF SelectSteps
<1> QED BY <1>2 DEF SelectStep

LEMMA SelectAt ==
  ASSUME NEW s, Len(s) \in Nat, NEW I, NEW f, SelectSteps(s, I, f), NEW i \in 1..Len(s), i \in I
  PROVE  f[i] = Append(f[i - 1], s[i])
<1>1. i \in 0..Len(s) /\ i # 0
  OBVIOUS
<1>2. f[i] = SelectStep(s, I, f, i)
  BY <1>1 DEF SelectSteps
<1> QED BY <1>1, <1>2 DEF SelectStep

\* Numbers appended to nothing.
LEMMA Appends ==
  ASSUME NEW a, NEW b, NEW c
  PROVE  Append(<<>>, a) = <<a>> /\ Append(<<a>>, b) = <<a, b>> /\ Append(<<a, b>>, c) = <<a, b, c>>
<1> DEFINE A == {a, b, c}
           p0 == <<>>
           p1 == <<a>>
           p2 == <<a, b>>
           p3 == <<a, b, c>>
<1>1. p0 \in Seq(A) /\ p1 \in Seq(A) /\ p2 \in Seq(A) /\ p3 \in Seq(A) /\ a \in A /\ b \in A /\ c \in A
  OBVIOUS
<1>2. /\ Len(p0) = 0 /\ Len(p1) = 1 /\ Len(p2) = 2 /\ Len(p3) = 3
      /\ p1[1] = a /\ p2[1] = a /\ p2[2] = b /\ p3[1] = a /\ p3[2] = b /\ p3[3] = c
  OBVIOUS
<1> HIDE DEF A, p0, p1, p2, p3
<1>3. Append(p0, a) = p1
  <2>1. Append(p0, a) \in Seq(A) /\ Len(Append(p0, a)) = 1 /\ Append(p0, a)[1] = a
    BY <1>1, <1>2, AppendProperties
  <2>2. \A i \in 1..1 : i = 1
    OBVIOUS
  <2> QED BY <1>1, <1>2, <2>1, <2>2, SeqEqual
<1>4. Append(p1, b) = p2
  <2>0. /\ Append(p1, b) \in Seq(A) /\ Len(Append(p1, b)) = Len(p1) + 1 /\ Append(p1, b)[Len(p1) + 1] = b
        /\ \A i \in 1..Len(p1) : Append(p1, b)[i] = p1[i]
    BY <1>1, AppendProperties
  <2>1. /\ Append(p1, b) \in Seq(A) /\ Len(Append(p1, b)) = 2 /\ Append(p1, b)[2] = b
        /\ \A i \in 1..1 : Append(p1, b)[i] = p1[i]
    BY <1>2, <2>0
  <2>2. (\A i \in 1..2 : i = 1 \/ i = 2) /\ 1 \in 1..1
    OBVIOUS
  <2> QED BY <1>1, <1>2, <2>1, <2>2, SeqEqual
<1>5. Append(p2, c) = p3
  <2>0. /\ Append(p2, c) \in Seq(A) /\ Len(Append(p2, c)) = Len(p2) + 1 /\ Append(p2, c)[Len(p2) + 1] = c
        /\ \A i \in 1..Len(p2) : Append(p2, c)[i] = p2[i]
    BY <1>1, AppendProperties
  <2>1. /\ Append(p2, c) \in Seq(A) /\ Len(Append(p2, c)) = 3 /\ Append(p2, c)[3] = c
        /\ \A i \in 1..2 : Append(p2, c)[i] = p2[i]
    BY <1>2, <2>0
  <2>2. (\A i \in 1..3 : i = 1 \/ i = 2 \/ i = 3) /\ 1 \in 1..2 /\ 2 \in 1..2
    OBVIOUS
  <2> QED BY <1>1, <1>2, <2>1, <2>2, SeqEqual
<1> QED BY <1>3, <1>4, <1>5 DEF p0, p1, p2, p3

\* The pieces of a text, by where they end.
PieceEnds(text) == Selected([i \in 1..Len(text) + 1 |-> i], {i \in 1..Len(text) + 1 : i = Len(text) + 1 \/ text[i] = "&"})

LEMMA PiecesDef ==
  ASSUME NEW text
  PROVE  Pieces(text) = [j \in DOMAIN PieceEnds(text) |->
           SubSeq(text, (IF j = 1 THEN 0 ELSE PieceEnds(text)[j - 1]) + 1, PieceEnds(text)[j] - 1)]
BY DEF Pieces, PieceEnds

\* A text without "&" is one piece.
LEMMA OnePiece ==
  ASSUME NEW U, NEW text \in Seq(U), Unsplit(text)
  PROVE  Pieces(text) = <<text>>
<1> DEFINE n == Len(text) + 1
           s == [i \in 1..n |-> i]
           I == {i \in 1..n : i = n \/ text[i] = "&"}
           ends == PieceEnds(text)
<1>0. Len(text) \in Nat
  BY LenProperties
<1>1. s \in Seq(Nat) /\ Len(s) = n /\ n \in Nat /\ n >= 1 /\ s[n] = n
  BY <1>0
<1>2. ends = Selected(s, I)
  BY DEF PieceEnds
<1>3. I = {n}
  BY <1>0 DEF Unsplit
<1> HIDE DEF s, I, ends
<1>4. PICK f : SelectSteps(s, I, f) /\ Selected(s, I) = f[Len(s)] /\ \A i \in 0..Len(s) : f[i] \in Seq(Nat)
  BY <1>1, SelectedDef
<1>5. f[n - 1] = f[0]
  <2>1. 0 \in 0..Len(s) /\ n - 1 \in 0..Len(s) /\ Len(s) \in Nat /\ NoneBetween(I, 0, n - 1)
    BY <1>1, <1>3 DEF NoneBetween
  <2> QED BY <1>4, <2>1, SelectGap
<1>6. f[0] = <<>>
  BY <1>1, <1>4, SelectFirst
<1>7. f[n] = Append(f[n - 1], n)
  <2>1. n \in 1..Len(s) /\ n \in I /\ Len(s) \in Nat
    BY <1>1, <1>3
  <2>2. f[n] = Append(f[n - 1], s[n])
    BY <1>4, <2>1, SelectAt
  <2> QED BY <1>1, <2>2
<1>8. ends = <<n>>
  <2>1. Append(<<>>, n) = <<n>>
    BY Appends
  <2>2. Selected(s, I) = f[n]
    BY <1>1, <1>4
  <2> QED BY <1>2, <1>5, <1>6, <1>7, <2>1, <2>2, Zenon
<1>9. SubSeq(text, 1, n - 1) = text
  <2>1. n - 1 = Len(text)
    BY <1>0
  <2> QED BY <2>1, SubSeqFull
<1>10. Pieces(text) = [j \in DOMAIN ends |-> SubSeq(text, (IF j = 1 THEN 0 ELSE ends[j - 1]) + 1, ends[j] - 1)]
  BY PiecesDef DEF ends
<1>11. DOMAIN ends = {1} /\ ends[1] = n
  BY <1>8
<1>12. Pieces(text) = [j \in {1} |-> text]
  BY <1>9, <1>10, <1>11
<1>13. [j \in {1} |-> text] = <<text>>
  <2>1. 1..1 = {1}
    OBVIOUS
  <2> QED BY <2>1
<1> QED BY <1>12, <1>13

\* A text whose "&" are at these two places is three pieces.
TwoSplits(text, a, b) ==
  /\ a \in 1..Len(text) /\ b \in 1..Len(text) /\ a < b
  /\ \A i \in 1..Len(text) : text[i] = "&" <=> i = a \/ i = b

LEMMA ThreePieces ==
  ASSUME NEW U, NEW text \in Seq(U), NEW a, NEW b, TwoSplits(text, a, b)
  PROVE  Pieces(text) = <<SubSeq(text, 1, a - 1), SubSeq(text, a + 1, b - 1), SubSeq(text, b + 1, Len(text))>>
<1> DEFINE n == Len(text) + 1
           s == [i \in 1..n |-> i]
           I == {i \in 1..n : i = n \/ text[i] = "&"}
           ends == PieceEnds(text)
<1>0. Len(text) \in Nat /\ a \in Nat /\ b \in Nat /\ a >= 1 /\ a < b /\ b < n /\ n - 1 = Len(text) /\ n \in Nat
  BY LenProperties DEF TwoSplits
<1>1. s \in Seq(Nat) /\ Len(s) = n /\ s[n] = n /\ s[a] = a /\ s[b] = b
  BY <1>0
<1>2. ends = Selected(s, I)
  BY DEF PieceEnds
<1>3. I = {a, b, n}
  BY <1>0 DEF TwoSplits
<1> HIDE DEF s, I, ends
<1>4. PICK f : SelectSteps(s, I, f) /\ Selected(s, I) = f[Len(s)] /\ \A i \in 0..Len(s) : f[i] \in Seq(Nat)
  BY <1>1, SelectedDef
<1> HIDE DEF n
<1>5. f[a - 1] = f[0]
  <2>1. 0 \in 0..Len(s) /\ a - 1 \in 0..Len(s) /\ Len(s) \in Nat
    BY <1>0, <1>1
  <2>2. ASSUME NEW i \in 0 + 1..a - 1 PROVE i # a /\ i # b /\ i # n
    BY <1>0
  <2>3. NoneBetween(I, 0, a - 1)
    BY <1>3, <2>2 DEF NoneBetween
  <2> QED BY <1>4, <2>1, <2>3, SelectGap
<1>6. f[0] = <<>>
  <2>1. Len(s) \in Nat
    BY <1>0, <1>1
  <2> QED BY <1>4, <2>1, SelectFirst
<1>7. f[a] = Append(f[a - 1], a)
  <2>1. a \in 1..Len(s) /\ a \in I /\ Len(s) \in Nat
    BY <1>0, <1>1, <1>3
  <2>2. f[a] = Append(f[a - 1], s[a])
    BY <1>4, <2>1, SelectAt
  <2> QED BY <1>1, <2>2
<1>8. f[b - 1] = f[a]
  <2>1. a \in 0..Len(s) /\ b - 1 \in a..Len(s) /\ Len(s) \in Nat
    BY <1>0, <1>1
  <2>2. ASSUME NEW i \in a + 1..b - 1 PROVE i # a /\ i # b /\ i # n
    BY <1>0
  <2>3. NoneBetween(I, a, b - 1)
    BY <1>3, <2>2 DEF NoneBetween
  <2> QED BY <1>4, <2>1, <2>3, SelectGap
<1>9. f[b] = Append(f[b - 1], b)
  <2>1. b \in 1..Len(s) /\ b \in I /\ Len(s) \in Nat
    BY <1>0, <1>1, <1>3
  <2>2. f[b] = Append(f[b - 1], s[b])
    BY <1>4, <2>1, SelectAt
  <2> QED BY <1>1, <2>2
<1>10. f[n - 1] = f[b]
  <2>1. b \in 0..Len(s) /\ n - 1 \in b..Len(s) /\ Len(s) \in Nat
    BY <1>0, <1>1
  <2>2. ASSUME NEW i \in b + 1..n - 1 PROVE i # a /\ i # b /\ i # n
    BY <1>0
  <2>3. NoneBetween(I, b, n - 1)
    BY <1>3, <2>2 DEF NoneBetween
  <2> QED BY <1>4, <2>1, <2>3, SelectGap
<1>11. f[n] = Append(f[n - 1], n)
  <2>1. n \in 1..Len(s) /\ n \in I /\ Len(s) \in Nat
    BY <1>0, <1>1, <1>3
  <2>2. f[n] = Append(f[n - 1], s[n])
    BY <1>4, <2>1, SelectAt
  <2> QED BY <1>1, <2>2
<1>12. ends = <<a, b, n>>
  <2>0. Append(<<>>, a) = <<a>> /\ Append(<<a>>, b) = <<a, b>> /\ Append(<<a, b>>, n) = <<a, b, n>>
    BY Appends
  <2>1. f[a] = <<a>>
    BY <1>5, <1>6, <1>7, <2>0, Zenon
  <2>2. f[b] = <<a, b>>
    BY <1>8, <1>9, <2>0, <2>1, Zenon
  <2>3. f[n] = <<a, b, n>>
    BY <1>10, <1>11, <2>0, <2>2, Zenon
  <2>4. Selected(s, I) = f[n]
    BY <1>1, <1>4
  <2> QED BY <1>2, <2>3, <2>4, Zenon
<1>13. Pieces(text) = [j \in DOMAIN ends |-> SubSeq(text, (IF j = 1 THEN 0 ELSE ends[j - 1]) + 1, ends[j] - 1)]
  BY PiecesDef DEF ends
<1>14. DOMAIN ends = 1..3 /\ ends[1] = a /\ ends[2] = b /\ ends[3] = n
  BY <1>12
<1> DEFINE p1 == SubSeq(text, 1, a - 1)
           p2 == SubSeq(text, a + 1, b - 1)
           p3 == SubSeq(text, b + 1, Len(text))
           P == Pieces(text)
<1>15. P = [j \in 1..3 |-> SubSeq(text, (IF j = 1 THEN 0 ELSE ends[j - 1]) + 1, ends[j] - 1)]
  BY <1>13, <1>14
<1> HIDE DEF P, ends
<1>16. P[1] = p1 /\ P[2] = p2 /\ P[3] = p3
  <2>1. 1 \in 1..3 /\ 2 \in 1..3 /\ 3 \in 1..3 /\ 2 - 1 = 1 /\ 3 - 1 = 2 /\ 0 + 1 = 1
    OBVIOUS
  <2>2. P[1] = SubSeq(text, 0 + 1, ends[1] - 1) /\ P[2] = SubSeq(text, ends[1] + 1, ends[2] - 1) /\ P[3] = SubSeq(text, ends[2] + 1, ends[3] - 1)
    <3> DEFINE piece(j) == SubSeq(text, (IF j = 1 THEN 0 ELSE ends[j - 1]) + 1, ends[j] - 1)
    <3>0. \A j \in 1..3 : P[j] = piece(j)
      <4> HIDE DEF piece
      <4>1. P = [j \in 1..3 |-> piece(j)]
        BY <1>15 DEF piece
      <4> QED BY <4>1
    <3>1. piece(1) = SubSeq(text, 0 + 1, ends[1] - 1) /\ piece(2) = SubSeq(text, ends[2 - 1] + 1, ends[2] - 1) /\ piece(3) = SubSeq(text, ends[3 - 1] + 1, ends[3] - 1)
      OBVIOUS
    <3>2. P[1] = piece(1) /\ P[2] = piece(2) /\ P[3] = piece(3)
      BY <2>1, <3>0
    <3> HIDE DEF piece
    <3>3. ends[2 - 1] = ends[1] /\ ends[3 - 1] = ends[2]
      BY <2>1
    <3> QED BY <2>1, <3>1, <3>2, <3>3
  <2> QED BY <1>0, <1>14, <2>1, <2>2
<1>17. P = [j \in 1..3 |-> P[j]]
  BY <1>15
<1> HIDE DEF p1, p2, p3
<1>18. P = <<p1, p2, p3>>
  BY <1>16, <1>17
<1> QED BY <1>18 DEF P, p1, p2, p3

\* An escape that qs_decode takes for one.
QsDecodesAt(text, i) == i + 2 <= Len(text) /\ {text[i + 1], text[i + 2]} \subseteq HexDigit

\* One step through a value; next: what the rest is decoded to.
QsStep(text, next, i) ==
  IF i > Len(text) \/ text[i] \in {"=", "#", "&"} THEN <<>>
  ELSE IF text[i] # "%" THEN <<IF text[i] = "+" THEN Space ELSE text[i]>> \o next[i + 1]
  ELSE IF QsDecodesAt(text, i) THEN <<Byte(text[i + 1], text[i + 2])>> \o next[i + 3] ELSE <<>>

IsQsDecoding(text, f) == f = [i \in 1..(Len(text) + 1) |-> QsStep(text, f, i)]

QsSteps(text, f) == \A i \in 1..Len(text) + 1 : f[i] = QsStep(text, f, i)

\* qs_decode goes by these steps.
LEMMA QsDecodeDef ==
  ASSUME NEW U, NEW text \in Seq(U)
  PROVE  \E f : QsSteps(text, f) /\ qs_decode(text) = f[1]
<1> DEFINE D == 1..(Len(text) + 1)
           W == Bytes(U)
           V == Seq(W)
           rank == [i \in D |-> Len(text) + 1 - i]
           F == [f \in [D -> V] |-> [i \in D |-> QsStep(text, f, i)]]
           made == CHOOSE f : IsQsDecoding(text, f)
<1>0. Len(text) \in Nat /\ \A i \in 1..Len(text) : text[i] \in W
  BY LenProperties, ElementOfSeq DEF Bytes
<1>1. rank \in [D -> Nat] /\ V # {} /\ <<>> \in V
  <2>1. rank \in [D -> Nat]
    BY <1>0
  <2>2. <<>> \in V
    OBVIOUS
  <2> QED BY <2>1, <2>2
<1>2. \A c \in W, s \in Seq(W) : <<c>> \o s \in Seq(W)
  <2> HIDE DEF W
  <2> TAKE c \in W, s \in Seq(W)
  <2>1. <<c>> \in Seq(W)
    OBVIOUS
  <2> QED BY <2>1, ConcatProperties
<1>3. Space \in W /\ \A high, low : Byte(high, low) \in W
  BY ByteProps, EscapeProps DEF Bytes
<1>4. \A i \in D : /\ i <= Len(text) => i + 1 \in D /\ rank[i + 1] < rank[i]
                   /\ QsDecodesAt(text, i) => i + 3 \in D /\ rank[i + 3] < rank[i]
  BY <1>0 DEF QsDecodesAt
<1>5. ASSUME NEW f \in [D -> V], NEW i \in D PROVE QsStep(text, f, i) \in V
  <2>1. CASE i > Len(text) \/ text[i] \in {"=", "#", "&"}
    BY <1>1, <2>1, Zenon DEF QsStep
  <2>2. CASE i <= Len(text) /\ ~(text[i] \in {"=", "#", "&"})
    <3>0. i + 1 \in D
      BY <1>4, <2>2
    <3>1. i \in 1..Len(text) /\ ~(i > Len(text)) /\ f[i + 1] \in Seq(W) /\ text[i] \in W
      <4> HIDE DEF W
      <4>1. f[i + 1] \in V
        BY <3>0
      <4>2. i \in 1..Len(text) /\ ~(i > Len(text))
        BY <1>0, <2>2
      <4> QED BY <1>0, <4>1, <4>2
    <3>2. QsDecodesAt(text, i) => f[i + 3] \in Seq(W)
      BY <1>4
    <3> HIDE DEF W
    <3>3. CASE text[i] # "%"
      <4>1. QsStep(text, f, i) = <<IF text[i] = "+" THEN Space ELSE text[i]>> \o f[i + 1]
        BY <2>2, <3>1, <3>3, Zenon DEF QsStep
      <4> QED BY <1>2, <1>3, <3>1, <4>1
    <3>4. CASE ~(text[i] # "%") /\ QsDecodesAt(text, i)
      <4>1. QsStep(text, f, i) = <<Byte(text[i + 1], text[i + 2])>> \o f[i + 3]
        BY <2>2, <3>1, <3>4, Zenon DEF QsStep
      <4> QED BY <1>2, <1>3, <3>2, <3>4, <4>1
    <3>5. CASE ~(text[i] # "%") /\ ~QsDecodesAt(text, i)
      <4>1. QsStep(text, f, i) = <<>>
        BY <2>2, <3>1, <3>5, Zenon DEF QsStep
      <4> QED BY <1>1, <4>1
    <3> QED BY <3>3, <3>4, <3>5
  <2> QED BY <1>0, <2>1, <2>2
<1>6. F \in [[D -> V] -> [D -> V]]
  <2> HIDE DEF D, V
  <2> QED BY <1>5
<1>7. ASSUME NEW f \in [D -> V], NEW g \in [D -> V], NEW i \in D,
             \A j \in D : rank[j] < rank[i] => f[j] = g[j]
      PROVE  F[f][i] = F[g][i]
  <2>1. i <= Len(text) => f[i + 1] = g[i + 1]
    BY <1>4, <1>7
  <2>2. QsDecodesAt(text, i) => f[i + 3] = g[i + 3]
    BY <1>4, <1>7
  <2>3. i <= Len(text) \/ i > Len(text)
    BY <1>0
  <2>4. QsStep(text, f, i) = QsStep(text, g, i)
    BY <2>1, <2>2, <2>3, Zenon DEF QsStep
  <2> QED BY <2>4
<1>8. Recurses(D, V, rank, F)
  <2> HIDE DEF D, V, rank, F
  <2> QED BY <1>1, <1>6, <1>7 DEF Recurses
<1>9. PICK f \in [D -> V] : f = F[f]
  <2> HIDE DEF D, V, rank, F
  <2> QED BY <1>8, Recursion
<1>10. \E h : IsQsDecoding(text, h)
  <2>1. f = [i \in D |-> QsStep(text, f, i)]
    BY <1>9
  <2> QED BY <2>1 DEF IsQsDecoding
<1>11. IsQsDecoding(text, made)
  BY <1>10, Zenon
<1>12. qs_decode(text) = made[1]
  BY DEF qs_decode, IsQsDecoding, QsStep, QsDecodesAt
<1> HIDE DEF made
<1>13. QsSteps(text, made)
  BY <1>11 DEF IsQsDecoding, QsSteps
<1> QED BY <1>12, <1>13

\* A value with no separator, escape or plus.
PlainValue(v) == \A j \in 1..Len(v) : v[j] \notin {"=", "#", "&", "%", "+"}

\* It is what it is decoded to.
LEMMA QsDecodePlain ==
  ASSUME NEW U, NEW text \in Seq(U), PlainValue(text)
  PROVE  qs_decode(text) = text
<1> DEFINE D == 1..(Len(text) + 1)
           rank == [i \in D |-> Len(text) + 1 - i]
<1>0. Len(text) \in Nat
  BY LenProperties
<1>1. PICK f : QsSteps(text, f) /\ qs_decode(text) = f[1]
  BY QsDecodeDef
<1> DEFINE Good == {i \in D : f[i] = From(text, i)}
<1>2. ASSUME NEW i \in D, \A j \in D : rank[j] < rank[i] => j \in Good PROVE i \in Good
  <2>1. f[i] = QsStep(text, f, i)
    BY <1>1 DEF QsSteps
  <2>2. CASE i = Len(text) + 1
    <3>1. i > Len(text)
      BY <1>0, <2>2
    <3>2. f[i] = <<>>
      BY <2>1, <3>1, Zenon DEF QsStep
    <3>3. From(text, i) = <<>>
      <4>1. i \in 1..Len(text) + 1 /\ Len(text) - i + 1 = 0
        BY <1>0, <2>2
      <4>2. From(text, i) \in Seq(U) /\ Len(From(text, i)) = 0
        BY <4>1, FromProps
      <4> QED BY <4>2, EmptySeq
    <3> QED BY <3>2, <3>3
  <2>3. CASE i # Len(text) + 1
    <3>1. i \in 1..Len(text) /\ ~(i > Len(text)) /\ i + 1 \in D /\ rank[i + 1] < rank[i]
      BY <1>0, <2>3
    <3>2. f[i + 1] = From(text, i + 1)
      BY <1>2, <3>1
    <3>3. text[i] \notin {"=", "#", "&", "%", "+"}
      BY <3>1 DEF PlainValue
    <3>4. text[i] # "%" /\ text[i] # "+" /\ text[i] \notin {"=", "#", "&"}
      BY <3>3
    <3>5. f[i] = <<text[i]>> \o f[i + 1]
      BY <2>1, <3>1, <3>4, Zenon DEF QsStep
    <3>6. <<text[i]>> \o From(text, i + 1) = From(text, i)
      BY <3>1, FromNext
    <3>7. f[i] = From(text, i)
      BY <3>2, <3>5, <3>6, Zenon
    <3> QED BY <3>7
  <2> QED BY <2>2, <2>3
<1>3. D \subseteq Good
  <2>1. rank \in [D -> Nat]
    BY <1>0
  <2> HIDE DEF D, Good, rank
  <2> QED BY <1>2, <2>1, RankInd DEF Inherited
<1>4. 1 \in D /\ From(text, 1) = text
  <2>1. 1 \in D
    BY <1>0
  <2>2. SubSeq(text, 1, Len(text)) = text
    BY SubSeqFull
  <2> QED BY <2>1, <2>2 DEF From
<1> QED BY <1>1, <1>3, <1>4

\* A pair of a key and a value.
IsPair(pair, key, v) == IsConcat(Letters, pair, <<key, "=">>, v) /\ v \in Seq(Letters) /\ PlainValue(v) /\ key \notin {"=", "#"}

LEMMA PairProps ==
  ASSUME NEW pair, NEW key, NEW v, IsPair(pair, key, v)
  PROVE  /\ DecodedPair(pair) = pair /\ \A k : KeyIs(pair, k) <=> k = key
         /\ From(pair, strcspn(pair, {"="}) + 2) = v
<1>1. /\ pair \in Seq(Letters) /\ Len(pair) = 2 + Len(v) /\ Len(v) \in Nat /\ v \in Seq(Letters)
      /\ pair[1] = key /\ pair[2] = "=" /\ \A j \in 1..Len(v) : pair[2 + j] = v[j]
  <2> DEFINE a == <<key, "=">>
  <2>1. Len(a) = 2 /\ a[1] = key /\ a[2] = "=" /\ 1 \in 1..2 /\ 2 \in 1..2
    OBVIOUS
  <2>2. IsConcat(Letters, pair, a, v) /\ v \in Seq(Letters)
    BY DEF IsPair
  <2> HIDE DEF a
  <2> QED BY <2>1, <2>2 DEF IsConcat
<1>2. 1 \in 0..Len(pair) /\ 1 < Len(pair) /\ (\A j \in 1..1 : j = 1) /\ 1 + 1 = 2
  BY <1>1
<1>3. key # "=" /\ key # "#"
  BY DEF IsPair
<1>4. strcspn(pair, {"="}) = 1
  <2>1. \A j \in 1..1 : pair[j] \notin {"="}
    BY <1>1, <1>2, <1>3
  <2>2. pair[1 + 1] \in {"="}
    BY <1>1, <1>2
  <2> QED BY <1>1, <1>2, <2>1, <2>2, StopAt
<1>5. strcspn(pair, {"=", "#"}) = 1
  <2>1. \A j \in 1..1 : pair[j] \notin {"=", "#"}
    BY <1>1, <1>2, <1>3
  <2>2. pair[1 + 1] \in {"=", "#"}
    BY <1>1, <1>2
  <2> QED BY <1>1, <1>2, <2>1, <2>2, StopAt
<1>6. From(pair, 3) = v
  <2>1. 3 \in 1..Len(pair) + 1 /\ Len(pair) - 3 + 1 = Len(v)
    BY <1>1
  <2>2. From(pair, 3) \in Seq(Letters) /\ Len(From(pair, 3)) = Len(v) /\ \A i \in 1..Len(v) : From(pair, 3)[i] = pair[3 + i - 1]
    <3> DEFINE u == From(pair, 3)
    <3>1. /\ u \in Seq(Letters) /\ Len(u) = Len(pair) - 3 + 1
          /\ \A i \in 1..Len(pair) - 3 + 1 : u[i] = pair[3 + i - 1]
      BY <1>1, <2>1, FromProps
    <3> HIDE DEF u
    <3>2. u \in Seq(Letters) /\ Len(u) = Len(v) /\ \A i \in 1..Len(v) : u[i] = pair[3 + i - 1]
      BY <2>1, <3>1
    <3> QED BY <3>2 DEF u
  <2>3. \A i \in 1..Len(v) : 3 + i - 1 = 2 + i
    BY <1>1
  <2>4. \A i \in 1..Len(v) : From(pair, 3)[i] = v[i]
    BY <1>1, <2>2, <2>3
  <2> QED BY <1>1, <2>2, <2>4, SeqEqual
<1>7. DecodedPair(pair) = pair
  <2>1. qs_decode(v) = v
    BY <1>1, QsDecodePlain DEF IsPair
  <2>2. 1 # Len(pair) /\ 1 + 2 = 3
    BY <1>1
  <2>3. DecodedPair(pair) = SubSeq(pair, 1, 1 + 1) \o qs_decode(From(pair, 1 + 2))
    BY <1>5, <2>2, Zenon DEF DecodedPair
  <2> DEFINE a == SubSeq(pair, 1, 2)
             w == DecodedPair(pair)
  <2>4. a \in Seq(Letters) /\ Len(a) = 2 /\ a[1] = pair[1] /\ a[2] = pair[2]
    <3>1. \A j \in 1..2 : pair[j] \in Letters
      BY <1>1, ElementOfSeq
    <3>2. 2 \in 0..Len(pair) /\ 1 \in 1..2 /\ 2 \in 1..2
      BY <1>1
    <3>3. /\ a \in Seq(Letters) /\ Len(a) = (IF 1 <= 2 THEN 2 - 1 + 1 ELSE 0)
          /\ \A j \in 1..(2 - 1 + 1) : a[j] = pair[1 + j - 1]
      BY <1>1, <3>1, <3>2, SubSeqProperties
    <3> HIDE DEF a
    <3> QED BY <3>2, <3>3
  <2>5. w = a \o v
    BY <1>2, <1>6, <2>1, <2>2, <2>3, Zenon
  <2> HIDE DEF a, w
  <2>6. IsConcat(Letters, w, a, v)
    BY <1>1, <2>4, <2>5, ConcatIs
  <2>7. w \in Seq(Letters) /\ Len(w) = 2 + Len(v) /\ (\A j \in 1..2 : w[j] = a[j]) /\ \A j \in 1..Len(v) : w[2 + j] = v[j]
    BY <2>4, <2>6 DEF IsConcat
  <2>8. ASSUME NEW j \in 1..Len(pair) PROVE w[j] = pair[j]
    <3>1. j = 1 \/ j = 2 \/ (j - 2 \in 1..Len(v) /\ 2 + (j - 2) = j)
      BY <1>1
    <3>2. CASE j = 1 \/ j = 2
      BY <2>4, <2>7, <3>2
    <3>3. CASE j - 2 \in 1..Len(v) /\ 2 + (j - 2) = j
      <4>1. w[2 + (j - 2)] = v[j - 2] /\ pair[2 + (j - 2)] = v[j - 2]
        BY <1>1, <2>7, <3>3
      <4> QED BY <3>3, <4>1
    <3> QED BY <3>1, <3>2, <3>3
  <2>9. w = pair
    BY <1>1, <2>7, <2>8, SeqEqual
  <2> QED BY <2>9 DEF w
<1>8. \A k : KeyIs(pair, k) <=> k = key
  <2>1. pair # <<>> /\ Head(pair) = pair[1]
    BY <1>1, EmptySeq
  <2> QED BY <1>1, <2>1 DEF KeyIs
<1> QED BY <1>2, <1>4, <1>6, <1>7, <1>8

\* The pairs of a query string, one of which has the key and the others another one.
PairedWith(pairs, k, key, v) ==
  /\ k \in DOMAIN pairs /\ k \in Nat /\ IsPair(pairs[k], key, v)
  /\ \A i \in DOMAIN pairs : i # k => \E other, w : IsPair(pairs[i], other, w) /\ other # key

LEMMA GetPair ==
  ASSUME NEW pairs, NEW k, NEW key, NEW v, PairedWith(pairs, k, key, v)
  PROVE  Has(pairs, key) /\ get(pairs, key) = v
<1>1. k \in DOMAIN pairs /\ k \in Nat /\ IsPair(pairs[k], key, v)
  BY DEF PairedWith
<1>2. KeyIs(pairs[k], key) /\ From(pairs[k], strcspn(pairs[k], {"="}) + 2) = v
  BY <1>1, PairProps
<1>3. ASSUME NEW i \in DOMAIN pairs, i # k PROVE ~KeyIs(pairs[i], key)
  <2>1. PICK other, w : IsPair(pairs[i], other, w) /\ other # key
    BY <1>3 DEF PairedWith
  <2>2. KeyIs(pairs[i], key) <=> key = other
    <3>1. \A x : KeyIs(pairs[i], x) <=> x = other
      BY <2>1, PairProps
    <3> QED BY <3>1
  <2> QED BY <2>1, <2>2
<1>4. Keyed(pairs, key) = {k}
  BY <1>1, <1>2, <1>3 DEF Keyed
<1> DEFINE first == CHOOSE i \in Keyed(pairs, key) : \A j \in Keyed(pairs, key) : i <= j
<1>5. first = k
  <2>1. k <= k
    BY <1>1
  <2>2. \E i \in Keyed(pairs, key) : \A j \in Keyed(pairs, key) : i <= j
    BY <1>4, <2>1
  <2>3. first \in Keyed(pairs, key)
    BY <2>2, Zenon
  <2> QED BY <1>4, <2>3
<1> HIDE DEF first
<1>6. get(pairs, key) = From(pairs[first], strcspn(pairs[first], {"="}) + 2)
  BY DEF get, first
<1>7. get(pairs, key) = v
  BY <1>2, <1>5, <1>6, Zenon
<1> QED BY <1>4, <1>7 DEF Has

\* What qs_parse leaves of a URL whose query has these pieces.
ParsedAs(pairs, pieces) == DOMAIN pairs = DOMAIN pieces /\ \A i \in DOMAIN pieces : pairs[i] = DecodedPair(pieces[i])

LEMMA QueryParsed ==
  ASSUME NEW url, NEW path, NEW qs, Queried(url, path, qs), DOMAIN Pieces(qs) = 1..Len(Pieces(qs)),
         Len(Pieces(qs)) \in 0..3
  PROVE  ParsedAs(qs_parse(url), Pieces(qs))
<1> DEFINE pieces == Pieces(qs)
<1>1. strcspn(url, {"?", "#"}) = Len(path) /\ From(url, Len(path) + 2) = qs
  BY QueriedProps
<1>2. Len(path) # Len(url)
  BY DEF Queried
<1>3. MaxPairs >= 3 /\ MaxPairs \in Nat
  BY FormsAssumption, TextAssumption
<1>4. qs_parse(url) = [i \in 1..(IF Len(pieces) < MaxPairs THEN Len(pieces) ELSE MaxPairs) |-> DecodedPair(pieces[i])]
  BY <1>1, <1>2, Zenon DEF qs_parse
<1> HIDE DEF pieces
<1>5. Len(pieces) \in 0..3 /\ DOMAIN pieces = 1..Len(pieces)
  BY DEF pieces
<1>6. (IF Len(pieces) < MaxPairs THEN Len(pieces) ELSE MaxPairs) = Len(pieces)
  <2>1. ASSUME NEW m \in 0..3, NEW k \in Nat, k >= 3 PROVE (IF m < k THEN m ELSE k) = m
    BY <2>1
  <2>2. Len(pieces) \in 0..3
    BY <1>5
  <2> QED BY <1>3, <2>1, <2>2, Zenon
<1>7. qs_parse(url) = [i \in 1..Len(pieces) |-> DecodedPair(pieces[i])]
  BY <1>4, <1>6, Zenon
<1> QED BY <1>5, <1>7 DEF ParsedAs, pieces

\* The one parameter of a query.
LEMMA OneParam ==
  ASSUME NEW url, NEW path, NEW qs, Queried(url, path, qs), NEW key, NEW v, IsPair(qs, key, v), Unsplit(qs)
  PROVE  Has(qs_parse(url), key) /\ get(qs_parse(url), key) = v
<1> DEFINE pairs == qs_parse(url)
           p == Pieces(qs)
<1>1. qs \in Seq(Letters)
  BY DEF Queried
<1>2. Pieces(qs) = <<qs>>
  BY <1>1, OnePiece
<1>3. DOMAIN p = 1..1 /\ Len(p) = 1 /\ p[1] = qs
  BY <1>2
<1>4. ParsedAs(pairs, p)
  BY <1>3, QueryParsed
<1> HIDE DEF pairs, p
<1>5. DOMAIN pairs = 1..1 /\ pairs[1] = DecodedPair(qs)
  <2>1. 1 \in 1..1
    OBVIOUS
  <2> QED BY <1>3, <1>4, <2>1 DEF ParsedAs
<1>6. DecodedPair(qs) = qs
  BY PairProps
<1>7. 1 \in 1..1 /\ 1 \in Nat /\ \A i \in 1..1 : i = 1
  OBVIOUS
<1>8. PairedWith(pairs, 1, key, v)
  BY <1>5, <1>6, <1>7 DEF PairedWith
<1>9. Has(pairs, key) /\ get(pairs, key) = v
  BY <1>8, GetPair
<1> QED BY <1>9 DEF pairs

\* The three parameters of a query.
ThreePairs(p, k1, v1, k2, v2, k3, v3) ==
  /\ Len(p) = 3 /\ DOMAIN p = 1..3
  /\ IsPair(p[1], k1, v1) /\ IsPair(p[2], k2, v2) /\ IsPair(p[3], k3, v3)
  /\ k1 # k2 /\ k1 # k3 /\ k2 # k3

LEMMA ThreeParams ==
  ASSUME NEW url, NEW path, NEW qs, Queried(url, path, qs),
         NEW k1, NEW v1, NEW k2, NEW v2, NEW k3, NEW v3, ThreePairs(Pieces(qs), k1, v1, k2, v2, k3, v3)
  PROVE  /\ Has(qs_parse(url), k1) /\ get(qs_parse(url), k1) = v1
         /\ Has(qs_parse(url), k2) /\ get(qs_parse(url), k2) = v2
         /\ Has(qs_parse(url), k3) /\ get(qs_parse(url), k3) = v3
<1> DEFINE pairs == qs_parse(url)
           p == Pieces(qs)
<1>1. /\ Len(p) = 3 /\ DOMAIN p = 1..3
      /\ IsPair(p[1], k1, v1) /\ IsPair(p[2], k2, v2) /\ IsPair(p[3], k3, v3)
      /\ k1 # k2 /\ k1 # k3 /\ k2 # k3
  BY DEF ThreePairs
<1>2. ParsedAs(pairs, p)
  BY <1>1, QueryParsed
<1> HIDE DEF pairs, p
<1>3. 1 \in 1..3 /\ 2 \in 1..3 /\ 3 \in 1..3 /\ \A i \in 1..3 : i = 1 \/ i = 2 \/ i = 3
  OBVIOUS
<1>4. DOMAIN pairs = 1..3 /\ pairs[1] = DecodedPair(p[1]) /\ pairs[2] = DecodedPair(p[2]) /\ pairs[3] = DecodedPair(p[3])
  BY <1>1, <1>2, <1>3 DEF ParsedAs
<1>5. DecodedPair(p[1]) = p[1] /\ DecodedPair(p[2]) = p[2] /\ DecodedPair(p[3]) = p[3]
  <2>1. DecodedPair(p[1]) = p[1]
    BY <1>1, PairProps
  <2>2. DecodedPair(p[2]) = p[2]
    BY <1>1, PairProps
  <2>3. DecodedPair(p[3]) = p[3]
    BY <1>1, PairProps
  <2> QED BY <2>1, <2>2, <2>3
<1>6. IsPair(pairs[1], k1, v1) /\ IsPair(pairs[2], k2, v2) /\ IsPair(pairs[3], k3, v3)
  BY <1>1, <1>4, <1>5
<1>7. PairedWith(pairs, 1, k1, v1) /\ PairedWith(pairs, 2, k2, v2) /\ PairedWith(pairs, 3, k3, v3)
  <2>1. PairedWith(pairs, 1, k1, v1)
    BY <1>1, <1>3, <1>4, <1>6 DEF PairedWith
  <2>2. PairedWith(pairs, 2, k2, v2)
    BY <1>1, <1>3, <1>4, <1>6 DEF PairedWith
  <2>3. PairedWith(pairs, 3, k3, v3)
    BY <1>1, <1>3, <1>4, <1>6 DEF PairedWith
  <2> QED BY <2>1, <2>2, <2>3
<1>8. Has(pairs, k1) /\ get(pairs, k1) = v1
  BY <1>7, GetPair
<1>9. Has(pairs, k2) /\ get(pairs, k2) = v2
  BY <1>7, GetPair
<1>10. Has(pairs, k3) /\ get(pairs, k3) = v3
  BY <1>7, GetPair
<1> QED BY <1>8, <1>9, <1>10 DEF pairs

-----------------------------------------------------------------------------
(* The URLs with a query. *)

\* A text on its own behind a key.
KeyedBy(key, v) == <<key, "=">> \o v

LEMMA KeyedPair ==
  ASSUME NEW key \in Letters \ {"=", "&"}, NEW v \in Seq(Letters), PlainValue(v)
  PROVE  IsPair(KeyedBy(key, v), key, v) /\ Unsplit(KeyedBy(key, v))
<1> DEFINE a == <<key, "=">>
           pair == KeyedBy(key, v)
<1>1. a \in Seq(Letters) /\ Len(a) = 2 /\ a[1] = key /\ a[2] = "=" /\ 1 \in 1..2 /\ 2 \in 1..2
  BY DEF Letters
<1>2. pair = a \o v
  BY DEF KeyedBy
<1>3. IsConcat(Letters, pair, a, v)
  <2> HIDE DEF a, pair
  <2>1. IsConcat(Letters, a \o v, a, v)
    BY <1>1, ConcatIs
  <2> QED BY <1>2, <2>1, Zenon
<1>4. key \notin {"=", "#"}
  BY DEF Letters
<1>5. IsPair(pair, key, v)
  <2> HIDE DEF pair
  <2> QED BY <1>3, <1>4 DEF IsPair
<1> HIDE DEF a, pair
<1>6. Unsplit(pair)
  <2>1. Len(pair) = 2 + Len(v) /\ Len(v) \in Nat /\ pair[1] = key /\ pair[2] = "=" /\ \A j \in 1..Len(v) : pair[2 + j] = v[j]
    BY <1>1, <1>3 DEF IsConcat
  <2> SUFFICES ASSUME NEW j \in 1..Len(pair) PROVE pair[j] # "&"
    BY DEF Unsplit
  <2>2. CASE j = 1 \/ j = 2
    BY <2>1, <2>2
  <2>3. CASE ~(j = 1 \/ j = 2)
    <3>1. j - 2 \in 1..Len(v) /\ 2 + (j - 2) = j
      BY <2>1, <2>3
    <3>2. v[j - 2] # "&"
      BY <3>1 DEF PlainValue
    <3>3. pair[2 + (j - 2)] = v[j - 2]
      BY <2>1, <3>1
    <3> QED BY <3>1, <3>2, <3>3
  <2> QED BY <2>2, <2>3
<1> QED BY <1>5, <1>6 DEF pair

\* Digits are plain.
LEMMA DigitsPlain == ASSUME NEW t, IsDigits(t) PROVE PlainValue(t) /\ \A j \in 1..Len(t) : t[j] # "?"
<1>1. \A j \in 1..Len(t) : t[j] \in Digit
  BY ElementOfSeq DEF IsDigits
<1> QED BY <1>1 DEF PlainValue, Digit

\* A query put behind its path.
LEMMA QueriedBehind ==
  ASSUME NEW path \in Seq(Letters), NEW qs \in Seq(Letters), \A j \in 1..Len(path) : path[j] # "?"
  PROVE  Queried((path \o <<"?">>) \o qs, path, qs)
<1> DEFINE q == <<"?">>
           a == path \o q
           url == a \o qs
<1>1. q \in Seq(Letters) /\ Len(q) = 1 /\ q[1] = "?" /\ 1 \in 1..1
  BY DEF Letters
<1> HIDE DEF q
<1>2. IsConcat(Letters, a, path, q)
  BY <1>1, ConcatIs
<1> HIDE DEF a
<1>3. a \in Seq(Letters) /\ Len(a) = Len(path) + 1 /\ Len(path) \in Nat /\ a[Len(path) + 1] = "?" /\ \A j \in 1..Len(path) : a[j] = path[j]
  BY <1>1, <1>2 DEF IsConcat
<1>4. IsConcat(Letters, url, a, qs)
  BY <1>3, ConcatIs
<1> HIDE DEF url
<1>5. /\ url \in Seq(Letters) /\ Len(url) = Len(path) + 1 + Len(qs) /\ Len(qs) \in Nat
      /\ \A j \in 1..Len(path) + 1 : url[j] = a[j]
      /\ \A j \in 1..Len(qs) : url[Len(path) + 1 + j] = qs[j]
  BY <1>3, <1>4 DEF IsConcat
<1>6. Len(path) + 1 \in 1..Len(path) + 1 /\ \A j \in 1..Len(path) : j \in 1..Len(path) + 1
  BY <1>3
<1>7. Queried(url, path, qs)
  BY <1>3, <1>5, <1>6 DEF Queried
<1> QED BY <1>7 DEF url, a, q

\* What stands where says what was put together.
LEMMA ConcatOf == ASSUME NEW A, NEW a \in Seq(A), NEW b \in Seq(A), NEW c, IsConcat(A, c, a, b) PROVE a \o b = c
<1> DEFINE d == a \o b
<1>1. IsConcat(A, d, a, b)
  BY ConcatIs
<1> HIDE DEF d
<1>2. /\ d \in Seq(A) /\ Len(d) = Len(a) + Len(b) /\ Len(a) \in Nat /\ Len(b) \in Nat
      /\ \A j \in 1..Len(a) : d[j] = a[j]
      /\ \A j \in 1..Len(b) : d[Len(a) + j] = b[j]
  BY <1>1 DEF IsConcat
<1>3. /\ c \in Seq(A) /\ Len(c) = Len(a) + Len(b)
      /\ \A j \in 1..Len(a) : c[j] = a[j]
      /\ \A j \in 1..Len(b) : c[Len(a) + j] = b[j]
  BY DEF IsConcat
<1>4. ASSUME NEW j \in 1..Len(d) PROVE d[j] = c[j]
  <2>1. j \in 1..Len(a) \/ (j - Len(a) \in 1..Len(b) /\ Len(a) + (j - Len(a)) = j)
    BY <1>2
  <2>2. CASE j \in 1..Len(a)
    BY <1>2, <1>3, <2>2
  <2>3. CASE j - Len(a) \in 1..Len(b) /\ Len(a) + (j - Len(a)) = j
    <3>1. d[Len(a) + (j - Len(a))] = b[j - Len(a)] /\ c[Len(a) + (j - Len(a))] = b[j - Len(a)]
      BY <1>2, <1>3, <2>3
    <3> QED BY <2>3, <3>1
  <2> QED BY <2>1, <2>2, <2>3
<1>5. d = c
  BY <1>2, <1>3, <1>4, SeqEqual
<1> QED BY <1>5 DEF d

\* Texts put together in this or that order.
Together(A) ==
  /\ \A a, b \in Seq(A) : a \o b \in Seq(A)
  /\ \A a, b, c \in Seq(A) : (a \o b) \o c = a \o (b \o c)

LEMMA TogetherLetters == Together(Letters)
<1> DEFINE A == Letters
<1> HIDE DEF A
<1>1. \A a, b \in Seq(A) : a \o b \in Seq(A)
  BY ConcatProperties
<1>2. ASSUME NEW a \in Seq(A), NEW b \in Seq(A), NEW c \in Seq(A) PROVE (a \o b) \o c = a \o (b \o c)
  BY ConcatAssociative
<1> QED BY <1>1, <1>2 DEF Together, A

\* Three texts in a row.
LEMMA InTurn ==
  ASSUME NEW a \in Seq(Letters), NEW b \in Seq(Letters), NEW c \in Seq(Letters)
  PROVE  (a \o b) \o c = a \o (b \o c)
BY ConcatAssociative

\* Literals put together.
LEMMA AdminPath == <<"/", "api", "/">> \o <<"admin", "/", "users">> = <<"/", "api", "/", "admin", "/", "users">>
<1> DEFINE a == <<"/", "api", "/">>
           b == <<"admin", "/", "users">>
           c == <<"/", "api", "/", "admin", "/", "users">>
<1>1. a \in Seq(Letters) /\ Len(a) = 3 /\ a[1] = "/" /\ a[2] = "api" /\ a[3] = "/"
  BY DEF Letters
<1>2. b \in Seq(Letters) /\ Len(b) = 3 /\ b[1] = "admin" /\ b[2] = "/" /\ b[3] = "users"
  BY DEF Letters
<1>3. c \in Seq(Letters) /\ Len(c) = 6
  BY DEF Letters
<1>4. c[1] = "/" /\ c[2] = "api" /\ c[3] = "/" /\ c[4] = "admin" /\ c[5] = "/" /\ c[6] = "users"
  OBVIOUS
<1> HIDE DEF a, b, c
<1>5. ASSUME NEW j \in 1..3 PROVE c[j] = a[j]
  <2>1. j = 1 \/ j = 2 \/ j = 3
    OBVIOUS
  <2> QED BY <1>1, <1>4, <2>1
<1>6. ASSUME NEW j \in 1..3 PROVE c[3 + j] = b[j]
  <2>1. (j = 1 /\ 3 + j = 4) \/ (j = 2 /\ 3 + j = 5) \/ (j = 3 /\ 3 + j = 6)
    OBVIOUS
  <2> QED BY <1>2, <1>4, <2>1
<1>7. IsConcat(Letters, c, a, b)
  BY <1>1, <1>2, <1>3, <1>5, <1>6 DEF IsConcat
<1>8. a \o b = c
  BY <1>1, <1>2, <1>7, ConcatOf
<1> QED BY <1>8 DEF a, b, c

\* The URL of a user begins with that of all.
LEMMA UsersPath == <<"/", "api", "/", "admin", "/", "users">> \o <<"/">> = <<"/", "api", "/", "admin", "/", "users", "/">>
<1> DEFINE a == <<"/", "api", "/", "admin", "/", "users">>
           b == <<"/">>
           c == <<"/", "api", "/", "admin", "/", "users", "/">>
<1>1. a \in Seq(Letters) /\ Len(a) = 6 /\ a[1] = "/" /\ a[2] = "api" /\ a[3] = "/" /\ a[4] = "admin" /\ a[5] = "/" /\ a[6] = "users"
  BY DEF Letters
<1>2. b \in Seq(Letters) /\ Len(b) = 1 /\ b[1] = "/"
  BY DEF Letters
<1>3. c \in Seq(Letters) /\ Len(c) = 7
  BY DEF Letters
<1>4. c[1] = "/" /\ c[2] = "api" /\ c[3] = "/" /\ c[4] = "admin" /\ c[5] = "/" /\ c[6] = "users" /\ c[7] = "/"
  OBVIOUS
<1> HIDE DEF a, b, c
<1>5. ASSUME NEW j \in 1..6 PROVE c[j] = a[j]
  <2>1. j = 1 \/ j = 2 \/ j = 3 \/ j = 4 \/ j = 5 \/ j = 6
    OBVIOUS
  <2> QED BY <1>1, <1>4, <2>1
<1>6. ASSUME NEW j \in 1..1 PROVE c[6 + j] = b[j]
  <2>1. (j = 1 /\ 6 + j = 7)
    OBVIOUS
  <2> QED BY <1>2, <1>4, <2>1
<1>7. IsConcat(Letters, c, a, b)
  BY <1>1, <1>2, <1>3, <1>5, <1>6 DEF IsConcat
<1>8. a \o b = c
  BY <1>1, <1>2, <1>7, ConcatOf
<1> QED BY <1>8 DEF a, b, c

\* A query for an administrator.
LEMMA AskedAdmin == <<"?">> \o <<"a", "=">> = <<"?", "a", "=">>
<1> DEFINE a == <<"?">>
           b == <<"a", "=">>
           c == <<"?", "a", "=">>
<1>1. a \in Seq(Letters) /\ Len(a) = 1 /\ a[1] = "?"
  BY DEF Letters
<1>2. b \in Seq(Letters) /\ Len(b) = 2 /\ b[1] = "a" /\ b[2] = "="
  BY DEF Letters
<1>3. c \in Seq(Letters) /\ Len(c) = 3
  BY DEF Letters
<1>4. c[1] = "?" /\ c[2] = "a" /\ c[3] = "="
  OBVIOUS
<1> HIDE DEF a, b, c
<1>5. ASSUME NEW j \in 1..1 PROVE c[j] = a[j]
  <2>1. j = 1
    OBVIOUS
  <2> QED BY <1>1, <1>4, <2>1
<1>6. ASSUME NEW j \in 1..2 PROVE c[1 + j] = b[j]
  <2>1. (j = 1 /\ 1 + j = 2) \/ (j = 2 /\ 1 + j = 3)
    OBVIOUS
  <2> QED BY <1>2, <1>4, <2>1
<1>7. IsConcat(Letters, c, a, b)
  BY <1>1, <1>2, <1>3, <1>5, <1>6 DEF IsConcat
<1>8. a \o b = c
  BY <1>1, <1>2, <1>7, ConcatOf
<1> QED BY <1>8 DEF a, b, c

\* The path of the query page, and what follows.
LEMMA AdvancedPath == <<"/", "query", "/", "advanced">> \o <<"?">> = <<"/", "query", "/", "advanced", "?">>
<1> DEFINE a == <<"/", "query", "/", "advanced">>
           b == <<"?">>
           c == <<"/", "query", "/", "advanced", "?">>
<1>1. a \in Seq(Letters) /\ Len(a) = 4 /\ a[1] = "/" /\ a[2] = "query" /\ a[3] = "/" /\ a[4] = "advanced"
  BY DEF Letters
<1>2. b \in Seq(Letters) /\ Len(b) = 1 /\ b[1] = "?"
  BY DEF Letters
<1>3. c \in Seq(Letters) /\ Len(c) = 5
  BY DEF Letters
<1>4. c[1] = "/" /\ c[2] = "query" /\ c[3] = "/" /\ c[4] = "advanced" /\ c[5] = "?"
  OBVIOUS
<1> HIDE DEF a, b, c
<1>5. ASSUME NEW j \in 1..4 PROVE c[j] = a[j]
  <2>1. j = 1 \/ j = 2 \/ j = 3 \/ j = 4
    OBVIOUS
  <2> QED BY <1>1, <1>4, <2>1
<1>6. ASSUME NEW j \in 1..1 PROVE c[4 + j] = b[j]
  <2>1. (j = 1 /\ 4 + j = 5)
    OBVIOUS
  <2> QED BY <1>2, <1>4, <2>1
<1>7. IsConcat(Letters, c, a, b)
  BY <1>1, <1>2, <1>3, <1>5, <1>6 DEF IsConcat
<1>8. a \o b = c
  BY <1>1, <1>2, <1>7, ConcatOf
<1> QED BY <1>8 DEF a, b, c

\* The first parameter of the query page.
LEMMA AdvancedLimit == <<"/", "query", "/", "advanced", "?">> \o <<"l", "=">> = <<"/", "query", "/", "advanced", "?", "l", "=">>
<1> DEFINE a == <<"/", "query", "/", "advanced", "?">>
           b == <<"l", "=">>
           c == <<"/", "query", "/", "advanced", "?", "l", "=">>
<1>1. a \in Seq(Letters) /\ Len(a) = 5 /\ a[1] = "/" /\ a[2] = "query" /\ a[3] = "/" /\ a[4] = "advanced" /\ a[5] = "?"
  BY DEF Letters
<1>2. b \in Seq(Letters) /\ Len(b) = 2 /\ b[1] = "l" /\ b[2] = "="
  BY DEF Letters
<1>3. c \in Seq(Letters) /\ Len(c) = 7
  BY DEF Letters
<1>4. c[1] = "/" /\ c[2] = "query" /\ c[3] = "/" /\ c[4] = "advanced" /\ c[5] = "?" /\ c[6] = "l" /\ c[7] = "="
  OBVIOUS
<1> HIDE DEF a, b, c
<1>5. ASSUME NEW j \in 1..5 PROVE c[j] = a[j]
  <2>1. j = 1 \/ j = 2 \/ j = 3 \/ j = 4 \/ j = 5
    OBVIOUS
  <2> QED BY <1>1, <1>4, <2>1
<1>6. ASSUME NEW j \in 1..2 PROVE c[5 + j] = b[j]
  <2>1. (j = 1 /\ 5 + j = 6) \/ (j = 2 /\ 5 + j = 7)
    OBVIOUS
  <2> QED BY <1>2, <1>4, <2>1
<1>7. IsConcat(Letters, c, a, b)
  BY <1>1, <1>2, <1>3, <1>5, <1>6 DEF IsConcat
<1>8. a \o b = c
  BY <1>1, <1>2, <1>7, ConcatOf
<1> QED BY <1>8 DEF a, b, c

\* The URLs of administrators.
LEMMA AdminBehind == ASSUME NEW p \in Seq(Letters) PROVE Admin(p) = <<"/", "api", "/", "admin", "/", "users">> \o p
<1> DEFINE a == <<"/", "api", "/">>
           b == <<"admin", "/", "users">>
           c == <<"/", "api", "/", "admin", "/", "users">>
<1>1. a \in Seq(Letters) /\ b \in Seq(Letters)
  BY DEF Letters
<1>2. Admin(p) = a \o (b \o p) /\ a \o b = c
  BY AdminPath DEF Admin, Api
<1> HIDE DEF a, b, c
<1>3. (a \o b) \o p = a \o (b \o p)
  BY <1>1, TogetherLetters DEF Together
<1>4. Admin(p) = c \o p
  BY <1>2, <1>3, Zenon
<1> QED BY <1>4 DEF c

\* GET /api/admin/users?a=...
LEMMA UsersUrl ==
  ASSUME NEW w, IsDigits(w)
  PROVE  /\ Queried(Admin(<<"?", "a", "=">> \o w), <<"/", "api", "/", "admin", "/", "users">>, KeyedBy("a", w))
         /\ IsPair(KeyedBy("a", w), "a", w) /\ Unsplit(KeyedBy("a", w))
<1> DEFINE path == <<"/", "api", "/", "admin", "/", "users">>
           q == <<"?">>
           k == <<"a", "=">>
           qk == <<"?", "a", "=">>
           qs == KeyedBy("a", w)
           url == Admin(qk \o w)
<1>1. w \in Seq(Letters) /\ PlainValue(w)
  BY DigitsLetters, DigitsPlain
<1>2. path \in Seq(Letters) /\ q \in Seq(Letters) /\ k \in Seq(Letters) /\ qk \in Seq(Letters) /\ "a" \in Letters \ {"=", "&"}
  BY DEF Letters
<1>3. \A j \in 1..Len(path) : path[j] # "?"
  <2>1. Len(path) = 6 /\ path[1] # "?" /\ path[2] # "?" /\ path[3] # "?" /\ path[4] # "?" /\ path[5] # "?" /\ path[6] # "?"
    OBVIOUS
  <2> HIDE DEF path
  <2>2. \A j \in 1..6 : j = 1 \/ j = 2 \/ j = 3 \/ j = 4 \/ j = 5 \/ j = 6
    OBVIOUS
  <2> QED BY <2>1, <2>2
<1>4. q \o k = qk /\ qs = k \o w
  BY AskedAdmin DEF KeyedBy
<1>5. IsPair(qs, "a", w) /\ Unsplit(qs)
  BY <1>1, <1>2, KeyedPair
<1>6. \A p \in Seq(Letters) : Admin(p) = path \o p
  BY AdminBehind
<1> HIDE DEF path, q, k, qk, qs
<1>7. qk \o w \in Seq(Letters) /\ qs \in Seq(Letters) /\ (q \o k) \o w = q \o (k \o w) /\ (path \o q) \o qs = path \o (q \o qs)
  <2>1. qk \o w \in Seq(Letters) /\ k \o w \in Seq(Letters)
    BY <1>1, <1>2, TogetherLetters DEF Together
  <2>2. qs \in Seq(Letters)
    BY <1>4, <2>1
  <2>3. (q \o k) \o w = q \o (k \o w)
    BY <1>1, <1>2, TogetherLetters DEF Together
  <2>4. (path \o q) \o qs = path \o (q \o qs)
    BY <1>2, <2>2, TogetherLetters DEF Together
  <2> QED BY <2>1, <2>2, <2>3, <2>4
<1>8. url = (path \o q) \o qs
  <2>1. url = path \o (qk \o w)
    BY <1>6, <1>7
  <2> QED BY <1>4, <1>7, <2>1, Zenon
<1>9. Queried((path \o q) \o qs, path, qs)
  BY <1>2, <1>3, <1>7, QueriedBehind DEF q
<1>10. Queried(url, path, qs)
  BY <1>8, <1>9, Zenon
<1> QED BY <1>5, <1>10 DEF url, path, qk, qs

\* DELETE /api/admin/users/<int>?a=...
LEMMA UserUrl ==
  ASSUME NEW t, IsDigits(t), NEW w, IsDigits(w)
  PROVE  /\ Queried(Admin(<<"/">> \o t \o <<"?", "a", "=">> \o w), <<"/", "api", "/", "admin", "/", "users", "/">> \o t, KeyedBy("a", w))
         /\ IsPair(KeyedBy("a", w), "a", w) /\ Unsplit(KeyedBy("a", w))
<1> DEFINE w6 == <<"/", "api", "/", "admin", "/", "users">>
           w7 == <<"/", "api", "/", "admin", "/", "users", "/">>
           x == <<"/">>
           q == <<"?">>
           k == <<"a", "=">>
           qk == <<"?", "a", "=">>
           qs == KeyedBy("a", w)
           path == w7 \o t
           r == ((x \o t) \o qk) \o w
           url == Admin(r)
<1>1. t \in Seq(Letters) /\ w \in Seq(Letters) /\ PlainValue(w) /\ \A j \in 1..Len(t) : t[j] # "?"
  BY DigitsLetters, DigitsPlain
<1>2. /\ w6 \in Seq(Letters) /\ w7 \in Seq(Letters) /\ x \in Seq(Letters) /\ q \in Seq(Letters) /\ k \in Seq(Letters)
      /\ qk \in Seq(Letters) /\ "a" \in Letters \ {"=", "&"}
  BY DEF Letters
<1>3. \A j \in 1..Len(path) : path[j] # "?"
  <2>1. Len(w7) = 7 /\ w7[1] # "?" /\ w7[2] # "?" /\ w7[3] # "?" /\ w7[4] # "?" /\ w7[5] # "?" /\ w7[6] # "?" /\ w7[7] # "?"
    OBVIOUS
  <2> HIDE DEF w7
  <2>2. \A j \in 1..7 : j = 1 \/ j = 2 \/ j = 3 \/ j = 4 \/ j = 5 \/ j = 6 \/ j = 7
    OBVIOUS
  <2>3. \A j \in 1..7 : w7[j] # "?"
    BY <2>1, <2>2
  <2>4. IsConcat(Letters, path, w7, t)
    BY <1>1, <1>2, ConcatIs
  <2> HIDE DEF path
  <2>5. Len(path) = 7 + Len(t) /\ Len(t) \in Nat /\ (\A j \in 1..7 : path[j] = w7[j]) /\ \A j \in 1..Len(t) : path[7 + j] = t[j]
    BY <2>1, <2>4 DEF IsConcat
  <2> SUFFICES ASSUME NEW j \in 1..Len(path) PROVE path[j] # "?"
    OBVIOUS
  <2>6. j \in 1..7 \/ (j - 7 \in 1..Len(t) /\ 7 + (j - 7) = j)
    BY <2>5
  <2>7. CASE j \in 1..7
    BY <2>3, <2>5, <2>7
  <2>8. CASE j - 7 \in 1..Len(t) /\ 7 + (j - 7) = j
    <3>1. path[7 + (j - 7)] = t[j - 7] /\ t[j - 7] # "?"
      BY <1>1, <2>5, <2>8
    <3> QED BY <2>8, <3>1
  <2> QED BY <2>6, <2>7, <2>8
<1>4. q \o k = qk /\ qs = k \o w /\ w6 \o x = w7
  BY AskedAdmin, UsersPath DEF KeyedBy
<1>5. IsPair(qs, "a", w) /\ Unsplit(qs)
  BY <1>1, <1>2, KeyedPair
<1>6. \A p \in Seq(Letters) : Admin(p) = w6 \o p
  BY AdminBehind
<1>7. path = w7 \o t /\ r = ((x \o t) \o qk) \o w
  OBVIOUS
<1> HIDE DEF path, w6, w7, x, q, k, qk, qs, r
<1>8. t \in Seq(Letters) /\ w \in Seq(Letters) /\ w6 \in Seq(Letters) /\ w7 \in Seq(Letters) /\ x \in Seq(Letters) /\ q \in Seq(Letters) /\ k \in Seq(Letters) /\ qk \in Seq(Letters)
  BY <1>1, <1>2
<1>9. k \o w \in Seq(Letters) /\ q \o k \in Seq(Letters) /\ x \o t \in Seq(Letters) /\ w7 \o t \in Seq(Letters)
  BY <1>8, TogetherLetters, Zenon DEF Together
<1>10. qs \in Seq(Letters) /\ path \in Seq(Letters) /\ (x \o t) \o qk \in Seq(Letters) /\ q \o qs \in Seq(Letters)
  <2>1. qs \in Seq(Letters) /\ path \in Seq(Letters)
    BY <1>4, <1>7, <1>9
  <2> QED BY <1>8, <1>9, <2>1, TogetherLetters, Zenon DEF Together
<1>11. r \in Seq(Letters)
  BY <1>7, <1>8, <1>10, TogetherLetters, Zenon DEF Together
<1>12. r = (x \o t) \o (q \o qs)
  <2>1. ((x \o t) \o qk) \o w = (x \o t) \o (qk \o w)
    <3>1. (x \o t) \in Seq(Letters) /\ qk \in Seq(Letters) /\ w \in Seq(Letters)
      BY <1>8, <1>9
    <3> QED BY <3>1, InTurn
  <2>2. (q \o k) \o w = q \o (k \o w)
    <3>1. q \in Seq(Letters) /\ k \in Seq(Letters) /\ w \in Seq(Letters)
      BY <1>8
    <3> QED BY <3>1, InTurn
  <2> QED BY <1>4, <1>7, <2>1, <2>2, Zenon
<1>13. w6 \o r = path \o (q \o qs)
  <2>1. w6 \o ((x \o t) \o (q \o qs)) = (w6 \o (x \o t)) \o (q \o qs)
    <3>1. w6 \in Seq(Letters) /\ (x \o t) \in Seq(Letters) /\ (q \o qs) \in Seq(Letters)
      BY <1>8, <1>9, <1>10
    <3> QED BY <3>1, InTurn
  <2>2. w6 \o (x \o t) = (w6 \o x) \o t
    <3>1. w6 \in Seq(Letters) /\ x \in Seq(Letters) /\ t \in Seq(Letters)
      BY <1>8
    <3> QED BY <3>1, InTurn
  <2> QED BY <1>4, <1>7, <1>12, <2>1, <2>2, Zenon
<1>14. path \o (q \o qs) = (path \o q) \o qs
  <2>1. path \in Seq(Letters) /\ q \in Seq(Letters) /\ qs \in Seq(Letters)
    BY <1>8, <1>10
  <2> QED BY <2>1, InTurn
<1>15. url = (path \o q) \o qs
  <2>1. url = w6 \o r
    BY <1>6, <1>11
  <2> QED BY <1>13, <1>14, <2>1, Zenon
<1>16. Queried((path \o q) \o qs, path, qs)
  BY <1>3, <1>10, QueriedBehind DEF q
<1>17. Queried(url, path, qs)
  BY <1>15, <1>16, Zenon
<1> QED BY <1>5, <1>17 DEF url, path, qs, r, x, qk, w7

\* The parameters of the query page.
Asked(t, by, order) == <<"l", "=">> \o t \o <<"&", "s", "=", by, "&", "o", "=", order>>

\* Where they stand.
AskedAt(qs, t, by, order) ==
  /\ qs \in Seq(Letters) /\ Len(qs) = 10 + Len(t) /\ Len(t) \in Nat
  /\ qs[1] = "l" /\ qs[2] = "=" /\ (\A j \in 1..Len(t) : qs[2 + j] = t[j])
  /\ qs[3 + Len(t)] = "&" /\ qs[4 + Len(t)] = "s" /\ qs[5 + Len(t)] = "=" /\ qs[6 + Len(t)] = by
  /\ qs[7 + Len(t)] = "&" /\ qs[8 + Len(t)] = "o" /\ qs[9 + Len(t)] = "=" /\ qs[10 + Len(t)] = order

LEMMA AskedStands ==
  ASSUME NEW t, IsDigits(t), NEW by \in Letters, NEW order \in Letters
  PROVE  AskedAt(Asked(t, by, order), t, by, order)
<1> DEFINE k == <<"l", "=">>
           e == <<"&", "s", "=", by, "&", "o", "=", order>>
           a == k \o t
           qs == a \o e
           n == Len(t)
<1>1. t \in Seq(Letters) /\ n \in Nat
  BY DigitsLetters
<1>2. k \in Seq(Letters) /\ Len(k) = 2 /\ k[1] = "l" /\ k[2] = "="
  BY DEF Letters
<1>3. e \in Seq(Letters)
  BY DEF Letters
<1>4. Len(e) = 8 /\ e[1] = "&" /\ e[2] = "s" /\ e[3] = "=" /\ e[4] = by /\ e[5] = "&" /\ e[6] = "o" /\ e[7] = "=" /\ e[8] = order
  OBVIOUS
<1>5. Asked(t, by, order) = qs
  BY DEF Asked
<1> HIDE DEF k, e
<1>6. IsConcat(Letters, a, k, t)
  BY <1>1, <1>2, ConcatIs
<1> HIDE DEF a
<1>7. a \in Seq(Letters) /\ Len(a) = 2 + n /\ a[1] = "l" /\ a[2] = "=" /\ \A j \in 1..n : a[2 + j] = t[j]
  <2>1. 1 \in 1..2 /\ 2 \in 1..2
    OBVIOUS
  <2> QED BY <1>2, <1>6, <2>1 DEF IsConcat
<1>8. IsConcat(Letters, qs, a, e)
  BY <1>3, <1>7, ConcatIs
<1> HIDE DEF qs
<1>9. qs \in Seq(Letters) /\ Len(qs) = (2 + n) + 8 /\ (\A j \in 1..2 + n : qs[j] = a[j]) /\ \A j \in 1..8 : qs[(2 + n) + j] = e[j]
  BY <1>4, <1>7, <1>8 DEF IsConcat
<1> HIDE DEF n
<1>10. /\ (2 + n) + 8 = 10 + n /\ 1 \in 1..2 + n /\ 2 \in 1..2 + n /\ (\A j \in 1..n : 2 + j \in 1..2 + n)
       /\ (2 + n) + 1 = 3 + n /\ (2 + n) + 2 = 4 + n /\ (2 + n) + 3 = 5 + n /\ (2 + n) + 4 = 6 + n
       /\ (2 + n) + 5 = 7 + n /\ (2 + n) + 6 = 8 + n /\ (2 + n) + 7 = 9 + n
       /\ 1 \in 1..8 /\ 2 \in 1..8 /\ 3 \in 1..8 /\ 4 \in 1..8 /\ 5 \in 1..8 /\ 6 \in 1..8 /\ 7 \in 1..8 /\ 8 \in 1..8
  BY <1>1
<1>11. qs[1] = "l" /\ qs[2] = "=" /\ \A j \in 1..n : qs[2 + j] = t[j]
  BY <1>7, <1>9, <1>10
<1>12. /\ qs[3 + n] = e[1] /\ qs[4 + n] = e[2] /\ qs[5 + n] = e[3] /\ qs[6 + n] = e[4]
       /\ qs[7 + n] = e[5] /\ qs[8 + n] = e[6] /\ qs[9 + n] = e[7] /\ qs[10 + n] = e[8]
  BY <1>9, <1>10
<1>13. Len(qs) = 10 + n
  BY <1>9, <1>10
<1>14. AskedAt(qs, t, by, order)
  BY <1>1, <1>4, <1>9, <1>11, <1>12, <1>13 DEF AskedAt, n
<1> QED BY <1>5, <1>14

\* A pair within a query.
PairIn(qs, lo, hi, key, v) ==
  /\ lo \in Nat /\ lo >= 1 /\ hi = lo + 1 + Len(v) /\ hi <= Len(qs) /\ v \in Seq(Letters) /\ PlainValue(v) /\ key \notin {"=", "#"}
  /\ qs[lo] = key /\ qs[lo + 1] = "=" /\ \A j \in 1..Len(v) : qs[lo + 1 + j] = v[j]

LEMMA PairWithin ==
  ASSUME NEW qs \in Seq(Letters), NEW lo, NEW hi, NEW key, NEW v, PairIn(qs, lo, hi, key, v)
  PROVE  IsPair(SubSeq(qs, lo, hi), key, v)
<1> DEFINE p == SubSeq(qs, lo, hi)
           a == <<key, "=">>
<1>1. /\ lo \in Nat /\ lo >= 1 /\ hi = lo + 1 + Len(v) /\ hi <= Len(qs) /\ v \in Seq(Letters) /\ Len(v) \in Nat /\ Len(qs) \in Nat
      /\ qs[lo] = key /\ qs[lo + 1] = "=" /\ \A j \in 1..Len(v) : qs[lo + 1 + j] = v[j]
  BY LenProperties DEF PairIn
<1>2. /\ p \in Seq(Letters) /\ Len(p) = 2 + Len(v)
      /\ \A j \in 1..2 + Len(v) : p[j] = qs[lo + j - 1]
  <2>1. \A i \in lo..hi : qs[i] \in Letters
    <3>1. \A i \in lo..hi : i \in 1..Len(qs)
      BY <1>1
    <3> QED BY <3>1, ElementOfSeq
  <2>2. lo \in Int /\ hi \in Int /\ lo <= hi /\ hi - lo + 1 = 2 + Len(v)
    BY <1>1
  <2>3. /\ p \in Seq(Letters) /\ Len(p) = (IF lo <= hi THEN hi - lo + 1 ELSE 0)
        /\ \A j \in 1..(hi - lo + 1) : p[j] = qs[lo + j - 1]
    BY <2>1, <2>2, SubSeqProperties
  <2> HIDE DEF p
  <2> QED BY <2>2, <2>3
<1>3. Len(a) = 2 /\ a[1] = key /\ a[2] = "=" /\ \A j \in 1..2 : j = 1 \/ j = 2
  OBVIOUS
<1> HIDE DEF p, a
<1>4. \A j \in 1..2 : p[j] = a[j]
  <2>1. lo + 1 - 1 = lo /\ lo + 2 - 1 = lo + 1 /\ 1 \in 1..2 + Len(v) /\ 2 \in 1..2 + Len(v)
    BY <1>1
  <2>2. p[1] = key /\ p[2] = "="
    BY <1>1, <1>2, <2>1
  <2> QED BY <1>3, <2>2
<1>5. \A j \in 1..Len(v) : p[2 + j] = v[j]
  <2> TAKE j \in 1..Len(v)
  <2>1. 2 + j \in 1..2 + Len(v) /\ lo + (2 + j) - 1 = lo + 1 + j
    BY <1>1
  <2> QED BY <1>1, <1>2, <2>1
<1>6. IsConcat(Letters, p, a, v)
  BY <1>1, <1>2, <1>3, <1>4, <1>5 DEF IsConcat
<1> QED BY <1>1, <1>6 DEF IsPair, PairIn, p, a

\* The three parameters of the query page.
LEMMA AskedPairs ==
  ASSUME NEW t, IsDigits(t), NEW by \in {"d", "r", "f"}, NEW order \in {"desc", "asc"}
  PROVE  ThreePairs(Pieces(Asked(t, by, order)), "l", t, "s", <<by>>, "o", <<order>>)
<1> DEFINE qs == Asked(t, by, order)
           n == Len(t)
<1>1. /\ qs \in Seq(Letters) /\ Len(qs) = 10 + n /\ n \in Nat
      /\ qs[1] = "l" /\ qs[2] = "=" /\ (\A j \in 1..n : qs[2 + j] = t[j])
      /\ qs[3 + n] = "&" /\ qs[4 + n] = "s" /\ qs[5 + n] = "=" /\ qs[6 + n] = by
      /\ qs[7 + n] = "&" /\ qs[8 + n] = "o" /\ qs[9 + n] = "=" /\ qs[10 + n] = order
  <2>1. by \in Letters /\ order \in Letters
    BY DEF Letters
  <2> HIDE DEF qs
  <2>2. AskedAt(qs, t, by, order)
    BY <2>1, AskedStands DEF qs
  <2> QED BY <2>2 DEF AskedAt
<1>2. \A j \in 1..n : t[j] # "&"
  BY DigitsPlain DEF PlainValue
<1>3. by # "&" /\ order # "&"
  OBVIOUS
<1>4. t \in Seq(Letters) /\ PlainValue(t)
  BY DigitsLetters, DigitsPlain
<1>5. <<by>> \in Seq(Letters) /\ Len(<<by>>) = 1 /\ <<by>>[1] = by /\ PlainValue(<<by>>)
  <2>1. by \in Letters /\ by \notin {"=", "#", "&", "%", "+"}
    BY DEF Letters
  <2>2. <<by>> \in Seq(Letters) /\ Len(<<by>>) = 1 /\ <<by>>[1] = by
    BY <2>1
  <2>3. \A j \in 1..1 : j = 1
    OBVIOUS
  <2> QED BY <2>1, <2>2, <2>3 DEF PlainValue
<1>6. <<order>> \in Seq(Letters) /\ Len(<<order>>) = 1 /\ <<order>>[1] = order /\ PlainValue(<<order>>)
  <2>1. order \in Letters /\ order \notin {"=", "#", "&", "%", "+"}
    BY DEF Letters
  <2>2. <<order>> \in Seq(Letters) /\ Len(<<order>>) = 1 /\ <<order>>[1] = order
    BY <2>1
  <2>3. \A j \in 1..1 : j = 1
    OBVIOUS
  <2> QED BY <2>1, <2>2, <2>3 DEF PlainValue
<1> DEFINE vb == <<by>>
           vo == <<order>>
<1> HIDE DEF qs, n, vb, vo
<1>7. TwoSplits(qs, 3 + n, 7 + n)
  <2>1. 3 + n \in 1..Len(qs) /\ 7 + n \in 1..Len(qs) /\ 3 + n < 7 + n
    BY <1>1
  <2>2. ASSUME NEW i \in 1..Len(qs) PROVE qs[i] = "&" <=> i = 3 + n \/ i = 7 + n
    <3>1. \/ i = 1 \/ i = 2 \/ (i - 2 \in 1..n /\ 2 + (i - 2) = i)
          \/ i = 3 + n \/ i = 4 + n \/ i = 5 + n \/ i = 6 + n \/ i = 7 + n \/ i = 8 + n \/ i = 9 + n \/ i = 10 + n
      BY <1>1
    <3>2. CASE i = 1 \/ i = 2
      BY <1>1, <3>2
    <3>3. CASE i - 2 \in 1..n /\ 2 + (i - 2) = i
      <4>1. qs[2 + (i - 2)] = t[i - 2] /\ t[i - 2] # "&" /\ i # 3 + n /\ i # 7 + n
        BY <1>1, <1>2, <3>3
      <4> QED BY <3>3, <4>1
    <3>4. CASE i = 3 + n \/ i = 7 + n
      BY <1>1, <3>4
    <3>5. CASE i = 4 + n \/ i = 5 + n \/ i = 6 + n \/ i = 8 + n \/ i = 9 + n \/ i = 10 + n
      BY <1>1, <1>3, <3>5
    <3> QED BY <3>1, <3>2, <3>3, <3>4, <3>5
  <2> QED BY <2>1, <2>2 DEF TwoSplits
<1> DEFINE a == 3 + n
           b == 7 + n
<1>7a. a = 3 + n /\ b = 7 + n /\ TwoSplits(qs, a, b) /\ n \in Nat
  BY <1>1, <1>7
<1> HIDE DEF a, b
<1> DEFINE p1 == SubSeq(qs, 1, a - 1)
           p2 == SubSeq(qs, a + 1, b - 1)
           p3 == SubSeq(qs, b + 1, Len(qs))
           p == Pieces(qs)
<1>8. p = <<p1, p2, p3>>
  <2>1. qs \in Seq(Letters)
    BY <1>1
  <2>2. TwoSplits(qs, a, b)
    BY <1>7a
  <2> QED BY <2>1, <2>2, ThreePieces
<1>9. Len(p) = 3 /\ DOMAIN p = 1..3 /\ p[1] = p1 /\ p[2] = p2 /\ p[3] = p3
  <2> HIDE DEF p, p1, p2, p3
  <2> QED BY <1>8
<1>10. IsPair(p1, "l", t)
  <2>1. PairIn(qs, 1, 3 + n - 1, "l", t)
    <3>1. 3 + n - 1 = 1 + 1 + Len(t) /\ 3 + n - 1 <= Len(qs) /\ 1 \in Nat /\ 1 >= 1 /\ 1 + 1 = 2
      BY <1>1 DEF n
    <3>2. "l" \notin {"=", "#"}
      OBVIOUS
    <3> QED BY <1>1, <1>4, <3>1, <3>2 DEF PairIn, n
  <2> DEFINE z == 3 + n - 1
  <2>3. a - 1 = z
    BY <1>7a
  <2> HIDE DEF z
  <2>4. p1 = SubSeq(qs, 1, z)
    BY <2>3
  <2>2. p1 = SubSeq(qs, 1, 3 + n - 1)
    BY <2>4 DEF z
  <2> HIDE DEF p1
  <2> QED BY <1>1, <2>1, <2>2, PairWithin
<1>11. IsPair(p2, "s", vb)
  <2>1. PairIn(qs, 3 + n + 1, 7 + n - 1, "s", vb)
    <3>1. 7 + n - 1 = 3 + n + 1 + 1 + Len(vb) /\ 7 + n - 1 <= Len(qs) /\ 3 + n + 1 \in Nat /\ 3 + n + 1 >= 1 /\ 3 + n + 1 = 4 + n /\ 3 + n + 1 + 1 = 5 + n
          /\ 3 + n + 1 + 1 + 1 = 6 + n /\ (\A j \in 1..1 : j = 1)
      BY <1>1, <1>5 DEF vb
    <3>2. "s" \notin {"=", "#"}
      OBVIOUS
    <3>3. vb \in Seq(Letters) /\ Len(vb) = 1 /\ vb[1] = by /\ PlainValue(vb)
      BY <1>5 DEF vb
    <3>4. \A j \in 1..Len(vb) : qs[3 + n + 1 + 1 + j] = vb[j]
      BY <1>1, <3>1, <3>3
    <3> QED BY <1>1, <3>1, <3>2, <3>3, <3>4 DEF PairIn
  <2> DEFINE y == 3 + n + 1
             z == 7 + n - 1
  <2>3. a + 1 = y /\ b - 1 = z
    BY <1>7a
  <2> HIDE DEF y, z
  <2>4. p2 = SubSeq(qs, y, z)
    BY <2>3
  <2> HIDE DEF p2
  <2>2. p2 = SubSeq(qs, 3 + n + 1, 7 + n - 1)
    BY <2>4 DEF y, z
  <2> HIDE DEF p2
  <2> QED BY <1>1, <2>1, <2>2, PairWithin
<1>12. IsPair(p3, "o", vo)
  <2>1. PairIn(qs, 7 + n + 1, Len(qs), "o", vo)
    <3>1. Len(qs) = 7 + n + 1 + 1 + Len(vo) /\ Len(qs) <= Len(qs) /\ 7 + n + 1 \in Nat /\ 7 + n + 1 >= 1 /\ 7 + n + 1 = 8 + n /\ 7 + n + 1 + 1 = 9 + n
          /\ 7 + n + 1 + 1 + 1 = 10 + n /\ (\A j \in 1..1 : j = 1)
      BY <1>1, <1>6 DEF vo
    <3>2. "o" \notin {"=", "#"}
      OBVIOUS
    <3>3. vo \in Seq(Letters) /\ Len(vo) = 1 /\ vo[1] = order /\ PlainValue(vo)
      BY <1>6 DEF vo
    <3>4. \A j \in 1..Len(vo) : qs[7 + n + 1 + 1 + j] = vo[j]
      BY <1>1, <3>1, <3>3
    <3> QED BY <1>1, <3>1, <3>2, <3>3, <3>4 DEF PairIn
  <2>2. p3 = SubSeq(qs, 7 + n + 1, Len(qs))
    BY <1>7a, Zenon
  <2> HIDE DEF p3
  <2> QED BY <1>1, <2>1, <2>2, PairWithin
<1> HIDE DEF p, p1, p2, p3
<1>13. "l" # "s" /\ "l" # "o" /\ "s" # "o"
  OBVIOUS
<1>14. ThreePairs(p, "l", t, "s", vb, "o", vo)
  BY <1>9, <1>10, <1>11, <1>12, <1>13 DEF ThreePairs
<1> QED BY <1>14 DEF p, qs, vb, vo

\* GET /query/advanced?l=...&s=...&o=...
LEMMA AdvancedUrl ==
  ASSUME NEW t, IsDigits(t), NEW by \in {"d", "r", "f"}, NEW order \in {"desc", "asc"}
  PROVE  Queried(<<"/", "query", "/", "advanced", "?", "l", "=">> \o t \o <<"&", "s", "=", by, "&", "o", "=", order>>,
                 <<"/", "query", "/", "advanced">>, Asked(t, by, order))
<1> DEFINE w4 == <<"/", "query", "/", "advanced">>
           q == <<"?">>
           w5 == <<"/", "query", "/", "advanced", "?">>
           k == <<"l", "=">>
           w7 == <<"/", "query", "/", "advanced", "?", "l", "=">>
           e == <<"&", "s", "=", by, "&", "o", "=", order>>
           qs == Asked(t, by, order)
           url == (w7 \o t) \o e
<1>1. t \in Seq(Letters)
  BY DigitsLetters
<1>2. w4 \in Seq(Letters) /\ q \in Seq(Letters) /\ w5 \in Seq(Letters) /\ k \in Seq(Letters) /\ w7 \in Seq(Letters)
  BY DEF Letters
<1>3. e \in Seq(Letters)
  BY DEF Letters
<1>4. \A j \in 1..Len(w4) : w4[j] # "?"
  <2>1. Len(w4) = 4 /\ w4[1] # "?" /\ w4[2] # "?" /\ w4[3] # "?" /\ w4[4] # "?"
    OBVIOUS
  <2> HIDE DEF w4
  <2>2. \A j \in 1..4 : j = 1 \/ j = 2 \/ j = 3 \/ j = 4
    OBVIOUS
  <2> QED BY <2>1, <2>2
<1>5. w4 \o q = w5 /\ w5 \o k = w7 /\ qs = (k \o t) \o e
  BY AdvancedPath, AdvancedLimit DEF Asked
<1> HIDE DEF w4, q, w5, k, w7, e, qs
<1>6. k \o t \in Seq(Letters)
  <2>1. k \in Seq(Letters)
    BY <1>2
  <2> QED BY <1>1, <2>1, TogetherLetters DEF Together
<1>7. qs \in Seq(Letters)
  <2>1. (k \o t) \o e \in Seq(Letters)
    BY <1>3, <1>6, TogetherLetters DEF Together
  <2> QED BY <1>5, <2>1
<1>8. (w5 \o k) \o t = w5 \o (k \o t)
  <2>1. w5 \in Seq(Letters) /\ k \in Seq(Letters) /\ t \in Seq(Letters)
    BY <1>1, <1>2
  <2> QED BY <2>1, InTurn
<1>9. (w5 \o (k \o t)) \o e = w5 \o ((k \o t) \o e)
  <2>1. w5 \in Seq(Letters) /\ (k \o t) \in Seq(Letters) /\ e \in Seq(Letters)
    BY <1>2, <1>3, <1>6
  <2> QED BY <2>1, InTurn
<1>10. url = (w4 \o q) \o qs
  BY <1>5, <1>8, <1>9, Zenon
<1>11. Queried((w4 \o q) \o qs, w4, qs)
  <2>1. w4 \in Seq(Letters)
    BY <1>2
  <2> QED BY <1>4, <1>7, <2>1, QueriedBehind DEF q
<1>12. Queried(url, w4, qs)
  BY <1>10, <1>11, Zenon
<1> QED BY <1>12 DEF url, w4, qs, w7, e

-----------------------------------------------------------------------------
(* Where the requests of the pages go. *)

\* A URL without a query is its own path.
NoQuestion(url) == \A j \in 1..Len(url) : url[j] # "?"
LEMMA NoQuery ==
  ASSUME NEW url \in Seq(Letters), NoQuestion(url)
  PROVE  SubSeq(url, 1, strcspn(url, {"?"})) = url
<1> DEFINE n == Len(url)
<1>1. n \in Nat /\ n \in 0..n /\ ~(n < n)
  BY LenProperties
<1>2. strcspn(url, {"?"}) = n
  <2>1. \A j \in 1..n : url[j] \notin {"?"}
    BY DEF NoQuestion
  <2>2. n < Len(url) => url[n + 1] \in {"?"}
    BY <1>1
  <2> HIDE DEF n
  <2>3. n \in 0..Len(url)
    BY <1>1 DEF n
  <2> QED BY <2>1, <2>2, <2>3, StopAt
<1>3. SubSeq(url, 1, n) = url
  <2> DEFINE s == SubSeq(url, 1, n)
  <2>1. \A i \in 1..n : url[i] \in Letters
    BY ElementOfSeq
  <2>2. /\ s \in Seq(Letters) /\ Len(s) = (IF 1 <= n THEN n - 1 + 1 ELSE 0)
        /\ \A i \in 1..(n - 1 + 1) : s[i] = url[1 + i - 1]
    BY <1>1, <2>1, SubSeqProperties
  <2> HIDE DEF s
  <2>3. Len(s) = Len(url) /\ \A i \in 1..Len(s) : s[i] = url[i]
    BY <1>1, <2>2
  <2>4. s = url
    BY <2>2, <2>3, SeqEqual
  <2> QED BY <2>4 DEF s
<1> QED BY <1>2, <1>3

\* Nor has one that ends with a number a query.
LEMMA NumberedPath ==
  ASSUME NEW url, NEW w \in Seq(Letters), NEW t, IsDigits(t), Numbered(url, w, t), NoQuestion(w)
  PROVE  url \in Seq(Letters) /\ SubSeq(url, 1, strcspn(url, {"?"})) = url
<1>1. /\ url \in Seq(Letters) /\ Len(url) = Len(w) + Len(t)
      /\ \A j \in 1..Len(w) : url[j] = w[j]
      /\ \A j \in 1..Len(t) : url[Len(w) + j] = t[j]
  BY DEF Numbered
<1>2. Len(w) \in Nat /\ Len(t) \in Nat /\ \A j \in 1..Len(t) : t[j] # "?"
  BY LenProperties, DigitsLetters, DigitsPlain
<1>3. NoQuestion(url)
  <2> SUFFICES ASSUME NEW j \in 1..Len(url) PROVE url[j] # "?"
    BY DEF NoQuestion
  <2>1. CASE j <= Len(w)
    <3>1. j \in 1..Len(w)
      BY <1>2, <2>1
    <3> QED BY <1>1, <3>1 DEF NoQuestion
  <2>2. CASE j > Len(w)
    <3>1. j - Len(w) \in 1..Len(t) /\ Len(w) + (j - Len(w)) = j
      BY <1>1, <1>2, <2>2
    <3> QED BY <1>1, <1>2, <3>1
  <2> QED BY <1>2, <2>1, <2>2
<1> QED BY <1>1, <1>3, NoQuery

\* A URL under /api/ that ends with a number.
LEMMA ApiNumbered ==
  ASSUME NEW w \in Seq(Letters), NEW v \in Seq(Letters), SpellsApi(w, v), NEW t, IsDigits(t)
  PROVE  Numbered(Api(w \o t), v, t)
<1> DEFINE p == w \o t
           url == Api(p)
<1>1. t \in Seq(Letters) /\ Len(t) \in Nat /\ Len(w) \in Nat
  BY DigitsLetters, LenProperties
<1>2. Numbered(p, w, t)
  BY <1>1, NumberedAt
<1> HIDE DEF p
<1>3. /\ p \in Seq(Letters) /\ Len(p) = Len(w) + Len(t)
      /\ \A j \in 1..Len(w) : p[j] = w[j]
      /\ \A j \in 1..Len(t) : p[Len(w) + j] = t[j]
  BY <1>2 DEF Numbered
<1>4. ApiIs(url, p)
  BY <1>3, ApiAt
<1> HIDE DEF url
<1>5. /\ url \in Seq(Letters) /\ Len(url) = 3 + Len(p)
      /\ url[1] = "/" /\ url[2] = "api" /\ url[3] = "/"
      /\ \A j \in 1..Len(p) : url[3 + j] = p[j]
  BY <1>4 DEF ApiIs
<1>6. /\ Len(v) = 3 + Len(w) /\ v[1] = "/" /\ v[2] = "api" /\ v[3] = "/"
      /\ \A j \in 1..Len(w) : v[3 + j] = w[j]
  BY DEF SpellsApi
<1>7. \A j \in 1..Len(v) : url[j] = v[j]
  <2> TAKE j \in 1..Len(v)
  <2>1. j = 1 \/ j = 2 \/ j = 3 \/ (j - 3 \in 1..Len(w) /\ j - 3 \in 1..Len(p) /\ 3 + (j - 3) = j)
    BY <1>1, <1>3, <1>6
  <2>2. CASE j - 3 \in 1..Len(w) /\ j - 3 \in 1..Len(p) /\ 3 + (j - 3) = j
    <3>1. url[3 + (j - 3)] = p[j - 3] /\ p[j - 3] = w[j - 3] /\ v[3 + (j - 3)] = w[j - 3]
      BY <1>3, <1>5, <1>6, <2>2
    <3> QED BY <2>2, <3>1
  <2> QED BY <1>5, <1>6, <2>1, <2>2
<1>8. \A j \in 1..Len(t) : url[Len(v) + j] = t[j]
  <2> TAKE j \in 1..Len(t)
  <2>1. Len(w) + j \in 1..Len(p) /\ 3 + (Len(w) + j) = Len(v) + j
    BY <1>1, <1>3, <1>6
  <2> QED BY <1>3, <1>5, <2>1
<1>9. Len(url) = Len(v) + Len(t)
  BY <1>1, <1>3, <1>5, <1>6
<1>10. Numbered(url, v, t)
  BY <1>5, <1>7, <1>8, <1>9 DEF Numbered
<1> QED BY <1>10 DEF url, p

\* The words before the numbers.
LEMMA WordsSpelled ==
  /\ <<"project", "/">> \in Seq(Letters) /\ <<"/", "api", "/", "project", "/">> \in Seq(Letters)
  /\ SpellsApi(<<"project", "/">>, <<"/", "api", "/", "project", "/">>)
  /\ NoQuestion(<<"/", "api", "/", "project", "/">>)
  /\ <<"project", "s", "/">> \in Seq(Letters) /\ <<"/", "api", "/", "project", "s", "/">> \in Seq(Letters)
  /\ SpellsApi(<<"project", "s", "/">>, <<"/", "api", "/", "project", "s", "/">>)
  /\ NoQuestion(<<"/", "api", "/", "project", "s", "/">>)
  /\ <<"stats", "/">> \in Seq(Letters) /\ <<"/", "api", "/", "stats", "/">> \in Seq(Letters)
  /\ SpellsApi(<<"stats", "/">>, <<"/", "api", "/", "stats", "/">>)
  /\ NoQuestion(<<"/", "api", "/", "stats", "/">>)
  /\ <<"/", "log", "s", "/">> \in Seq(Letters) /\ NoQuestion(<<"/", "log", "s", "/">>)
<1>1. /\ <<"project", "/">> \in Seq(Letters) /\ <<"/", "api", "/", "project", "/">> \in Seq(Letters)
      /\ <<"project", "s", "/">> \in Seq(Letters) /\ <<"/", "api", "/", "project", "s", "/">> \in Seq(Letters)
  BY DEF Letters
<1>2. /\ <<"stats", "/">> \in Seq(Letters) /\ <<"/", "api", "/", "stats", "/">> \in Seq(Letters)
      /\ <<"/", "log", "s", "/">> \in Seq(Letters)
  BY DEF Letters
<1>3. SpellsApi(<<"project", "/">>, <<"/", "api", "/", "project", "/">>) /\ NoQuestion(<<"/", "api", "/", "project", "/">>)
  BY DEF SpellsApi, NoQuestion
<1>4. SpellsApi(<<"project", "s", "/">>, <<"/", "api", "/", "project", "s", "/">>) /\ NoQuestion(<<"/", "api", "/", "project", "s", "/">>)
  BY DEF SpellsApi, NoQuestion
<1>5. SpellsApi(<<"stats", "/">>, <<"/", "api", "/", "stats", "/">>) /\ NoQuestion(<<"/", "api", "/", "stats", "/">>)
  BY DEF SpellsApi, NoQuestion
<1>6. NoQuestion(<<"/", "log", "s", "/">>)
  BY DEF NoQuestion
<1> QED BY <1>1, <1>2, <1>3, <1>4, <1>5, <1>6, Zenon

\* A request goes to this handler, with these parameters.
Reaches(r, kind, p) == Routed(r).handler = kind /\ Routed(r).params = p
LEMMA ReachesByRule ==
  ASSUME RouterInv, Serving, NEW method \in {"GET", "POST", "PUT", "DELETE"}, NEW url, NEW key, NEW body,
         NEW path \in Seq(Letters), SubSeq(url, 1, strcspn(url, {"?"})) = path, NEW kind, NEW p,
         OnlyRule(method, path, kind, p)
  PROVE  Reaches(Request(method, url, key, body), kind, p)
<1> DEFINE r == Request(method, url, key, body)
<1>1. r.method = method /\ r.url = url
  BY DEF Request
<1> HIDE DEF r
<1>2. PathOf(r) = path
  BY <1>1 DEF PathOf
<1>3. r.method \in {"GET", "POST", "PUT", "DELETE"} /\ PathOf(r) \in Seq(Letters) /\ OnlyRule(r.method, PathOf(r), kind, p)
  BY <1>1, <1>2
<1>4. Routed(r).handler = kind /\ Routed(r).params = p
  <2>1. RoutedTo(r.method, PathOf(r), Routed(r))
    BY <1>3, RequestRouted
  <2> QED BY <1>3, <2>1 DEF RoutedTo, OnlyRule
<1> QED BY <1>4 DEF Reaches, r

\* The fixed URLs.
LEMMA FixedUrls ==
  /\ NoQuestion(Api(<<"auth", "/", "register">>))
  /\ NoQuestion(Api(<<"auth", "/", "log", "in">>))
  /\ NoQuestion(Api(<<"project", "/", "create">>))
<1>1. NoQuestion(<<"/", "api", "/", "auth", "/", "register">>)
  BY DEF NoQuestion
<1>2. NoQuestion(<<"/", "api", "/", "auth", "/", "log", "in">>)
  BY DEF NoQuestion
<1>3. NoQuestion(<<"/", "api", "/", "project", "/", "create">>)
  BY DEF NoQuestion
<1> QED BY <1>1, <1>2, <1>3, UrlsSpelled

LEMMA PostsReach ==
  ASSUME RouterInv, Serving, NEW key, NEW body
  PROVE  /\ Reaches(Request("POST", Api(<<"auth", "/", "register">>), key, body), "register", <<>>)
         /\ Reaches(Request("POST", Api(<<"auth", "/", "log", "in">>), key, body), "login", <<>>)
         /\ Reaches(Request("POST", Api(<<"project", "/", "create">>), key, body), "create", <<>>)
<1>0. "POST" \in {"GET", "POST", "PUT", "DELETE"}
  OBVIOUS
<1>1. ASSUME NEW url \in Seq(Letters), NoQuestion(url), NEW kind, OnlyRule("POST", url, kind, <<>>)
      PROVE  Reaches(Request("POST", url, key, body), kind, <<>>)
  <2>1. SubSeq(url, 1, strcspn(url, {"?"})) = url
    BY <1>1, NoQuery
  <2> QED BY <1>0, <1>1, <2>1, ReachesByRule
<1> QED BY <1>1, FixedUrls, RegisterRoute, LoginRoute, CreateRoute

\* Those with a number.
LEMMA NumbersReach ==
  ASSUME RouterInv, Serving, NEW t, IsDigits(t), NEW key, NEW body
  PROVE  /\ Reaches(Request("DELETE", Api(<<"project", "/">> \o t), key, body), "delete", IntParam(t))
         /\ Reaches(Request("GET", Api(<<"project", "s", "/">> \o t), key, body), "projects", IntParam(t))
         /\ Reaches(Request("GET", <<"/", "log", "s", "/">> \o t, key, body), "logs", IntParam(t))
         /\ Reaches(Request("GET", Api(<<"stats", "/">> \o t), key, body), "stats", IntParam(t))
<1>0. "GET" \in {"GET", "POST", "PUT", "DELETE"} /\ "DELETE" \in {"GET", "POST", "PUT", "DELETE"}
  OBVIOUS
<1>1. ASSUME NEW method \in {"GET", "POST", "PUT", "DELETE"}, NEW url, NEW w \in Seq(Letters), Numbered(url, w, t), NoQuestion(w),
             NEW kind, OnlyRule(method, url, kind, IntParam(t))
      PROVE  Reaches(Request(method, url, key, body), kind, IntParam(t))
  <2>1. url \in Seq(Letters) /\ SubSeq(url, 1, strcspn(url, {"?"})) = url
    BY <1>1, NumberedPath
  <2> QED BY <1>1, <2>1, ReachesByRule
<1>2. Numbered(Api(<<"project", "/">> \o t), <<"/", "api", "/", "project", "/">>, t)
  BY WordsSpelled, ApiNumbered
<1>3. Numbered(Api(<<"project", "s", "/">> \o t), <<"/", "api", "/", "project", "s", "/">>, t)
  BY WordsSpelled, ApiNumbered
<1>4. Numbered(Api(<<"stats", "/">> \o t), <<"/", "api", "/", "stats", "/">>, t)
  BY WordsSpelled, ApiNumbered
<1>5. Numbered(<<"/", "log", "s", "/">> \o t, <<"/", "log", "s", "/">>, t)
  BY WordsSpelled, DigitsLetters, NumberedAt
<1>6. Reaches(Request("DELETE", Api(<<"project", "/">> \o t), key, body), "delete", IntParam(t))
  <2>1. OnlyRule("DELETE", Api(<<"project", "/">> \o t), "delete", IntParam(t))
    BY <1>2, DeleteRoute
  <2> QED BY <1>0, <1>1, <1>2, <2>1, WordsSpelled, Zenon
<1>7. Reaches(Request("GET", Api(<<"project", "s", "/">> \o t), key, body), "projects", IntParam(t))
  <2>1. OnlyRule("GET", Api(<<"project", "s", "/">> \o t), "projects", IntParam(t))
    BY <1>3, ProjectsRoute
  <2> QED BY <1>0, <1>1, <1>3, <2>1, WordsSpelled, Zenon
<1>8. Reaches(Request("GET", <<"/", "log", "s", "/">> \o t, key, body), "logs", IntParam(t))
  <2>1. OnlyRule("GET", <<"/", "log", "s", "/">> \o t, "logs", IntParam(t))
    BY <1>5, LogsRoute
  <2> QED BY <1>0, <1>1, <1>5, <2>1, WordsSpelled, Zenon
<1>9. Reaches(Request("GET", Api(<<"stats", "/">> \o t), key, body), "stats", IntParam(t))
  <2>1. OnlyRule("GET", Api(<<"stats", "/">> \o t), "stats", IntParam(t))
    BY <1>4, StatsRoute
  <2> QED BY <1>0, <1>1, <1>4, <2>1, WordsSpelled, Zenon
<1> QED BY <1>6, <1>7, <1>8, <1>9

\* A role.
LEMMA RoleReaches ==
  ASSUME RouterInv, Serving, NEW t, IsDigits(t), NEW key, NEW body
  PROVE  Reaches(Request("PUT", Admin(<<"/">> \o t \o <<"/", "role">>), key, body), "role", IntParam(t))
<1> DEFINE url == Admin(<<"/">> \o t \o <<"/", "role">>)
<1>1. RoleUrl(url, t)
  BY RoleAt
<1> HIDE DEF url
<1>2. OnlyRule("PUT", url, "role", IntParam(t))
  BY <1>1, RoleRoute
<1>3. url \in Seq(Letters) /\ NoQuestion(url)
  <2>1. /\ url \in Seq(Letters) /\ Len(url) = 9 + Len(t) /\ Len(t) \in Nat
        /\ url[1] = "/" /\ url[2] = "api" /\ url[3] = "/" /\ url[4] = "admin" /\ url[5] = "/" /\ url[6] = "users" /\ url[7] = "/"
        /\ \A j \in 1..Len(t) : url[7 + j] = t[j]
        /\ url[8 + Len(t)] = "/" /\ url[9 + Len(t)] = "role"
    BY <1>1 DEF RoleUrl
  <2>2. \A j \in 1..Len(t) : t[j] # "?"
    BY DigitsPlain
  <2> SUFFICES ASSUME NEW j \in 1..Len(url) PROVE url[j] # "?"
    BY <2>1 DEF NoQuestion
  <2>3. CASE j <= 7
    <3>1. j = 1 \/ j = 2 \/ j = 3 \/ j = 4 \/ j = 5 \/ j = 6 \/ j = 7
      BY <2>3
    <3> QED BY <2>1, <3>1
  <2>4. CASE j > 7 /\ j <= 7 + Len(t)
    <3>1. j - 7 \in 1..Len(t) /\ 7 + (j - 7) = j
      BY <2>1, <2>4
    <3> QED BY <2>1, <2>2, <3>1
  <2>5. CASE j > 7 + Len(t)
    <3>1. j = 8 + Len(t) \/ j = 9 + Len(t)
      BY <2>1, <2>5
    <3> QED BY <2>1, <3>1
  <2> QED BY <2>1, <2>3, <2>4, <2>5
<1>4. SubSeq(url, 1, strcspn(url, {"?"})) = url
  BY <1>3, NoQuery
<1>5. "PUT" \in {"GET", "POST", "PUT", "DELETE"}
  OBVIOUS
<1>6. Reaches(Request("PUT", url, key, body), "role", IntParam(t))
  BY <1>2, <1>3, <1>4, <1>5, ReachesByRule
<1> QED BY <1>6 DEF url

\* Those with a query.
LEMMA QueriesReach ==
  ASSUME RouterInv, Serving, NEW key, NEW body
  PROVE  /\ \A w : IsDigits(w) => Reaches(Request("GET", Admin(<<"?", "a", "=">> \o w), key, body), "users", <<>>)
         /\ \A t, w : IsDigits(t) /\ IsDigits(w) =>
              Reaches(Request("DELETE", Admin(<<"/">> \o t \o <<"?", "a", "=">> \o w), key, body), "deactivate", IntParam(t))
         /\ \A t, by, order : IsDigits(t) /\ by \in {"d", "r", "f"} /\ order \in {"desc", "asc"} =>
              Reaches(Request("GET", <<"/", "query", "/", "advanced", "?", "l", "=">> \o t
                                       \o <<"&", "s", "=", by, "&", "o", "=", order>>, key, body), "query", <<>>)
<1>0. "GET" \in {"GET", "POST", "PUT", "DELETE"} /\ "DELETE" \in {"GET", "POST", "PUT", "DELETE"}
  OBVIOUS
<1>1. ASSUME NEW method \in {"GET", "POST", "PUT", "DELETE"}, NEW url, NEW path, NEW qs, Queried(url, path, qs),
             NEW kind, NEW p, OnlyRule(method, path, kind, p)
      PROVE  Reaches(Request(method, url, key, body), kind, p)
  <2>1. path \in Seq(Letters)
    BY <1>1 DEF Queried
  <2>2. SubSeq(url, 1, strcspn(url, {"?"})) = path
    BY <1>1, QueriedProps
  <2> QED BY <1>1, <2>1, <2>2, ReachesByRule
<1>2. ASSUME NEW w, IsDigits(w)
      PROVE  Reaches(Request("GET", Admin(<<"?", "a", "=">> \o w), key, body), "users", <<>>)
  <2>1. Queried(Admin(<<"?", "a", "=">> \o w), <<"/", "api", "/", "admin", "/", "users">>, KeyedBy("a", w))
    BY <1>2, UsersUrl
  <2> QED BY <1>0, <1>1, <2>1, UsersRoute, Zenon
<1>3. ASSUME NEW t, NEW w, IsDigits(t), IsDigits(w)
      PROVE  Reaches(Request("DELETE", Admin(<<"/">> \o t \o <<"?", "a", "=">> \o w), key, body), "deactivate", IntParam(t))
  <2> DEFINE v == <<"/", "api", "/", "admin", "/", "users", "/">>
             path == v \o t
  <2>1. Queried(Admin(<<"/">> \o t \o <<"?", "a", "=">> \o w), path, KeyedBy("a", w))
    BY <1>3, UserUrl
  <2>2. Numbered(path, v, t)
    <3>1. v \in Seq(Letters)
      BY DEF Letters
    <3>2. t \in Seq(Letters)
      BY <1>3, DigitsLetters
    <3> QED BY <3>1, <3>2, NumberedAt
  <2>3. OnlyRule("DELETE", path, "deactivate", IntParam(t))
    <3> HIDE DEF path
    <3> QED BY <1>3, <2>2, DeactivateRoute
  <2> HIDE DEF path
  <2> QED BY <1>0, <1>1, <2>1, <2>3, Zenon
<1>4. ASSUME NEW t, NEW by, NEW order, IsDigits(t), by \in {"d", "r", "f"}, order \in {"desc", "asc"}
      PROVE  Reaches(Request("GET", <<"/", "query", "/", "advanced", "?", "l", "=">> \o t
                                       \o <<"&", "s", "=", by, "&", "o", "=", order>>, key, body), "query", <<>>)
  <2> DEFINE url == <<"/", "query", "/", "advanced", "?", "l", "=">> \o t \o <<"&", "s", "=", by, "&", "o", "=", order>>
  <2>1. Queried(url, <<"/", "query", "/", "advanced">>, Asked(t, by, order))
    BY <1>4, AdvancedUrl
  <2> HIDE DEF url
  <2>2. Reaches(Request("GET", url, key, body), "query", <<>>)
    BY <1>0, <1>1, <2>1, QueryRoute, Zenon
  <2> QED BY <2>2 DEF url
<1> QED BY <1>2, <1>3, <1>4, Zenon

-----------------------------------------------------------------------------
(* What the forms of the pages say. *)

\* The characters of fields.
FieldChars(U) == "&" \in U /\ "=" \in U
IsField(U, n, v) == n \in U /\ n # "&" /\ n # "=" /\ v \in Seq(U) /\ Clean(v)

\* A body that says this in these fields.
Says(body, n, v) == FieldOf(body, n) = v /\ \A default : PostParam(body, n, default) = v

\* Two fields, and a third.
LEMMA TwoFields ==
  ASSUME NEW U, FieldChars(U), NEW n1, NEW v1, IsField(U, n1, v1), NEW n2, NEW v2, IsField(U, n2, v2), n1 # n2
  PROVE  LET b == Joined(Opening(n1, v1), n2, v2)
         IN /\ Says(b, n1, v1) /\ Says(b, n2, v2)
            /\ b \in Posts(U) /\ Neat(b, {n1, n2})
<1> DEFINE b1 == Opening(n1, v1)
           b == Joined(b1, n2, v2)
<1>1. /\ "&" \in U /\ "=" \in U /\ n1 \in Keys(U) /\ n2 \in Keys(U) /\ v1 \in Values(U) /\ v2 \in Values(U)
      /\ n1 \in U /\ n2 \in U /\ v1 \in Seq(U) /\ v2 \in Seq(U) /\ n1 # "=" /\ n2 # "="
  BY DEF FieldChars, IsField, Keys, Values, Clean, Unsplit
<1>2. Clean(v1) /\ Clean(v2)
  BY DEF IsField
<1>3. b1 \in Posts(U) /\ Opens(U, b1, n1, v1)
  BY <1>1, JoinedFields
<1>4. Neat(b1, {n1})
  BY <1>1, <1>2, NeatOpening
<1> HIDE DEF b1
<1>5. b \in Posts(U) /\ Joins(U, b, n2, v2, b1)
  BY <1>1, <1>3, JoinedFields
<1>6. Neat(b, {n1, n2})
  <2>1. b1 \in Seq(U) /\ Len(b1) >= 1 /\ n2 \notin {n1}
    <3>1. b1 \in Seq(U) /\ Len(b1) >= 2
      BY <1>3 DEF Posts
    <3>2. Len(b1) \in Nat
      BY <3>1, LenProperties
    <3> QED BY <3>1, <3>2
  <2>2. Neat(b, {n1} \cup {n2})
    BY <1>1, <1>2, <1>4, <2>1, NeatJoined
  <2>3. {n1} \cup {n2} = {n1, n2}
    OBVIOUS
  <2> QED BY <2>2, <2>3, Zenon
<1> HIDE DEF b
<1>7. ASSUME NEW default PROVE PostParam(b, n1, default) = v1 /\ PostParam(b, n2, default) = v2
  BY <1>1, <1>3, <1>5 DEF Opens, Joins
<1>8. FieldOf(b, n1) = v1 /\ FieldOf(b, n2) = v2
  <2>1. FieldOf(b, n1) = PostParam(b, n1, <<>>) /\ FieldOf(b, n2) = PostParam(b, n2, <<>>)
    BY <1>6, FieldOfNeat
  <2> QED BY <1>7, <2>1
<1>9. Says(b, n1, v1) /\ Says(b, n2, v2) /\ b \in Posts(U) /\ Neat(b, {n1, n2})
  BY <1>5, <1>6, <1>7, <1>8 DEF Says
<1> QED BY <1>9 DEF b, b1

LEMMA ThreeFields ==
  ASSUME NEW U, FieldChars(U), NEW n1, NEW v1, IsField(U, n1, v1), NEW n2, NEW v2, IsField(U, n2, v2),
         NEW n3, NEW v3, IsField(U, n3, v3), n1 # n2, n3 # n1, n3 # n2
  PROVE  LET b == Joined(Joined(Opening(n1, v1), n2, v2), n3, v3)
         IN Says(b, n1, v1) /\ Says(b, n2, v2) /\ Says(b, n3, v3)
<1> DEFINE b2 == Joined(Opening(n1, v1), n2, v2)
           b == Joined(b2, n3, v3)
<1>1. Says(b2, n1, v1) /\ Says(b2, n2, v2) /\ b2 \in Posts(U) /\ Neat(b2, {n1, n2})
  BY TwoFields
<1> HIDE DEF b2
<1>2. /\ "&" \in U /\ "=" \in U /\ n1 \in Keys(U) /\ n2 \in Keys(U) /\ n3 \in Keys(U) /\ v3 \in Values(U)
      /\ n3 \in U /\ v3 \in Seq(U) /\ n3 # "="
  BY DEF FieldChars, IsField, Keys, Values, Clean, Unsplit
<1>3. Clean(v3)
  BY DEF IsField
<1>4. Joins(U, b, n3, v3, b2)
  BY <1>1, <1>2, JoinedFields
<1>5. Neat(b, {n1, n2} \cup {n3})
  <2>1. b2 \in Seq(U) /\ Len(b2) >= 1 /\ n3 \notin {n1, n2}
    <3>1. b2 \in Seq(U) /\ Len(b2) >= 2
      BY <1>1 DEF Posts
    <3>2. Len(b2) \in Nat
      BY <3>1, LenProperties
    <3> QED BY <3>1, <3>2
  <2>2. Neat(b2, {n1, n2})
    BY <1>1
  <2> QED BY <1>2, <1>3, <2>1, <2>2, NeatJoined
<1> HIDE DEF b
<1>6. ASSUME NEW default
      PROVE  PostParam(b, n1, default) = v1 /\ PostParam(b, n2, default) = v2 /\ PostParam(b, n3, default) = v3
  BY <1>1, <1>2, <1>4 DEF Says, Joins
<1>7. FieldOf(b, n1) = PostParam(b, n1, <<>>) /\ FieldOf(b, n2) = PostParam(b, n2, <<>>) /\ FieldOf(b, n3) = PostParam(b, n3, <<>>)
  BY <1>5, FieldOfNeat
<1>8. Says(b, n1, v1) /\ Says(b, n2, v2) /\ Says(b, n3, v3)
  BY <1>6, <1>7 DEF Says
<1> QED BY <1>8 DEF b, b2

\* What the fields of pages are made of.
FormChars(f, g, h) ==
  EncodedChars(ToSet(f)) \cup EncodedChars(ToSet(g)) \cup EncodedChars(ToSet(h)) \cup Digit
    \cup {"&", "=", "e", "p", "u", "n", "a", "r"}
LEMMA FormField ==
  ASSUME NEW f, NEW g, NEW h, NEW n \in {"e", "p", "u", "n", "a", "r"}
  PROVE  /\ FieldChars(FormChars(f, g, h))
         /\ \A text \in {f, g, h} : IsSeq(text) => IsField(FormChars(f, g, h), n, encodeURIComponent(text))
         /\ \A k : IsNumber(k) => IsField(FormChars(f, g, h), n, Text(k))
<1> DEFINE U == FormChars(f, g, h)
<1>1. /\ FieldChars(U) /\ n \in U /\ n # "&" /\ n # "="
  BY DEF FieldChars, FormChars
<1>2. ASSUME NEW text \in {f, g, h}, IsSeq(text) PROVE IsField(U, n, encodeURIComponent(text))
  <2>1. text \in Seq(ToSet(text))
    BY <1>2 DEF IsSeq
  <2>2. EncodedChars(ToSet(text)) \subseteq U
    BY DEF FormChars
  <2>3. encodeURIComponent(text) \in Seq(EncodedChars(ToSet(text))) /\ Clean(encodeURIComponent(text))
    BY <2>1, EncodedType, EncodedClean
  <2> HIDE DEF U
  <2>4. encodeURIComponent(text) \in Seq(U)
    BY <2>2, <2>3, SeqOver
  <2> QED BY <1>1, <2>3, <2>4 DEF IsField
<1>3. ASSUME NEW k, IsNumber(k) PROVE IsField(U, n, Text(k))
  <2>1. Text(k) \in Seq(Digit) /\ Clean(Text(k))
    BY <1>3, NumberText
  <2>2. Digit \subseteq U
    BY DEF FormChars
  <2> HIDE DEF U
  <2>3. Text(k) \in Seq(U)
    BY <2>1, <2>2, SeqOver
  <2> QED BY <1>1, <2>1, <2>3 DEF IsField
<1> QED BY <1>1, <1>2, <1>3

\* The bodies of the pages.
RegisterBody(email, password, username) ==
  <<"e", "=">> \o encodeURIComponent(email) \o <<"&", "p", "=">> \o encodeURIComponent(password)
    \o <<"&", "u", "=">> \o encodeURIComponent(username)
LEMMA RegisterSays ==
  ASSUME NEW email, IsSeq(email), NEW password, IsSeq(password), NEW username, IsSeq(username)
  PROVE  LET b == RegisterBody(email, password, username)
         IN /\ url_decode(FieldOf(b, "e")) = email /\ url_decode(FieldOf(b, "p")) = password
            /\ url_decode(FieldOf(b, "u")) = username
<1> DEFINE U == FormChars(email, password, username)
           ve == encodeURIComponent(email)
           vp == encodeURIComponent(password)
           vu == encodeURIComponent(username)
           b == Joined(Joined(Opening("e", ve), "p", vp), "u", vu)
<1>1. FieldChars(U) /\ IsField(U, "e", ve) /\ IsField(U, "p", vp) /\ IsField(U, "u", vu)
  BY FormField
<1>2. url_decode(ve) = email /\ url_decode(vp) = password /\ url_decode(vu) = username
  BY DecodedAsEncoded DEF IsSeq
<1>3. b = RegisterBody(email, password, username)
  BY DEF RegisterBody, Joined, Opening
<1> HIDE DEF ve, vp, vu, U
<1>4. Says(b, "e", ve) /\ Says(b, "p", vp) /\ Says(b, "u", vu)
  BY <1>1, ThreeFields
<1> HIDE DEF b
<1> QED BY <1>2, <1>3, <1>4 DEF Says

LoginBody(email, password) ==
  <<"e", "=">> \o encodeURIComponent(email) \o <<"&", "p", "=">> \o encodeURIComponent(password)
LEMMA LoginSays ==
  ASSUME NEW email, IsSeq(email), NEW password, IsSeq(password)
  PROVE  LET b == LoginBody(email, password)
         IN url_decode(FieldOf(b, "e")) = email /\ url_decode(FieldOf(b, "p")) = password
<1> DEFINE U == FormChars(email, password, password)
           ve == encodeURIComponent(email)
           vp == encodeURIComponent(password)
           b == Joined(Opening("e", ve), "p", vp)
<1>1. FieldChars(U) /\ IsField(U, "e", ve) /\ IsField(U, "p", vp)
  BY FormField
<1>2. url_decode(ve) = email /\ url_decode(vp) = password
  BY DecodedAsEncoded DEF IsSeq
<1>3. b = LoginBody(email, password)
  BY DEF LoginBody, Joined, Opening
<1> HIDE DEF ve, vp, U
<1>4. Says(b, "e", ve) /\ Says(b, "p", vp)
  BY <1>1, TwoFields
<1> HIDE DEF b
<1> QED BY <1>2, <1>3, <1>4 DEF Says

CreateBody(user, name) == <<"u", "=">> \o Text(user) \o <<"&", "n", "=">> \o encodeURIComponent(name)
LEMMA CreateSays ==
  ASSUME NEW user, IsNumber(user), NEW name, IsSeq(name)
  PROVE  /\ \A default : PostParam(CreateBody(user, name), "u", default) = Text(user)
         /\ \A default : PostParam(CreateBody(user, name), "n", default) = encodeURIComponent(name)
<1> DEFINE U == FormChars(name, name, name)
           vu == Text(user)
           vn == encodeURIComponent(name)
           b == Joined(Opening("u", vu), "n", vn)
<1>1. FieldChars(U) /\ IsField(U, "u", vu) /\ IsField(U, "n", vn)
  BY FormField
<1>2. b = CreateBody(user, name)
  BY DEF CreateBody, Joined, Opening
<1> HIDE DEF vu, vn, U
<1>3. Says(b, "u", vu) /\ Says(b, "n", vn)
  BY <1>1, TwoFields
<1> HIDE DEF b
<1> QED BY <1>2, <1>3 DEF Says, vu, vn

RoleBody(admin, role) == <<"a", "=">> \o Text(admin) \o <<"&", "r", "=">> \o Text(role)
LEMMA RoleSays ==
  ASSUME NEW admin, IsNumber(admin), NEW role, IsNumber(role)
  PROVE  FieldOf(RoleBody(admin, role), "a") = Text(admin) /\ FieldOf(RoleBody(admin, role), "r") = Text(role)
<1> DEFINE U == FormChars(Text(admin), Text(admin), Text(admin))
           va == Text(admin)
           vr == Text(role)
           b == Joined(Opening("a", va), "r", vr)
<1>1. FieldChars(U) /\ IsField(U, "a", va) /\ IsField(U, "r", vr)
  BY FormField
<1>2. b = RoleBody(admin, role)
  BY DEF RoleBody, Joined, Opening
<1> HIDE DEF va, vr, U
<1>3. Says(b, "a", va) /\ Says(b, "r", vr)
  BY <1>1, TwoFields
<1> HIDE DEF b
<1> QED BY <1>2, <1>3 DEF Says, va, vr

-----------------------------------------------------------------------------
(* What a page asks for is what its handler is called with. *)

\* The requests of the pages, one by one.
LEMMA PostForms ==
  ASSUME NEW f
  PROVE  /\ f.page = "register" => RequestOf(f) = Request("POST", Api(<<"auth", "/", "register">>), 0,
                                                      RegisterBody(f.email, f.password, f.username))
         /\ f.page = "login" => RequestOf(f) = Request("POST", Api(<<"auth", "/", "log", "in">>), 0,
                                                   LoginBody(f.email, f.password))
         /\ f.page = "create" => RequestOf(f) = Request("POST", Api(<<"project", "/", "create">>), 0,
                                                    CreateBody(f.user, f.name))
<1>1. ASSUME f.page = "register"
      PROVE  RequestOf(f) = Request("POST", Api(<<"auth", "/", "register">>), 0, RegisterBody(f.email, f.password, f.username))
  BY <1>1 DEF RequestOf, RegisterBody
<1>2. ASSUME f.page = "login"
      PROVE  RequestOf(f) = Request("POST", Api(<<"auth", "/", "log", "in">>), 0, LoginBody(f.email, f.password))
  BY <1>2 DEF RequestOf, LoginBody
<1>3. ASSUME f.page = "create"
      PROVE  RequestOf(f) = Request("POST", Api(<<"project", "/", "create">>), 0, CreateBody(f.user, f.name))
  BY <1>3 DEF RequestOf, CreateBody
<1> QED BY <1>1, <1>2, <1>3

LEMMA NumberForms ==
  ASSUME NEW f
  PROVE  /\ f.page = "delete" => RequestOf(f) = Request("DELETE", Api(<<"project", "/">> \o Text(f.project)), 0, <<>>)
         /\ f.page = "projects" => RequestOf(f) = Request("GET", Api(<<"project", "s", "/">> \o Text(f.user)), 0, <<>>)
         /\ f.page = "logs" => RequestOf(f) = Request("GET", <<"/", "log", "s", "/">> \o Text(f.project), 0, <<>>)
         /\ f.page = "stats" => RequestOf(f) = Request("GET", Api(<<"stats", "/">> \o Text(f.project)), 0, <<>>)
<1>1. ASSUME f.page = "delete"
      PROVE  RequestOf(f) = Request("DELETE", Api(<<"project", "/">> \o Text(f.project)), 0, <<>>)
  BY <1>1 DEF RequestOf
<1>2. ASSUME f.page = "projects"
      PROVE  RequestOf(f) = Request("GET", Api(<<"project", "s", "/">> \o Text(f.user)), 0, <<>>)
  BY <1>2 DEF RequestOf
<1>3. ASSUME f.page = "logs"
      PROVE  RequestOf(f) = Request("GET", <<"/", "log", "s", "/">> \o Text(f.project), 0, <<>>)
  BY <1>3 DEF RequestOf
<1>4. ASSUME f.page = "stats"
      PROVE  RequestOf(f) = Request("GET", Api(<<"stats", "/">> \o Text(f.project)), 0, <<>>)
  BY <1>4 DEF RequestOf
<1> QED BY <1>1, <1>2, <1>3, <1>4

LEMMA AdminForms ==
  ASSUME NEW f
  PROVE  /\ f.page = "role" => RequestOf(f) = Request("PUT", Admin(<<"/">> \o Text(f.user) \o <<"/", "role">>), 0,
                                                  RoleBody(f.admin, f.role))
         /\ f.page = "deactivate" =>
              RequestOf(f) = Request("DELETE", Admin(<<"/">> \o Text(f.user) \o <<"?", "a", "=">> \o Text(f.admin)), 0, <<>>)
         /\ f.page = "users" => RequestOf(f) = Request("GET", Admin(<<"?", "a", "=">> \o Text(f.admin)), 0, <<>>)
         /\ f.page = "query" =>
              RequestOf(f) = Request("GET", <<"/", "query", "/", "advanced", "?", "l", "=">> \o Text(f.limit)
                                              \o <<"&", "s", "=", f.sort_by, "&", "o", "=", f.order>>, f.key, <<>>)
<1>1. ASSUME f.page = "role"
      PROVE  RequestOf(f) = Request("PUT", Admin(<<"/">> \o Text(f.user) \o <<"/", "role">>), 0, RoleBody(f.admin, f.role))
  BY <1>1 DEF RequestOf, RoleBody
<1>2. ASSUME f.page = "deactivate"
      PROVE  RequestOf(f) = Request("DELETE", Admin(<<"/">> \o Text(f.user) \o <<"?", "a", "=">> \o Text(f.admin)), 0, <<>>)
  BY <1>2 DEF RequestOf
<1>3. ASSUME f.page = "users"
      PROVE  RequestOf(f) = Request("GET", Admin(<<"?", "a", "=">> \o Text(f.admin)), 0, <<>>)
  BY <1>3 DEF RequestOf
<1>4. ASSUME f.page = "query"
      PROVE  RequestOf(f) = Request("GET", <<"/", "query", "/", "advanced", "?", "l", "=">> \o Text(f.limit)
                                              \o <<"&", "s", "=", f.sort_by, "&", "o", "=", f.order>>, f.key, <<>>)
  BY <1>4 DEF RequestOf
<1> QED BY <1>1, <1>2, <1>3, <1>4

LEMMA OtherForms ==
  ASSUME NEW f
  PROVE  /\ f.page = "settings" => /\ RequestOf(f).method = "PUT"
                                   /\ RequestOf(f).url = Api(<<"project", "/">> \o Text(f.project) \o <<"/", "settings">>)
         /\ f.page = "saveSettings" => /\ RequestOf(f).method = "PUT"
                                       /\ RequestOf(f).url = Api(<<"project", "/", "undefined", "/", "settings">>)
         /\ f.page = "confirmDelete" => /\ RequestOf(f).method = "DELETE"
                                        /\ RequestOf(f).url = Api(<<"project", "/", "undefined">>)
<1>1. ASSUME f.page = "settings"
      PROVE  /\ RequestOf(f).method = "PUT"
             /\ RequestOf(f).url = Api(<<"project", "/">> \o Text(f.project) \o <<"/", "settings">>)
  BY <1>1 DEF RequestOf, Request
<1>2. ASSUME f.page = "saveSettings"
      PROVE  RequestOf(f).method = "PUT" /\ RequestOf(f).url = Api(<<"project", "/", "undefined", "/", "settings">>)
  BY <1>2 DEF RequestOf, Request
<1>3. ASSUME f.page = "confirmDelete"
      PROVE  RequestOf(f).method = "DELETE" /\ RequestOf(f).url = Api(<<"project", "/", "undefined">>)
  BY <1>3 DEF RequestOf, Request
<1> QED BY <1>1, <1>2, <1>3

\* What is asked by a page.
AskOf(a, f) == f \in Forms /\ a.form = f /\ a.request = RequestOf(f)
LEMMA AsksOfPages == ASSUME NEW a \in Asks, a.form.page # None PROVE AskOf(a, a.form)
BY DEF Asks, AskOf

\* A number of a form is digits, and what a handler makes of it.
LEMMA FormNumber ==
  ASSUME NEW n, IsNumber(n)
  PROVE  /\ IsDigits(Text(n)) /\ Text(n) # <<>> /\ stoi(Text(n)) = n /\ ~StoiThrows(Text(n))
         /\ \A found : found.params = IntParam(Text(n)) => IdOf(found) = n
<1>1. IsDigits(Text(n)) /\ Text(n) # <<>> /\ stoi(Text(n)) = n /\ ~StoiThrows(Text(n))
  BY NumberText, StoiProps DEF IsDigits
<1>2. ASSUME NEW found, found.params = IntParam(Text(n)) PROVE IdOf(found) = n
  <2>1. found.params[1].value = Text(n)
    BY <1>2 DEF IntParam
  <2> QED BY <2>1, ToIntProps DEF IdOf
<1> QED BY <1>1, <1>2

\* The handlers by their names.
LEMMA HandledBy ==
  ASSUME NEW a, NEW found, Handle(a, found)
  PROVE  /\ found.handler = "register" => Register(a)
         /\ found.handler = "login" => Login(a)
         /\ found.handler = "create" => CreateProject(a)
         /\ found.handler = "delete" => DeleteProject(a, IdOf(found))
         /\ found.handler = "role" => SetRole(a, IdOf(found))
         /\ found.handler = "deactivate" => Deactivate(a, IdOf(found))
         /\ found.handler = "users" => AdminUsers(a)
         /\ found.handler = "projects" => ListProjects(a, IdOf(found))
         /\ found.handler = "logs" => Logs(a, IdOf(found))
         /\ found.handler = "stats" => Stats(a, IdOf(found))
         /\ found.handler = "query" => Query(a)
         /\ found.handler = "settings" => Settings(a, IdOf(found))
         /\ found.handler = None => Refuses(a, found.code)
<1>1. found.handler = "register" => Register(a)
  BY DEF Handle, None
<1>2. found.handler = "login" => Login(a)
  BY DEF Handle, None
<1>3. found.handler = "create" => CreateProject(a)
  BY DEF Handle, None
<1>4. found.handler = "delete" => DeleteProject(a, IdOf(found))
  BY DEF Handle, None
<1>5. found.handler = "role" => SetRole(a, IdOf(found))
  BY DEF Handle, None
<1>6. found.handler = "deactivate" => Deactivate(a, IdOf(found))
  BY DEF Handle, None
<1>7. found.handler = "users" => AdminUsers(a)
  BY DEF Handle, None
<1>8. found.handler = "projects" => ListProjects(a, IdOf(found))
  BY DEF Handle, None
<1>9. found.handler = "logs" => Logs(a, IdOf(found))
  BY DEF Handle, None
<1>10. found.handler = "stats" => Stats(a, IdOf(found))
  BY DEF Handle, None
<1>11. found.handler = "query" => Query(a)
  BY DEF Handle, None
<1>12. found.handler = "settings" => Settings(a, IdOf(found))
  BY DEF Handle, None
<1>13. found.handler = None => Refuses(a, found.code)
  BY DEF Handle, None
<1> QED BY <1>1, <1>2, <1>3, <1>4, <1>5, <1>6, <1>7, <1>8, <1>9, <1>10, <1>11, <1>12, <1>13

-----------------------------------------------------------------------------
(* What the handlers do is what was meant. *)

\* The databases hold lists, with the numbers that they gave.
DataInv ==
  /\ IsSeq(users) /\ IsSeq(projects) /\ IsSeq(traces)
  /\ next_user_id = Len(users) + 1
  /\ next_project_id \in Nat \ {0}
  /\ \A i \in DOMAIN projects : HasNumbers(projects[i], next_project_id - 1)
  /\ \A i \in DOMAIN traces : traces[i].duration \in Int

\* The server gets the request of a page.
Gets(a, f) == RouterInv /\ Serving /\ AskOf(a, f) /\ Serve(a)

\* What the pages send has these types.
LEMMA FormTypes ==
  ASSUME NEW f \in Forms
  PROVE  /\ f.page = "register" => IsSeq(f.email) /\ IsSeq(f.password) /\ IsSeq(f.username)
         /\ f.page = "login" => IsSeq(f.email) /\ IsSeq(f.password)
         /\ f.page = "create" => IsNumber(f.user) /\ IsSeq(f.name)
         /\ f.page \in {"settings", "delete", "logs", "stats"} => IsNumber(f.project)
         /\ f.page = "role" => IsNumber(f.admin) /\ IsNumber(f.user) /\ IsNumber(f.role) /\ f.role \in 0..2
         /\ f.page = "deactivate" => IsNumber(f.admin) /\ IsNumber(f.user)
         /\ f.page = "users" => IsNumber(f.admin)
         /\ f.page = "projects" => IsNumber(f.user)
         /\ f.page = "query" => IsNumber(f.limit) /\ f.sort_by \in {"d", "r", "f"} /\ f.order \in {"desc", "asc"}
BY FormsAssumption

\* Its handler is called.
LEMMA HandlersCalled ==
  ASSUME NEW a, NEW f, Gets(a, f), NEW kind, NEW p, Reaches(RequestOf(f), kind, p)
  PROVE  \E found : Handle(a, found) /\ found.handler = kind /\ found.params = p
<1>1. Handle(a, Routed(RequestOf(f)))
  BY DEF Gets, AskOf, Serve
<1> QED BY <1>1 DEF Reaches

LEMMA CalledPosts ==
  ASSUME NEW a, NEW f, Gets(a, f)
  PROVE  /\ f.page = "register" => Register(a)
         /\ f.page = "login" => Login(a)
         /\ f.page = "create" => CreateProject(a)
<1>0. RouterInv /\ Serving
  BY DEF Gets
<1>1. ASSUME f.page = "register" PROVE Register(a)
  <2>1. Reaches(RequestOf(f), "register", <<>>)
    BY <1>0, <1>1, PostForms, PostsReach
  <2> QED BY <2>1, HandlersCalled, HandledBy
<1>2. ASSUME f.page = "login" PROVE Login(a)
  <2>1. Reaches(RequestOf(f), "login", <<>>)
    BY <1>0, <1>2, PostForms, PostsReach
  <2> QED BY <2>1, HandlersCalled, HandledBy
<1>3. ASSUME f.page = "create" PROVE CreateProject(a)
  <2>1. Reaches(RequestOf(f), "create", <<>>)
    BY <1>0, <1>3, PostForms, PostsReach
  <2> QED BY <2>1, HandlersCalled, HandledBy
<1> QED BY <1>1, <1>2, <1>3

LEMMA CalledNumbers ==
  ASSUME NEW a, NEW f, Gets(a, f)
  PROVE  /\ f.page = "delete" => DeleteProject(a, f.project)
         /\ f.page = "projects" => ListProjects(a, f.user)
         /\ f.page = "logs" => Logs(a, f.project)
         /\ f.page = "stats" => Stats(a, f.project)
<1>0. RouterInv /\ Serving /\ f \in Forms
  BY DEF Gets, AskOf
<1>1. ASSUME f.page = "delete" PROVE DeleteProject(a, f.project)
  <2>0. IsNumber(f.project)
    BY <1>0, <1>1, FormTypes
  <2>1. IsDigits(Text(f.project)) /\ \A found : found.params = IntParam(Text(f.project)) => IdOf(found) = f.project
    BY <2>0, FormNumber
  <2>2. Reaches(RequestOf(f), "delete", IntParam(Text(f.project)))
    BY <1>0, <1>1, <2>1, NumberForms, NumbersReach
  <2>3. PICK found : Handle(a, found) /\ found.handler = "delete" /\ found.params = IntParam(Text(f.project))
    BY <2>2, HandlersCalled
  <2>4. DeleteProject(a, IdOf(found)) /\ IdOf(found) = f.project
    BY <2>1, <2>3, HandledBy
  <2> QED BY <2>4
<1>2. ASSUME f.page = "projects" PROVE ListProjects(a, f.user)
  <2>0. IsNumber(f.user)
    BY <1>0, <1>2, FormTypes
  <2>1. IsDigits(Text(f.user)) /\ \A found : found.params = IntParam(Text(f.user)) => IdOf(found) = f.user
    BY <2>0, FormNumber
  <2>2. Reaches(RequestOf(f), "projects", IntParam(Text(f.user)))
    BY <1>0, <1>2, <2>1, NumberForms, NumbersReach
  <2>3. PICK found : Handle(a, found) /\ found.handler = "projects" /\ found.params = IntParam(Text(f.user))
    BY <2>2, HandlersCalled
  <2>4. ListProjects(a, IdOf(found)) /\ IdOf(found) = f.user
    BY <2>1, <2>3, HandledBy
  <2> QED BY <2>4
<1>3. ASSUME f.page = "logs" PROVE Logs(a, f.project)
  <2>0. IsNumber(f.project)
    BY <1>0, <1>3, FormTypes
  <2>1. IsDigits(Text(f.project)) /\ \A found : found.params = IntParam(Text(f.project)) => IdOf(found) = f.project
    BY <2>0, FormNumber
  <2>2. Reaches(RequestOf(f), "logs", IntParam(Text(f.project)))
    BY <1>0, <1>3, <2>1, NumberForms, NumbersReach
  <2>3. PICK found : Handle(a, found) /\ found.handler = "logs" /\ found.params = IntParam(Text(f.project))
    BY <2>2, HandlersCalled
  <2>4. Logs(a, IdOf(found)) /\ IdOf(found) = f.project
    BY <2>1, <2>3, HandledBy
  <2> QED BY <2>4
<1>4. ASSUME f.page = "stats" PROVE Stats(a, f.project)
  <2>0. IsNumber(f.project)
    BY <1>0, <1>4, FormTypes
  <2>1. IsDigits(Text(f.project)) /\ \A found : found.params = IntParam(Text(f.project)) => IdOf(found) = f.project
    BY <2>0, FormNumber
  <2>2. Reaches(RequestOf(f), "stats", IntParam(Text(f.project)))
    BY <1>0, <1>4, <2>1, NumberForms, NumbersReach
  <2>3. PICK found : Handle(a, found) /\ found.handler = "stats" /\ found.params = IntParam(Text(f.project))
    BY <2>2, HandlersCalled
  <2>4. Stats(a, IdOf(found)) /\ IdOf(found) = f.project
    BY <2>1, <2>3, HandledBy
  <2> QED BY <2>4
<1> QED BY <1>1, <1>2, <1>3, <1>4

LEMMA CalledAdmins ==
  ASSUME NEW a, NEW f, Gets(a, f)
  PROVE  /\ f.page = "role" => SetRole(a, f.user)
         /\ f.page = "deactivate" => Deactivate(a, f.user)
         /\ f.page = "users" => AdminUsers(a)
         /\ f.page = "query" => Query(a)
<1>0. RouterInv /\ Serving /\ f \in Forms
  BY DEF Gets, AskOf
<1>1. ASSUME f.page = "role" PROVE SetRole(a, f.user)
  <2>0. IsNumber(f.user)
    BY <1>0, <1>1, FormTypes
  <2>1. IsDigits(Text(f.user)) /\ \A found : found.params = IntParam(Text(f.user)) => IdOf(found) = f.user
    BY <2>0, FormNumber
  <2>2. Reaches(RequestOf(f), "role", IntParam(Text(f.user)))
    BY <1>0, <1>1, <2>1, AdminForms, RoleReaches
  <2>3. PICK found : Handle(a, found) /\ found.handler = "role" /\ found.params = IntParam(Text(f.user))
    BY <2>2, HandlersCalled
  <2>4. SetRole(a, IdOf(found)) /\ IdOf(found) = f.user
    BY <2>1, <2>3, HandledBy
  <2> QED BY <2>4
<1>2. ASSUME f.page = "deactivate" PROVE Deactivate(a, f.user)
  <2>0. IsNumber(f.user) /\ IsNumber(f.admin)
    BY <1>0, <1>2, FormTypes
  <2>1. /\ IsDigits(Text(f.user)) /\ \A found : found.params = IntParam(Text(f.user)) => IdOf(found) = f.user
        /\ IsDigits(Text(f.admin))
    BY <2>0, FormNumber
  <2>2. Reaches(RequestOf(f), "deactivate", IntParam(Text(f.user)))
    BY <1>0, <1>2, <2>1, AdminForms, QueriesReach
  <2>3. PICK found : Handle(a, found) /\ found.handler = "deactivate" /\ found.params = IntParam(Text(f.user))
    BY <2>2, HandlersCalled
  <2>4. Deactivate(a, IdOf(found)) /\ IdOf(found) = f.user
    BY <2>1, <2>3, HandledBy
  <2> QED BY <2>4
<1>3. ASSUME f.page = "users" PROVE AdminUsers(a)
  <2>0. IsNumber(f.admin)
    BY <1>0, <1>3, FormTypes
  <2>1. IsDigits(Text(f.admin))
    BY <2>0, FormNumber
  <2>2. Reaches(RequestOf(f), "users", <<>>)
    BY <1>0, <1>3, <2>1, AdminForms, QueriesReach
  <2> QED BY <2>2, HandlersCalled, HandledBy
<1>4. ASSUME f.page = "query" PROVE Query(a)
  <2>0. IsNumber(f.limit) /\ f.sort_by \in {"d", "r", "f"} /\ f.order \in {"desc", "asc"}
    BY <1>0, <1>4, FormTypes
  <2>1. IsDigits(Text(f.limit))
    BY <2>0, FormNumber
  <2>2. Reaches(RequestOf(f), "query", <<>>)
    BY <1>0, <1>4, <2>0, <2>1, AdminForms, QueriesReach
  <2> QED BY <2>2, HandlersCalled, HandledBy
<1> QED BY <1>1, <1>2, <1>3, <1>4

\* What a registration leaves, or leaves alone.
NewUser(f) == [id |-> next_user_id, email |-> f.email, password |-> f.password,
               username |-> Field(f.username, FieldSize), active |-> TRUE,
               role |-> IF users = <<>> THEN ROLE_ADMIN ELSE ROLE_USER]
MayRegister(f) == <<>> \notin {f.email, f.password, f.username} /\ \A i \in DOMAIN users : users[i].email # f.email
LEMMA RegisterDone ==
  ASSUME DataInv, NEW a, NEW f, Gets(a, f), f.page = "register"
  PROVE  Meant(f)
<1> DEFINE b == a.request.body
           email == url_decode(FieldOf(b, "e"))
           password == url_decode(FieldOf(b, "p"))
           username == url_decode(FieldOf(b, "u"))
<1>1. f \in Forms /\ a.request = RequestOf(f)
  BY DEF Gets, AskOf
<1>2. IsSeq(f.email) /\ IsSeq(f.password) /\ IsSeq(f.username)
  BY <1>1, FormTypes
<1>3. b = RegisterBody(f.email, f.password, f.username)
  BY <1>1, PostForms DEF Request
<1>4. email = f.email /\ password = f.password /\ username = f.username
  BY <1>2, <1>3, RegisterSays
<1>5. Register(a)
  BY CalledPosts
<1>6. next_user_id = 1 <=> users = <<>>
  <2>1. users \in Seq(ToSet(users)) /\ next_user_id = Len(users) + 1
    BY DEF DataInv, IsSeq
  <2>2. Len(users) \in Nat /\ (Len(users) = 0 <=> users = <<>>)
    BY <2>1, EmptySeq, LenProperties
  <2> QED BY <2>1, <2>2
<1> HIDE DEF email, password, username
<1>7. CASE MayRegister(f)
  <2>1. /\ users' = Append(users, [id |-> next_user_id, email |-> email, password |-> password,
                                    username |-> Field(username, FieldSize), active |-> TRUE,
                                    role |-> IF next_user_id = 1 THEN ROLE_ADMIN ELSE ROLE_USER])
        /\ UNCHANGED <<projectVars, traceVars>>
    BY <1>4, <1>5, <1>7 DEF Register, MayRegister, email, password, username
  <2>2. users' = Append(users, NewUser(f)) /\ UNCHANGED <<projectVars, traceVars>>
    BY <1>4, <1>6, <2>1 DEF NewUser
  <2> QED BY <1>7, <2>2 DEF Meant, MayRegister, NewUser
<1>8. CASE ~MayRegister(f)
  <2>1. UNCHANGED databases
    BY <1>4, <1>5, <1>8 DEF Register, MayRegister, email, password, username, Refuses, Reads
  <2> QED BY <1>8, <2>1 DEF Meant, MayRegister
<1> QED BY <1>7, <1>8

\* What a login finds.
LEMMA LoginDone ==
  ASSUME DataInv, NEW a, NEW f, Gets(a, f), f.page = "login"
  PROVE  Meant(f)
<1> DEFINE b == a.request.body
           Meets(i) == users[i].email = f.email /\ users[i].password = f.password /\ users[i].active
           I == {i \in DOMAIN users : Meets(i)}
           found == Selected(users, I)
<1>1. f \in Forms /\ a.request = RequestOf(f)
  BY DEF Gets, AskOf
<1>2. IsSeq(f.email) /\ IsSeq(f.password)
  BY <1>1, FormTypes
<1>3. b = LoginBody(f.email, f.password)
  BY <1>1, PostForms DEF Request
<1>4. url_decode(FieldOf(b, "e")) = f.email /\ url_decode(FieldOf(b, "p")) = f.password
  BY <1>2, <1>3, LoginSays
<1>5. Login(a)
  BY CalledPosts
<1>6. IF found # <<>> THEN Reads(a, 200, <<Head(found).id>>) ELSE Refuses(a, 401)
  BY <1>4, <1>5 DEF Login, login_user
<1>7. found = <<>> <=> I = {}
  <2>1. users \in Seq(ToSet(users))
    BY DEF DataInv, IsSeq
  <2>2. I \in SUBSET (1..Len(users))
    BY <2>1, LenProperties
  <2> HIDE DEF I
  <2> QED BY <2>1, <2>2, SelectedSet
<1> HIDE DEF found
<1>8. UNCHANGED databases /\ last'.code = IF found # <<>> THEN 200 ELSE 401
  BY <1>6 DEF Refuses, Reads, Answer
<1>9. last'.code = 200 <=> \E i \in DOMAIN users : Meets(i)
  BY <1>7, <1>8
<1> QED BY <1>8, <1>9 DEF Meant

\* What a new project is.
LEMMA CreateDone ==
  ASSUME DataInv, NEW a, NEW f, Gets(a, f), f.page = "create"
  PROVE  Meant(f)
<1> DEFINE b == a.request.body
           name == encodeURIComponent(f.name)
           p == [id |-> next_project_id, user_id |-> f.user, name |-> Field(name, FieldSize),
                 api_key |-> next_project_id, fast |-> 100, normal |-> 500]
<1>1. f \in Forms /\ a.request = RequestOf(f)
  BY DEF Gets, AskOf
<1>2. IsNumber(f.user) /\ IsSeq(f.name)
  BY <1>1, FormTypes
<1>3. b = CreateBody(f.user, f.name)
  BY <1>1, PostForms DEF Request
<1>4. ASSUME NEW default PROVE PostParam(b, "u", default) = Text(f.user) /\ PostParam(b, "n", default) = name
  BY <1>2, <1>3, CreateSays
<1>5. stoi(Text(f.user)) = f.user /\ ~StoiThrows(Text(f.user))
  BY <1>2, FormNumber
<1>6. CreateProject(a)
  BY CalledPosts
<1> HIDE DEF name
<1>7. projects' = Append(projects, p) /\ UNCHANGED <<accountVars, traceVars>>
  <2> DEFINE user == PostParam(b, "u", <<"0">>)
             said == PostParam(b, "n", <<"My Project">>)
  <2>1. user = Text(f.user) /\ said = name
    BY <1>4, Zenon
  <2>2. IF StoiThrows(user) THEN Refuses(a, 500)
        ELSE /\ projects' = Append(projects, [id |-> next_project_id, user_id |-> stoi(user),
                                              name |-> Field(said, FieldSize), api_key |-> next_project_id,
                                              fast |-> 100, normal |-> 500])
             /\ UNCHANGED <<accountVars, traceVars>>
    BY <1>6, Zenon DEF CreateProject
  <2> HIDE DEF user, said
  <2> QED BY <1>5, <2>1, <2>2
<1>8. p.user_id = f.user /\ (Plain(f.name) => p.name = Field(f.name, FieldSize))
  BY DEF Plain, name
<1>9. p.id = next_project_id /\ p.api_key = next_project_id
  OBVIOUS
<1> HIDE DEF p
<1>10. ToSet(projects') = ToSet(projects) \cup {p}
  <2> DEFINE q == Append(projects, p)
  <2>1. IsSeq(projects)
    BY DEF DataInv
  <2>2. /\ DOMAIN q = DOMAIN projects \cup {Len(projects) + 1}
        /\ \A i \in DOMAIN projects : q[i] = projects[i]
        /\ q[Len(projects) + 1] = p
    BY <2>1, AppendKeeps
  <2>3. projects' = q
    BY <1>7
  <2> HIDE DEF q
  <2> QED BY <2>2, <2>3 DEF ToSet
<1>11. \A q \in ToSet(projects) : q.api_key # p.api_key /\ q.id # p.id
  <2> SUFFICES ASSUME NEW i \in DOMAIN projects PROVE projects[i].api_key # p.api_key /\ projects[i].id # p.id
    BY DEF ToSet
  <2>1. projects[i].id \in 1..next_project_id - 1 /\ projects[i].api_key \in 1..next_project_id - 1 /\ next_project_id \in Nat
    BY DEF DataInv, HasNumbers
  <2> QED BY <1>9, <2>1
<1>12. p \in ToSet(projects')
  BY <1>10
<1> QED BY <1>7, <1>8, <1>10, <1>11, <1>12 DEF Meant

\* What is left when a project is deleted.
LEMMA DeleteDone ==
  ASSUME DataInv, NEW a, NEW f, Gets(a, f), f.page = "delete"
  PROVE  Meant(f)
<1> DEFINE I == {i \in DOMAIN projects : projects[i].id # f.project}
           left == {p \in ToSet(projects) : p.id # f.project}
<1>1. DeleteProject(a, f.project)
  BY CalledNumbers
<1>2. ToSet(projects') = left /\ UNCHANGED <<accountVars, traceVars>>
  <2>1. CASE \A i \in DOMAIN projects : projects[i].id # f.project
    <3>1. UNCHANGED databases
      BY <1>1, <2>1 DEF DeleteProject, Refuses, Reads
    <3>2. projects' = projects /\ UNCHANGED <<accountVars, traceVars>>
      BY <3>1 DEF databases, projectVars
    <3> QED BY <2>1, <3>2 DEF ToSet
  <2>2. CASE \E i \in DOMAIN projects : projects[i].id = f.project
    <3>1. projects' = Selected(projects, I) /\ UNCHANGED <<accountVars, traceVars>>
      BY <1>1, <2>2 DEF DeleteProject
    <3>2. projects \in Seq(ToSet(projects))
      BY DEF DataInv, IsSeq
    <3>3. I \in SUBSET (1..Len(projects))
      BY <3>2, LenProperties
    <3>4. ToSet(Selected(projects, I)) = {projects[i] : i \in I}
      <4> HIDE DEF I
      <4> QED BY <3>2, <3>3, SelectedSet
    <3>5. {projects[i] : i \in I} = left
      BY DEF ToSet
    <3> QED BY <3>1, <3>4, <3>5
  <2> QED BY <2>1, <2>2
<1>3. UNCHANGED accountVars /\ TracesBut(traces', f.project) = TracesBut(traces, f.project)
  <2>1. traces' = traces
    BY <1>2 DEF traceVars
  <2> QED BY <1>2, <2>1
<1>4. ToSet(projects') = OthersOf(projects, f.project)
  BY <1>2 DEF OthersOf
<1> QED BY <1>3, <1>4 DEF Meant

\* Who asks as an administrator, in the query of a URL.
LEMMA AdminAsks ==
  ASSUME NEW a, NEW f, Gets(a, f), f.page \in {"users", "deactivate"}
  PROVE  /\ AdminId(a) # <<>> /\ Checked(a, AdminId(a)) = IF has_permission(f.admin) THEN 200 ELSE 403
         /\ f \in Forms
<1> DEFINE url == a.request.url
           w == Text(f.admin)
<1>1. f \in Forms /\ a.request = RequestOf(f)
  BY DEF Gets, AskOf
<1>2. IsNumber(f.admin) /\ (f.page = "deactivate" => IsNumber(f.user))
  BY <1>1, FormTypes
<1>3. IsDigits(w) /\ w # <<>> /\ stoi(w) = f.admin /\ ~StoiThrows(w)
  BY <1>2, FormNumber
<1>4. Has(qs_parse(url), "a") /\ get(qs_parse(url), "a") = w
  <2>1. CASE f.page = "users"
    <3>1. url = Admin(<<"?", "a", "=">> \o w)
      <4>1. RequestOf(f) = Request("GET", Admin(<<"?", "a", "=">> \o w), 0, <<>>)
        BY <2>1, AdminForms
      <4> HIDE DEF w
      <4> QED BY <1>1, <4>1 DEF Request
    <3>2. /\ Queried(url, <<"/", "api", "/", "admin", "/", "users">>, KeyedBy("a", w))
          /\ IsPair(KeyedBy("a", w), "a", w) /\ Unsplit(KeyedBy("a", w))
      BY <1>3, <3>1, UsersUrl
    <3> HIDE DEF url, w
    <3> QED BY <3>2, OneParam
  <2>2. CASE f.page = "deactivate"
    <3> DEFINE t == Text(f.user)
               path == <<"/", "api", "/", "admin", "/", "users", "/">> \o t
    <3>1. url = Admin(<<"/">> \o t \o <<"?", "a", "=">> \o w)
      <4>1. RequestOf(f) = Request("DELETE", Admin(<<"/">> \o t \o <<"?", "a", "=">> \o w), 0, <<>>)
        BY <2>2, AdminForms
      <4> HIDE DEF w, t
      <4> QED BY <1>1, <4>1 DEF Request
    <3>2. IsDigits(t)
      BY <1>2, <2>2, FormNumber
    <3>3. /\ Queried(url, path, KeyedBy("a", w))
          /\ IsPair(KeyedBy("a", w), "a", w) /\ Unsplit(KeyedBy("a", w))
      BY <1>3, <3>1, <3>2, UserUrl
    <3> HIDE DEF url, w, path
    <3> QED BY <3>3, OneParam
  <2> QED BY <2>1, <2>2
<1>5. AdminId(a) = w
  BY <1>4 DEF AdminId
<1> HIDE DEF w
<1> QED BY <1>1, <1>3, <1>5 DEF Checked

\* What changes an account, for those who may.
ChangesUser(f, changed) ==
  IF Granted(f) /\ \E i \in DOMAIN users : users[i].id = f.user
  THEN /\ users' = [i \in DOMAIN users |-> IF users[i].id = f.user THEN changed[i] ELSE users[i]]
       /\ UNCHANGED <<next_user_id, projectVars, traceVars>>
  ELSE UNCHANGED databases
LEMMA ChangedUsers ==
  ASSUME DataInv, NEW f, NEW changed, ChangesUser(f, changed)
  PROVE  /\ Granted(f) => /\ users' = [i \in DOMAIN users |-> IF users[i].id = f.user THEN changed[i] ELSE users[i]]
                          /\ UNCHANGED <<next_user_id, projectVars, traceVars>>
         /\ ~Granted(f) => UNCHANGED databases
<1>1. CASE Granted(f) /\ ~\E i \in DOMAIN users : users[i].id = f.user
  <2> DEFINE u == [i \in DOMAIN users |-> IF users[i].id = f.user THEN changed[i] ELSE users[i]]
  <2>1. UNCHANGED databases
    BY <1>1 DEF ChangesUser
  <2>2. users' = users /\ UNCHANGED <<next_user_id, projectVars, traceVars>>
    BY <2>1 DEF databases, accountVars
  <2>3. users = [i \in DOMAIN users |-> users[i]]
    <3>1. users \in Seq(ToSet(users))
      BY DEF DataInv, IsSeq
    <3> QED BY <3>1
  <2>4. u = [i \in DOMAIN users |-> users[i]]
    BY <1>1
  <2> QED BY <1>1, <2>2, <2>3, <2>4
<1> QED BY <1>1 DEF ChangesUser

\* A role is given.
LEMMA RoleDone ==
  ASSUME DataInv, NEW a, NEW f, Gets(a, f), f.page = "role"
  PROVE  Meant(f)
<1> DEFINE b == a.request.body
           changed == [i \in DOMAIN users |-> [users[i] EXCEPT !.role = f.role]]
           va == Text(f.admin)
           vr == Text(f.role)
<1>1. f \in Forms /\ a.request = RequestOf(f)
  BY DEF Gets, AskOf
<1>2. IsNumber(f.admin) /\ IsNumber(f.user) /\ IsNumber(f.role) /\ f.role \in 0..2
  BY <1>1, FormTypes
<1>3. b = RoleBody(f.admin, f.role)
  <2>1. RequestOf(f).body = RoleBody(f.admin, f.role)
    <3>1. RequestOf(f) = Request("PUT", Admin(<<"/">> \o Text(f.user) \o <<"/", "role">>), 0, RoleBody(f.admin, f.role))
      BY AdminForms
    <3> QED BY <3>1 DEF Request
  <2> QED BY <1>1, <2>1
<1>4. FieldOf(b, "a") = va /\ FieldOf(b, "r") = vr
  BY <1>2, <1>3, RoleSays
<1>5. /\ va # <<>> /\ stoi(va) = f.admin /\ ~StoiThrows(va)
      /\ vr # <<>> /\ stoi(vr) = f.role /\ ~StoiThrows(vr)
  BY <1>2, FormNumber
<1>6. SetRole(a, f.user)
  BY CalledAdmins
<1> HIDE DEF va, vr
<1>7. ChangesUser(f, changed)
  <2>1. f.role \in ROLE_USER..ROLE_ADMIN
    BY <1>2 DEF ROLE_USER, ROLE_ADMIN
  <2>2. CASE ~has_permission(f.admin)
    <3>1. UNCHANGED databases
      BY <1>4, <1>5, <1>6, <2>1, <2>2 DEF SetRole, Refuses, Reads
    <3> QED BY <2>2, <3>1 DEF ChangesUser, Granted
  <2>3. CASE has_permission(f.admin)
    <3>1. ChangeUser(a, f.user, LAMBDA u : [u EXCEPT !.role = stoi(FieldOf(b, "r"))])
      BY <1>4, <1>5, <1>6, <2>1, <2>3 DEF SetRole
    <3>2. IF f.user # 1 /\ \E i \in DOMAIN users : users[i].id = f.user
          THEN /\ users' = [i \in DOMAIN users |-> IF users[i].id = f.user THEN [users[i] EXCEPT !.role = f.role] ELSE users[i]]
               /\ UNCHANGED <<next_user_id, projectVars, traceVars>>
          ELSE UNCHANGED databases
      BY <1>4, <1>5, <3>1 DEF ChangeUser, Refuses, Reads
    <3>3. [i \in DOMAIN users |-> IF users[i].id = f.user THEN [users[i] EXCEPT !.role = f.role] ELSE users[i]]
            = [i \in DOMAIN users |-> IF users[i].id = f.user THEN changed[i] ELSE users[i]]
      OBVIOUS
    <3> HIDE DEF changed
    <3> QED BY <2>3, <3>2, <3>3 DEF ChangesUser, Granted
  <2> QED BY <2>2, <2>3
<1>8. [i \in DOMAIN users |-> IF users[i].id = f.user THEN changed[i] ELSE users[i]]
        = Changed(users, f.user, LAMBDA u : [u EXCEPT !.role = f.role])
  BY DEF Changed
<1>9. /\ Granted(f) => /\ users' = [i \in DOMAIN users |-> IF users[i].id = f.user THEN changed[i] ELSE users[i]]
                       /\ UNCHANGED <<next_user_id, projectVars, traceVars>>
      /\ ~Granted(f) => UNCHANGED databases
  <2> HIDE DEF changed
  <2> QED BY <1>7, ChangedUsers
<1> HIDE DEF changed
<1>10. CASE Granted(f)
  <2>1. users' = Changed(users, f.user, LAMBDA u : [u EXCEPT !.role = f.role]) /\ UNCHANGED <<projectVars, traceVars>>
    BY <1>8, <1>9, <1>10
  <2> QED BY <1>10, <2>1 DEF Meant
<1>11. CASE ~Granted(f)
  BY <1>9, <1>11 DEF Meant
<1> QED BY <1>10, <1>11

\* An account is deactivated.
LEMMA DeactivateDone ==
  ASSUME DataInv, NEW a, NEW f, Gets(a, f), f.page = "deactivate"
  PROVE  Meant(f)
<1> DEFINE changed == [i \in DOMAIN users |-> [users[i] EXCEPT !.active = FALSE]]
<1>1. AdminId(a) # <<>> /\ Checked(a, AdminId(a)) = IF has_permission(f.admin) THEN 200 ELSE 403
  BY AdminAsks
<1>2. Deactivate(a, f.user)
  BY CalledAdmins
<1>3. ChangesUser(f, changed)
  <2>1. CASE ~has_permission(f.admin)
    <3>1. UNCHANGED databases
      BY <1>1, <1>2, <2>1 DEF Deactivate, Refuses, Reads
    <3> QED BY <2>1, <3>1 DEF ChangesUser, Granted
  <2>2. CASE has_permission(f.admin)
    <3>1. ChangeUser(a, f.user, LAMBDA u : [u EXCEPT !.active = FALSE])
      BY <1>1, <1>2, <2>2 DEF Deactivate
    <3>2. IF f.user # 1 /\ \E i \in DOMAIN users : users[i].id = f.user
          THEN /\ users' = [i \in DOMAIN users |-> IF users[i].id = f.user THEN [users[i] EXCEPT !.active = FALSE] ELSE users[i]]
               /\ UNCHANGED <<next_user_id, projectVars, traceVars>>
          ELSE UNCHANGED databases
      BY <3>1 DEF ChangeUser, Refuses, Reads
    <3>3. [i \in DOMAIN users |-> IF users[i].id = f.user THEN [users[i] EXCEPT !.active = FALSE] ELSE users[i]]
            = [i \in DOMAIN users |-> IF users[i].id = f.user THEN changed[i] ELSE users[i]]
      OBVIOUS
    <3> HIDE DEF changed
    <3> QED BY <2>2, <3>2, <3>3 DEF ChangesUser, Granted
  <2> QED BY <2>1, <2>2
<1>4. [i \in DOMAIN users |-> IF users[i].id = f.user THEN changed[i] ELSE users[i]]
        = Changed(users, f.user, LAMBDA u : [u EXCEPT !.active = FALSE])
  BY DEF Changed
<1>5. /\ Granted(f) => /\ users' = [i \in DOMAIN users |-> IF users[i].id = f.user THEN changed[i] ELSE users[i]]
                       /\ UNCHANGED <<next_user_id, projectVars, traceVars>>
      /\ ~Granted(f) => UNCHANGED databases
  <2> HIDE DEF changed
  <2> QED BY <1>3, ChangedUsers
<1> HIDE DEF changed
<1>6. CASE Granted(f)
  <2>1. users' = Changed(users, f.user, LAMBDA u : [u EXCEPT !.active = FALSE]) /\ UNCHANGED <<projectVars, traceVars>>
    BY <1>4, <1>5, <1>6
  <2> QED BY <1>6, <2>1 DEF Meant
<1>7. CASE ~Granted(f)
  BY <1>5, <1>7 DEF Meant
<1> QED BY <1>6, <1>7

\* Where no rule suits there is no handler.
NoneSuits(m, url) == \A i \in DOMAIN AppRules : ~Suits(i, m, url)
LEMMA ReachesNone ==
  ASSUME RouterInv, Serving, NEW r, r.method \in {"PUT", "DELETE"}, r.url \in Seq(Letters), NoQuestion(r.url),
         NoneSuits(r.method, r.url)
  PROVE  Routed(r).handler = None
<1>1. PathOf(r) = r.url
  BY NoQuery DEF PathOf
<1>2. RoutedTo(r.method, r.url, Routed(r))
  <2>1. r.method \in {"GET", "POST", "PUT", "DELETE"} /\ PathOf(r) \in Seq(Letters)
    BY <1>1
  <2>2. RoutedTo(r.method, PathOf(r), Routed(r))
    BY <2>1, RequestRouted
  <2> QED BY <1>1, <2>2
<1> QED BY <1>2 DEF RoutedTo, NoneSuits

\* What the workspace puts and deletes goes nowhere.
LEMMA UndefinedDone ==
  ASSUME NEW a, NEW f, Gets(a, f), f.page \in {"saveSettings", "confirmDelete"}
  PROVE  UNCHANGED databases
<1> DEFINE r == a.request
<1>1. RouterInv /\ Serving /\ Handle(a, Routed(r)) /\ r = RequestOf(f)
  BY DEF Gets, AskOf, Serve
<1>2. r.method \in {"PUT", "DELETE"} /\ r.url \in Seq(Letters) /\ NoQuestion(r.url) /\ NoneSuits(r.method, r.url)
  <2>1. CASE f.page = "saveSettings"
    <3> DEFINE url == Api(<<"project", "/", "undefined", "/", "settings">>)
    <3>1. r.method = "PUT" /\ r.url = url
      BY <1>1, <2>1, OtherForms
    <3>2. NoneSuits("PUT", url)
      BY UndefinedRoutes DEF NoneSuits
    <3>3. url = <<"/", "api", "/", "project", "/", "undefined", "/", "settings">>
      BY UrlsSpelled
    <3>4. url \in Seq(Letters) /\ NoQuestion(url)
      <4> DEFINE u == <<"/", "api", "/", "project", "/", "undefined", "/", "settings">>
      <4>1. /\ u \in Seq(Letters) /\ Len(u) = 8 /\ u[1] = "/" /\ u[2] = "api" /\ u[3] = "/" /\ u[4] = "project"
            /\ u[5] = "/" /\ u[6] = "undefined" /\ u[7] = "/" /\ u[8] = "settings"
        BY DEF Letters
      <4> HIDE DEF u
      <4>2. ASSUME NEW j \in 1..Len(u) PROVE u[j] # "?"
        <5>1. j = 1 \/ j = 2 \/ j = 3 \/ j = 4 \/ j = 5 \/ j = 6 \/ j = 7 \/ j = 8
          BY <4>1
        <5> QED BY <4>1, <5>1
      <4>3. NoQuestion(u)
        BY <4>2 DEF NoQuestion
      <4> HIDE DEF url
      <4> QED BY <3>3, <4>1, <4>3 DEF u
    <3> HIDE DEF url
    <3> QED BY <3>1, <3>2, <3>4
  <2>2. CASE f.page = "confirmDelete"
    <3> DEFINE url == Api(<<"project", "/", "undefined">>)
    <3>1. r.method = "DELETE" /\ r.url = url
      BY <1>1, <2>2, OtherForms
    <3>2. NoneSuits("DELETE", url)
      BY UndefinedRoutes DEF NoneSuits
    <3>3. url = <<"/", "api", "/", "project", "/", "undefined">>
      BY UrlsSpelled
    <3>4. url \in Seq(Letters) /\ NoQuestion(url)
      <4> DEFINE u == <<"/", "api", "/", "project", "/", "undefined">>
      <4>1. /\ u \in Seq(Letters) /\ Len(u) = 6 /\ u[1] = "/" /\ u[2] = "api" /\ u[3] = "/" /\ u[4] = "project"
            /\ u[5] = "/" /\ u[6] = "undefined"
        BY DEF Letters
      <4> HIDE DEF u
      <4>2. ASSUME NEW j \in 1..Len(u) PROVE u[j] # "?"
        <5>1. j = 1 \/ j = 2 \/ j = 3 \/ j = 4 \/ j = 5 \/ j = 6
          BY <4>1
        <5> QED BY <4>1, <5>1
      <4>3. NoQuestion(u)
        BY <4>2 DEF NoQuestion
      <4> HIDE DEF url
      <4> QED BY <3>3, <4>1, <4>3 DEF u
    <3> HIDE DEF url
    <3> QED BY <3>1, <3>2, <3>4
  <2> QED BY <2>1, <2>2
<1> HIDE DEF r
<1>3. Routed(r).handler = None
  BY <1>1, <1>2, ReachesNone
<1>4. Refuses(a, Routed(r).code)
  BY <1>1, <1>3, HandledBy
<1> QED BY <1>4 DEF Refuses, Reads

\* The URL of a project's settings.
SettingsAt(url, t) ==
  /\ url \in Seq(Letters) /\ Len(url) = 7 + Len(t) /\ Len(t) \in Nat /\ Len(t) >= 1
  /\ url[1] = "/" /\ url[2] = "api" /\ url[3] = "/" /\ url[4] = "project" /\ url[5] = "/"
  /\ \A j \in 1..Len(t) : url[5 + j] = t[j]
  /\ url[6 + Len(t)] = "/" /\ url[7 + Len(t)] = "settings"

LEMMA SettingsUrl ==
  ASSUME NEW t, IsDigits(t)
  PROVE  SettingsAt(Api(<<"project", "/">> \o t \o <<"/", "settings">>), t)
         /\ NoQuestion(Api(<<"project", "/">> \o t \o <<"/", "settings">>))
<1> DEFINE w == <<"project", "/">>
           e == <<"/", "settings">>
           b == w \o t
           c == b \o e
           url == Api(c)
<1>1. t \in Seq(Letters) /\ Len(t) \in Nat /\ Len(t) >= 1 /\ \A j \in 1..Len(t) : t[j] # "?"
  BY DigitsLetters, DigitsPlain
<1>2. w \in Seq(Letters) /\ Len(w) = 2 /\ w[1] = "project" /\ w[2] = "/"
  BY DEF Letters
<1>3. e \in Seq(Letters) /\ Len(e) = 2 /\ e[1] = "/" /\ e[2] = "settings"
  BY DEF Letters
<1>4. url = Api(<<"project", "/">> \o t \o <<"/", "settings">>)
  OBVIOUS
<1> HIDE DEF w, e, url
<1>5. IsConcat(Letters, b, w, t)
  BY <1>1, <1>2, ConcatIs
<1> HIDE DEF b
<1>6. /\ b \in Seq(Letters) /\ Len(b) = 2 + Len(t) /\ (\A j \in 1..2 : b[j] = w[j])
      /\ \A j \in 1..Len(t) : b[2 + j] = t[j]
  BY <1>1, <1>2, <1>5 DEF IsConcat
<1>7. IsConcat(Letters, c, b, e)
  BY <1>3, <1>6, ConcatIs
<1> HIDE DEF c
<1>8. /\ c \in Seq(Letters) /\ Len(c) = (2 + Len(t)) + 2 /\ (\A j \in 1..2 + Len(t) : c[j] = b[j])
      /\ \A j \in 1..2 : c[(2 + Len(t)) + j] = e[j]
  BY <1>1, <1>3, <1>6, <1>7 DEF IsConcat
<1>9. /\ c[1] = "project" /\ c[2] = "/" /\ (\A j \in 1..Len(t) : c[2 + j] = t[j])
      /\ c[3 + Len(t)] = "/" /\ c[4 + Len(t)] = "settings" /\ Len(c) = 4 + Len(t)
  <2>1. 1 \in 1..2 /\ 2 \in 1..2 /\ 1 \in 1..2 + Len(t) /\ 2 \in 1..2 + Len(t)
    BY <1>1
  <2>2. c[1] = "project" /\ c[2] = "/"
    BY <1>2, <1>6, <1>8, <2>1
  <2>3. ASSUME NEW j \in 1..Len(t) PROVE c[2 + j] = t[j]
    <3>1. 2 + j \in 1..2 + Len(t)
      BY <1>1
    <3> QED BY <1>6, <1>8, <3>1
  <2>4. (2 + Len(t)) + 1 = 3 + Len(t) /\ (2 + Len(t)) + 2 = 4 + Len(t)
    BY <1>1
  <2>5. c[3 + Len(t)] = "/" /\ c[4 + Len(t)] = "settings" /\ Len(c) = 4 + Len(t)
    BY <1>3, <1>8, <2>1, <2>4
  <2> QED BY <2>2, <2>3, <2>5
<1>10. NoQuestion(c)
  <2> SUFFICES ASSUME NEW j \in 1..Len(c) PROVE c[j] # "?"
    BY DEF NoQuestion
  <2>1. CASE j <= 2
    <3>1. j = 1 \/ j = 2
      BY <2>1
    <3> QED BY <1>9, <3>1
  <2>2. CASE j > 2 /\ j <= 2 + Len(t)
    <3>1. j - 2 \in 1..Len(t) /\ 2 + (j - 2) = j
      BY <1>1, <2>2
    <3> QED BY <1>1, <1>9, <3>1
  <2>3. CASE j > 2 + Len(t)
    <3>1. j = 3 + Len(t) \/ j = 4 + Len(t)
      BY <1>1, <1>9, <2>3
    <3> QED BY <1>9, <3>1
  <2> QED BY <1>1, <2>1, <2>2, <2>3
<1>11. ApiIs(url, c)
  <2>1. url = Api(c)
    BY DEF url
  <2> QED BY <1>8, <2>1, ApiAt
<1>12. /\ url \in Seq(Letters) /\ Len(url) = 7 + Len(t) /\ url[1] = "/" /\ url[2] = "api" /\ url[3] = "/"
       /\ \A j \in 1..Len(c) : url[3 + j] = c[j]
  BY <1>1, <1>9, <1>11 DEF ApiIs
<1>13. url[4] = "project" /\ url[5] = "/" /\ url[6 + Len(t)] = "/" /\ url[7 + Len(t)] = "settings"
  <2>1. /\ 1 \in 1..Len(c) /\ 3 + 1 = 4 /\ 2 \in 1..Len(c) /\ 3 + 2 = 5
        /\ 3 + Len(t) \in 1..Len(c) /\ 3 + (3 + Len(t)) = 6 + Len(t)
        /\ 4 + Len(t) \in 1..Len(c) /\ 3 + (4 + Len(t)) = 7 + Len(t)
    BY <1>1, <1>9
  <2>2. url[3 + 1] = c[1] /\ url[3 + 2] = c[2] /\ url[3 + (3 + Len(t))] = c[3 + Len(t)] /\ url[3 + (4 + Len(t))] = c[4 + Len(t)]
    BY <1>12, <2>1
  <2> QED BY <1>9, <2>1, <2>2
<1>14. SettingsAt(url, t)
  <2>1. ASSUME NEW j \in 1..Len(t) PROVE url[5 + j] = t[j]
    <3>1. 2 + j \in 1..Len(c) /\ 3 + (2 + j) = 5 + j
      BY <1>1, <1>9
    <3>2. url[3 + (2 + j)] = c[2 + j] /\ c[2 + j] = t[j]
      BY <1>9, <1>12, <3>1
    <3> QED BY <3>1, <3>2
  <2> QED BY <1>1, <1>12, <1>13, <2>1 DEF SettingsAt
<1>15. NoQuestion(url)
  <2> SUFFICES ASSUME NEW j \in 1..Len(url) PROVE url[j] # "?"
    BY DEF NoQuestion
  <2>1. CASE j <= 3
    <3>1. j = 1 \/ j = 2 \/ j = 3
      BY <2>1
    <3> QED BY <1>12, <3>1
  <2>2. CASE j > 3
    <3>1. j - 3 \in 1..Len(c) /\ 3 + (j - 3) = j
      BY <1>1, <1>9, <1>12, <2>2
    <3>2. url[3 + (j - 3)] = c[j - 3] /\ c[j - 3] # "?"
      BY <1>10, <1>12, <3>1 DEF NoQuestion
    <3> QED BY <3>1, <3>2
  <2> QED BY <2>1, <2>2
<1> QED BY <1>4, <1>14, <1>15

\* PUT /api/project/<int>/settings goes to its handler.
LEMMA SettingsRoute ==
  ASSUME NEW url, NEW t, IsDigits(t), SettingsAt(url, t)
  PROVE  OnlyRule("PUT", url, "settings", IntParam(t))
<1> DEFINE own == <<"/", "api", "/", "project", "/", "<int>", "/", "settings">>
<1>1. /\ url \in Seq(Letters) /\ Len(url) = 7 + Len(t) /\ Len(t) \in Nat /\ Len(t) >= 1
      /\ url[1] = "/" /\ url[2] = "api" /\ url[3] = "/" /\ url[4] = "project" /\ url[5] = "/"
      /\ \A j \in 1..Len(t) : url[5 + j] = t[j]
      /\ url[6 + Len(t)] = "/" /\ url[7 + Len(t)] = "settings"
  BY DEF SettingsAt
<1>2. MatchesOf(own, url) = {IntParam(t)}
  <2>1. own \in Seq(Letters) /\ Len(own) = 8 /\ own[6] = "<int>" /\ own[7] = "/" /\ own[8] = "settings"
        /\ own[1] = "/" /\ own[2] = "api" /\ own[3] = "/" /\ own[4] = "project" /\ own[5] = "/"
    BY DEF Letters
  <2> HIDE DEF own
  <2>2. SameRun(own, 1, url, 1, 6 - 1)
    <3>1. ASSUME NEW j \in 0..(6 - 1) - 1 PROVE own[1 + j] \notin Param /\ url[1 + j] = own[1 + j]
      <4>1. 1 + j = 1 \/ 1 + j = 2 \/ 1 + j = 3 \/ 1 + j = 4 \/ 1 + j = 5
        OBVIOUS
      <4> QED BY <1>1, <2>1, <4>1 DEF Param
    <3> QED BY <1>1, <2>1, <3>1 DEF SameRun
  <2>3. NumberAt(url, 6, t)
    <3>1. "/" \notin Digit
      BY DEF Digit
    <3> QED BY <1>1, <3>1 DEF NumberAt
  <2>4. SameRun(own, 6 + 1, url, 6 + Len(t), Len(own) - 6)
    <3>1. ASSUME NEW j \in 0..(Len(own) - 6) - 1 PROVE own[6 + 1 + j] \notin Param /\ url[6 + Len(t) + j] = own[6 + 1 + j]
      <4>1. (j = 0 /\ 6 + 1 + j = 7 /\ 6 + Len(t) + j = 6 + Len(t)) \/ (j = 1 /\ 6 + 1 + j = 8 /\ 6 + Len(t) + j = 7 + Len(t))
        BY <1>1, <2>1
      <4> QED BY <1>1, <2>1, <4>1 DEF Param
    <3> QED BY <1>1, <2>1, <3>1 DEF SameRun
  <2>5. Fills(own, 6, url, t)
    <3>1. 6 \in 1..Len(own) /\ Len(url) = Len(own) - 1 + Len(t)
      BY <1>1, <2>1
    <3> QED BY <2>1, <2>2, <2>3, <2>4, <3>1 DEF Fills
  <2> QED BY <1>1, <2>1, <2>5, MatchesFilled
<1>3. ASSUME NEW i \in DOMAIN AppRules, Suits(i, "PUT", url)
      PROVE  AppRules[i].kind = "settings" /\ MatchesOf(AppRules[i].url, url) = {IntParam(t)}
  <2>1. OfProject(url)
    BY <1>1 DEF OfProject
  <2>2. AppRules[i].kind = "settings" /\ AppRules[i].url = own
    BY <1>3, <2>1, SettingsRules
  <2> HIDE DEF own
  <2> QED BY <1>2, <2>2
<1> HIDE DEF own
<1>4. \E i \in DOMAIN AppRules : Suits(i, "PUT", url)
  <2>1. Declares("PUT", own, "settings")
    <3>1. Api(<<"project", "/", "<int>", "/", "settings">>) = own
      BY UrlsSpelled DEF own
    <3>2. Declares("PUT", Api(<<"project", "/", "<int>", "/", "settings">>), "settings")
      BY RulesDeclared
    <3> QED BY <3>1, <3>2, Zenon
  <2>2. PICK i \in DOMAIN AppRules : AppRules[i].methods = {"PUT"} /\ AppRules[i].url = own
    BY <2>1 DEF Declares
  <2> QED BY <1>2, <2>2 DEF Suits
<1> QED BY <1>3, <1>4 DEF OnlyRule

\* What the settings of a project do, if anything: an entry with its id is inserted.
ProjectPut(p, id) ==
  /\ projects' \in Inserted(projects, p) /\ p.id = id /\ HasNumbers(p, next_project_id - 1)
  /\ UNCHANGED <<accountVars, next_project_id, traceVars>>
LEMMA SettingsPut ==
  ASSUME DataInv, NEW a, NEW id, Settings(a, id)
  PROVE  UNCHANGED databases \/ \E p : ProjectPut(p, id)
<1> DEFINE I == {i \in DOMAIN projects : projects[i].id = id}
           found == Selected(projects, I)
<1> SUFFICES ASSUME ~UNCHANGED databases PROVE \E p : ProjectPut(p, id)
  OBVIOUS
<1> DEFINE pairs == qs_parse(a.request.body)
           f == IF Has(pairs, "f") THEN stoi(get(pairs, "f")) ELSE 100
           n == IF Has(pairs, "n") THEN stoi(get(pairs, "n")) ELSE 500
           p == [Head(found) EXCEPT !.fast = f, !.normal = n]
<1>1. /\ projects' \in IF found = <<>> THEN {projects} ELSE Inserted(projects, p)
      /\ UNCHANGED <<accountVars, next_project_id, traceVars>>
  BY DEF Settings, Refuses, Reads
<1> HIDE DEF f, n, found
<1>2. found # <<>>
  <2> SUFFICES ASSUME found = <<>> PROVE FALSE
    OBVIOUS
  <2>1. projects' = projects /\ UNCHANGED <<accountVars, next_project_id, traceVars>>
    BY <1>1
  <2> QED BY <2>1, Zenon DEF databases, projectVars
<1>3. projects' \in Inserted(projects, p)
  BY <1>1, <1>2
<1>4. projects \in Seq(ToSet(projects)) /\ \A i \in DOMAIN projects : HasNumbers(projects[i], next_project_id - 1)
  BY DEF DataInv, IsSeq
<1>5. found \in Seq(ToSet(projects)) /\ Picked(projects, I, found)
  BY <1>4, SelectedProps DEF found
<1>6. PICK i \in I : Head(found) = projects[i]
  <2>1. Head(found) = found[1] /\ 1 \in 1..Len(found)
    BY <1>2, <1>5, EmptySeq, LenProperties
  <2>2. \E i \in I : found[1] = projects[i]
    BY <1>5, <2>1 DEF Picked
  <2> QED BY <2>1, <2>2
<1> DEFINE h == Head(found)
<1>7. HasNumbers(h, next_project_id - 1) /\ h.id = id
  BY <1>4, <1>6
<1>8. p = [h EXCEPT !.fast = f, !.normal = n]
  OBVIOUS
<1> HIDE DEF h
<1>9. DOMAIN p = DOMAIN h /\ ("id" \in DOMAIN h => p.id = h.id) /\ ("api_key" \in DOMAIN h => p.api_key = h.api_key)
  <2> HIDE DEF p
  <2> QED BY <1>8
<1> HIDE DEF p
<1>10. HasNumbers(p, next_project_id - 1) /\ p.id = id
  BY <1>7, <1>9 DEF HasNumbers
<1> QED BY <1>1, <1>3, <1>10 DEF ProjectPut

\* Inserting an entry touches none with another id.
LEMMA OthersKept ==
  ASSUME NEW s, IsSeq(s), NEW x, NEW r \in Inserted(s, x)
  PROVE  OthersOf(r, x.id) = OthersOf(s, x.id)
<1>1. PICK n : /\ n \in DOMAIN r /\ r[n] = x
               /\ \A i \in DOMAIN r \ {n} : i \in DOMAIN s /\ r[i] = s[i]
               /\ \A i \in DOMAIN s : i \in DOMAIN r /\ (i = n => s[i].id = x.id)
  BY InsertedKeeps
<1>2. ASSUME NEW q \in OthersOf(r, x.id) PROVE q \in OthersOf(s, x.id)
  BY <1>1 DEF OthersOf, ToSet
<1>3. ASSUME NEW q \in OthersOf(s, x.id) PROVE q \in OthersOf(r, x.id)
  BY <1>1 DEF OthersOf, ToSet
<1> QED BY <1>2, <1>3

\* The settings are those of the project that was named.
LEMMA SettingsDone ==
  ASSUME DataInv, NEW a, NEW f, Gets(a, f), f.page = "settings"
  PROVE  Meant(f)
<1> DEFINE t == Text(f.project)
           url == Api(<<"project", "/">> \o t \o <<"/", "settings">>)
<1>1. RouterInv /\ Serving /\ f \in Forms
  BY DEF Gets, AskOf
<1>2. IsDigits(t) /\ \A found : found.params = IntParam(t) => IdOf(found) = f.project
  BY <1>1, FormTypes, FormNumber
<1>3. SettingsAt(url, t) /\ NoQuestion(url)
  BY <1>2, SettingsUrl
<1>4. RequestOf(f).method = "PUT" /\ RequestOf(f).url = url
  BY <1>1, OtherForms
<1> HIDE DEF t, url
<1>5. OnlyRule("PUT", url, "settings", IntParam(t))
  BY <1>2, <1>3, SettingsRoute
<1>6. url \in Seq(Letters)
  BY <1>3 DEF SettingsAt
<1>7. Reaches(RequestOf(f), "settings", IntParam(t))
  <2>1. PathOf(RequestOf(f)) = url
    BY <1>3, <1>4, <1>6, NoQuery DEF PathOf
  <2>2. RequestOf(f).method \in {"GET", "POST", "PUT", "DELETE"}
    BY <1>4
  <2>3. PathOf(RequestOf(f)) \in Seq(Letters)
    BY <1>6, <2>1
  <2>4. OnlyRule(RequestOf(f).method, PathOf(RequestOf(f)), "settings", IntParam(t))
    BY <1>4, <1>5, <2>1, Zenon
  <2>5. RoutedTo(RequestOf(f).method, PathOf(RequestOf(f)), Routed(RequestOf(f)))
    BY <1>1, <2>2, <2>3, RequestRouted
  <2> QED BY <2>4, <2>5 DEF RoutedTo, OnlyRule, Reaches
<1>8. PICK found : Handle(a, found) /\ found.handler = "settings" /\ found.params = IntParam(t)
  BY <1>7, HandlersCalled
<1>9. Settings(a, f.project)
  BY <1>2, <1>8, HandledBy
<1>10. CASE UNCHANGED databases
  BY <1>10 DEF Meant, databases, projectVars
<1>11. CASE \E p : ProjectPut(p, f.project)
  <2>1. PICK p : ProjectPut(p, f.project)
    BY <1>11
  <2>2. OthersOf(projects', f.project) = OthersOf(projects, f.project)
    <3>1. IsSeq(projects) /\ projects' \in Inserted(projects, p) /\ p.id = f.project
      BY <2>1 DEF DataInv, ProjectPut
    <3>2. OthersOf(projects', p.id) = OthersOf(projects, p.id)
      BY <3>1, OthersKept
    <3> QED BY <3>1, <3>2
  <2> QED BY <2>1, <2>2 DEF Meant, ProjectPut
<1> QED BY <1>9, <1>10, <1>11, SettingsPut

\* Those that only read.
LEMMA ReadingDone ==
  ASSUME NEW a, NEW f, Gets(a, f), f.page \in {"projects", "logs", "stats", "users", "query", "saveSettings", "confirmDelete"}
  PROVE  Meant(f)
<1>1. UNCHANGED databases
  <2>1. CASE f.page = "projects"
    BY <2>1, CalledNumbers DEF ListProjects, Reads
  <2>2. CASE f.page = "logs"
    BY <2>2, CalledNumbers DEF Logs, Reads
  <2>3. CASE f.page = "stats"
    <3>1. Stats(a, f.project)
      BY <2>3, CalledNumbers
    <3>2. \E shown : Reads(a, 200, shown)
      BY <3>1, Zenon DEF Stats
    <3> QED BY <3>2 DEF Reads
  <2>4. CASE f.page = "users"
    BY <2>4, CalledAdmins DEF AdminUsers, Refuses, Reads
  <2>5. CASE f.page = "query"
    BY <2>5, CalledAdmins DEF Query, Crashes, Refuses, Reads
  <2>6. CASE f.page \in {"saveSettings", "confirmDelete"}
    BY <2>6, UndefinedDone
  <2> QED BY <2>1, <2>2, <2>3, <2>4, <2>5, <2>6
<1> QED BY <1>1 DEF Meant

\* Every page asks for one of these.
LEMMA PagesOfForms ==
  ASSUME NEW f \in Forms
  PROVE  f.page \in {"register", "login", "create", "delete", "role", "deactivate", "settings",
                     "projects", "logs", "stats", "users", "query", "saveSettings", "confirmDelete"}
BY FormsAssumption

\* What a page asks for is done.
LEMMA AskedDone ==
  ASSUME DataInv, NEW a, NEW f, Gets(a, f)
  PROVE  Meant(f)
<1>1. f \in Forms
  BY DEF Gets, AskOf
<1>2. f.page \in {"register", "login", "create", "delete", "role", "deactivate", "settings",
                  "projects", "logs", "stats", "users", "query", "saveSettings", "confirmDelete"}
  BY <1>1, PagesOfForms
<1>3. CASE f.page \in {"projects", "logs", "stats", "users", "query", "saveSettings", "confirmDelete"}
  BY <1>3, ReadingDone
<1>4. CASE f.page = "register"
  BY <1>4, RegisterDone
<1>5. CASE f.page = "login"
  BY <1>5, LoginDone
<1>6. CASE f.page = "create"
  BY <1>6, CreateDone
<1>7. CASE f.page = "delete"
  BY <1>7, DeleteDone
<1>8. CASE f.page = "role"
  BY <1>8, RoleDone
<1>9. CASE f.page = "deactivate"
  BY <1>9, DeactivateDone
<1>10. CASE f.page = "settings"
  BY <1>10, SettingsDone
<1> QED BY <1>2, <1>3, <1>4, <1>5, <1>6, <1>7, <1>8, <1>9, <1>10

-----------------------------------------------------------------------------
(* Sums. *)

\* A sum of what comes before the last entry of S, and of that; weighed by w.
SumStep(w, v, f, S) == IF S = {} THEN 0 ELSE w[f[S \ {Max(S)}]] + v[Max(S)]

\* A set of places has a last one.
LEMMA MaxProps ==
  ASSUME NEW n \in Nat, NEW S \in SUBSET (1..n), S # {}
  PROVE  Max(S) \in S /\ \A y \in S : y <= Max(S)
<1>1. PICK x \in S : \A y \in S : y <= x
  <2>1. S \in SUBSET (0..n)
    OBVIOUS
  <2> QED BY <2>1, Greatest
<1>2. \A y \in S : x >= y
  BY <1>1
<1>3. Max(S) \in S /\ \A y \in S : Max(S) >= y
  <2> DEFINE Top(z) == \A y \in S : z >= y
  <2>1. Max(S) = CHOOSE z \in S : Top(z)
    BY DEF Max
  <2>2. Top(x)
    BY <1>2
  <2> HIDE DEF Top
  <2>3. Max(S) \in S /\ Top(Max(S))
    BY <2>1, <2>2
  <2> QED BY <2>3 DEF Top
<1>4. Max(S) \in Int /\ \A y \in S : y \in Int
  <2>1. \A y \in S : y \in Int
    OBVIOUS
  <2> QED BY <1>3, <2>1
<1> QED BY <1>3, <1>4

\* Such a sum can be made.
LEMMA SumSolved ==
  ASSUME NEW n \in Nat, NEW v \in [1..n -> Int], NEW w \in [Int -> Int]
  PROVE  \E f \in [SUBSET (1..n) -> Int] : \A S \in SUBSET (1..n) : f[S] = SumStep(w, v, f, S)
<1> DEFINE D == SUBSET (1..n)
           V == Int
           Rank(S) == IF S = {} THEN 0 ELSE Max(S)
           rank == [S \in D |-> Rank(S)]
           F == [f \in [D -> V] |-> [S \in D |-> SumStep(w, v, f, S)]]
<1>1. ASSUME NEW S \in D, S # {}
      PROVE  /\ Max(S) \in 1..n /\ S \ {Max(S)} \in D
             /\ rank[S \ {Max(S)}] < rank[S]
  <2> DEFINE T == S \ {Max(S)}
  <2>1. Max(S) \in S /\ Max(S) \in 1..n /\ \A y \in S : y <= Max(S)
    BY <1>1, MaxProps
  <2>2. T \in D /\ S \in D /\ T \in SUBSET (1..n)
    OBVIOUS
  <2>3. rank[S] = Max(S) /\ rank[T] = IF T = {} THEN 0 ELSE Max(T)
    BY <1>1, <2>2
  <2> HIDE DEF rank, Rank
  <2>4. CASE T = {}
    <3>1. rank[T] = 0 /\ rank[S] \in 1..n
      BY <2>1, <2>3, <2>4
    <3>2. \A x, y : x = 0 /\ y \in 1..n => x < y
      OBVIOUS
    <3> QED BY <2>1, <2>2, <3>1, <3>2
  <2>5. CASE T # {}
    <3>1. Max(T) \in T
      <4> HIDE DEF T
      <4> QED BY <2>2, <2>5, MaxProps
    <3>2. Max(T) <= Max(S) /\ Max(T) # Max(S) /\ Max(T) \in 1..n
      BY <2>1, <3>1
    <3>3. rank[T] = Max(T)
      BY <2>3, <2>5
    <3>4. \A x, y : x <= y /\ x # y /\ x \in 1..n /\ y \in 1..n => x < y
      OBVIOUS
    <3>5. Max(T) < Max(S)
      BY <2>1, <3>2, <3>4, Zenon
    <3>6. rank[T] < rank[S]
      BY <1>1, <2>3, <3>3, <3>5, Zenon
    <3> QED BY <2>1, <2>2, <3>6
  <2> QED BY <2>4, <2>5
<1>2. rank \in [D -> Nat] /\ V # {}
  <2>1. ASSUME NEW S \in D PROVE Rank(S) \in Nat
    <3>1. CASE S = {}
      BY <3>1
    <3>2. CASE S # {}
      <4>1. Max(S) \in 1..n
        BY <1>1, <3>2
      <4>2. Max(S) \in Nat
        BY <4>1
      <4> QED BY <3>2, <4>2
    <3> QED BY <3>1, <3>2
  <2>2. 0 \in V
    OBVIOUS
  <2> QED BY <2>1, <2>2
<1>3. ASSUME NEW f \in [D -> V], NEW S \in D PROVE SumStep(w, v, f, S) \in V
  <2>1. CASE S = {}
    BY <2>1 DEF SumStep
  <2>2. CASE S # {}
    <3>1. f[S \ {Max(S)}] \in Int /\ v[Max(S)] \in Int
      BY <1>1, <2>2
    <3>2. w[f[S \ {Max(S)}]] \in Int
      BY <3>1
    <3>3. \A x, y \in Int : x + y \in Int
      OBVIOUS
    <3>4. w[f[S \ {Max(S)}]] + v[Max(S)] \in Int
      BY <3>1, <3>2, <3>3, Zenon
    <3> QED BY <2>2, <3>4 DEF SumStep
  <2> QED BY <2>1, <2>2
<1>4. F \in [[D -> V] -> [D -> V]]
  <2> HIDE DEF D, V
  <2> QED BY <1>3
<1>5. ASSUME NEW f \in [D -> V], NEW g \in [D -> V], NEW S \in D,
             \A T \in D : rank[T] < rank[S] => f[T] = g[T]
      PROVE  F[f][S] = F[g][S]
  <2>1. S # {} => f[S \ {Max(S)}] = g[S \ {Max(S)}]
    BY <1>1, <1>5
  <2>2. SumStep(w, v, f, S) = SumStep(w, v, g, S)
    BY <2>1 DEF SumStep
  <2> QED BY <2>2
<1>6. Recurses(D, V, rank, F)
  <2> HIDE DEF D, V, rank, F
  <2> QED BY <1>2, <1>4, <1>5 DEF Recurses
<1>7. PICK f \in [D -> V] : f = F[f]
  <2> HIDE DEF D, V, rank, F
  <2> QED BY <1>6, Recursion
<1>8. \A S \in D : f[S] = SumStep(w, v, f, S)
  <2>1. f = [S \in D |-> SumStep(w, v, f, S)]
    BY <1>7
  <2> QED BY <2>1
<1> QED BY <1>8

\* The first places, and the last of them.
LEMMA FirstPlaces ==
  ASSUME NEW n \in Nat, NEW k \in 1..n
  PROVE  /\ 1..k \in SUBSET (1..n) /\ 1..k # {} /\ Max(1..k) = k
         /\ (1..k) \ {k} = 1..k - 1
<1> DEFINE S == 1..k
<1>0. k \in Int /\ 1 <= k /\ k <= n
  OBVIOUS
<1>1. S \in SUBSET (1..n) /\ k \in S
  BY <1>0
<1>2. Max(S) \in S /\ \A y \in S : y <= Max(S)
  <2>1. S # {}
    BY <1>1
  <2> HIDE DEF S
  <2> QED BY <1>1, <2>1, MaxProps
<1>3. Max(S) = k
  <2>1. Max(S) <= k /\ k <= Max(S) /\ Max(S) \in Int
    BY <1>1, <1>2
  <2> QED BY <1>0, <2>1
<1>4. S \ {k} = 1..k - 1
  BY <1>0
<1> QED BY <1>1, <1>3, <1>4

\* What is an integer at every step is one.
StaysInt(n, g) == g[0] \in Int /\ \A k \in 1..n : g[k - 1] \in Int => g[k] \in Int

LEMMA ChainInt ==
  ASSUME NEW n \in Nat, NEW g, StaysInt(n, g)
  PROVE  \A k \in 0..n : g[k] \in Int
<1> DEFINE Good == {k \in Nat : k <= n => g[k] \in Int}
<1>0. g[0] \in Int /\ \A k \in 1..n : g[k - 1] \in Int => g[k] \in Int
  BY DEF StaysInt
<1>1. 0 \in Good
  BY <1>0
<1>2. ASSUME NEW k \in Good PROVE k + 1 \in Good
  <2>0. k \in Nat
    OBVIOUS
  <2> SUFFICES ASSUME k + 1 <= n PROVE g[k + 1] \in Int
    BY <2>0
  <2>1. k + 1 \in 1..n /\ (k + 1) - 1 = k /\ k <= n
    BY <2>0
  <2>2. g[k] \in Int
    BY <2>1
  <2> QED BY <1>0, <2>1, <2>2
<1>3. Good \in SUBSET Nat
  OBVIOUS
<1>4. Good = Nat
  <2> HIDE DEF Good
  <2> QED BY <1>1, <1>2, <1>3, NatInd
<1> QED BY <1>4

\* A sum, entry by entry.
Adds(n, v, g) ==
  /\ g \in [0..n -> Int] /\ g[0] = 0
  /\ \A k \in 1..n : g[k] = g[k - 1] + v[k]

\* What FoldLeft adds up, by definition.
PlusStep(v, f, S) == IF S = {} THEN 0 ELSE f[S \ {Max(S)}] + v[Max(S)]
IsPlus(v, f) == f = [S \in SUBSET DOMAIN v |-> PlusStep(v, f, S)]

Total(v) == FoldLeft(+, 0, v)

LEMMA FoldAdds ==
  ASSUME NEW n \in Nat, NEW v \in [1..n -> Int]
  PROVE  \E g : Adds(n, v, g) /\ Total(v) = g[n]
<1> DEFINE w == [x \in Int |-> x]
           D == SUBSET (1..n)
           made == CHOOSE f : IsPlus(v, f)
           g == [k \in 0..n |-> made[1..k]]
<1>0. DOMAIN v = 1..n /\ w \in [Int -> Int]
  OBVIOUS
<1>1. PICK f \in [D -> Int] : \A S \in D : f[S] = SumStep(w, v, f, S)
  BY <1>0, SumSolved
<1>2. IsPlus(v, f)
  <2>1. ASSUME NEW S \in D PROVE f[S] = PlusStep(v, f, S)
    <3>1. f[S] = SumStep(w, v, f, S)
      BY <1>1
    <3>2. S # {} => w[f[S \ {Max(S)}]] = f[S \ {Max(S)}]
      <4>1. S \ {Max(S)} \in D
        OBVIOUS
      <4>2. f[S \ {Max(S)}] \in Int
        BY <4>1
      <4> QED BY <4>2
    <3> QED BY <3>1, <3>2 DEF SumStep, PlusStep
  <2>2. f = [S \in D |-> PlusStep(v, f, S)]
    BY <2>1
  <2> QED BY <1>0, <2>2 DEF IsPlus
<1>3. IsPlus(v, made)
  BY <1>2, Zenon
<1>4. Total(v) = made[1..n]
  BY <1>0 DEF Total, FoldLeft, MapThenFoldSet, IsPlus, PlusStep
<1> HIDE DEF made
<1>5. \A S \in D : made[S] = PlusStep(v, made, S)
  BY <1>0, <1>3 DEF IsPlus
<1>6. g[0] = 0 /\ \A k \in 1..n : g[k] = g[k - 1] + v[k]
  <2>1. ASSUME NEW S \in D PROVE S # {} => made[S] = made[S \ {Max(S)}] + v[Max(S)]
    BY <1>5 DEF PlusStep
  <2>2. made[1..0] = 0
    <3>1. 1..0 = {} /\ 1..0 \in D
      OBVIOUS
    <3> QED BY <1>5, <3>1 DEF PlusStep
  <2>3. ASSUME NEW k \in 1..n PROVE made[1..k] = made[1..k - 1] + v[k]
    <3>1. 1..k \in D /\ 1..k # {} /\ Max(1..k) = k /\ (1..k) \ {k} = 1..k - 1
      BY FirstPlaces
    <3>2. made[1..k] = made[(1..k) \ {Max(1..k)}] + v[Max(1..k)]
      BY <2>1, <3>1
    <3> QED BY <3>1, <3>2
  <2>4. 0 \in 0..n /\ \A k \in 1..n : k \in 0..n /\ k - 1 \in 0..n
    OBVIOUS
  <2> QED BY <2>2, <2>3, <2>4
<1>7. n \in 0..n /\ g \in [0..n -> {g[k] : k \in 0..n}]
  OBVIOUS
<1>8. g[n] = made[1..n]
  BY <1>7
<1> HIDE DEF g
<1>9. \A k \in 0..n : g[k] \in Int
  <2>1. \A k \in 1..n : g[k - 1] \in Int => g[k] \in Int
    <3>1. \A k \in 1..n : v[k] \in Int
      OBVIOUS
    <3> QED BY <1>6, <3>1
  <2>2. StaysInt(n, g)
    BY <1>6, <2>1 DEF StaysInt
  <2> QED BY <2>2, ChainInt
<1>10. Adds(n, v, g)
  BY <1>6, <1>7, <1>9 DEF Adds
<1> QED BY <1>4, <1>8, <1>10

\* A number of digits is one.
NumberStep(s, f, S) == IF S = {} THEN 0 ELSE 10 * f[S \ {Max(S)}] + DigitValue[s[Max(S)]]
IsNumbering(s, f) == f = [S \in SUBSET DOMAIN s |-> NumberStep(s, f, S)]

LEMMA NumberInt == ASSUME NEW s \in Seq(Digit) PROVE Number(s) \in Int
<1> DEFINE n == Len(s)
           w == [x \in Int |-> 10 * x]
           v == [i \in 1..n |-> DigitValue[s[i]]]
           D == SUBSET (1..n)
           made == CHOOSE f : IsNumbering(s, f)
           g == [k \in 0..n |-> made[1..k]]
<1>0. n \in Nat /\ DOMAIN s = 1..n /\ \A i \in 1..n : s[i] \in Digit /\ DigitValue[s[i]] \in Int
  <2>1. n \in Nat /\ DOMAIN s = 1..n /\ \A i \in 1..n : s[i] \in Digit
    BY LenProperties, ElementOfSeq
  <2>2. \A d \in Digit : DigitValue[d] \in Int
    BY DEF Digit, DigitValue
  <2> QED BY <2>1, <2>2
<1> HIDE DEF n
<1>1. w \in [Int -> Int] /\ v \in [1..n -> Int]
  BY <1>0
<1>2. PICK f \in [D -> Int] : \A S \in D : f[S] = SumStep(w, v, f, S)
  <2> HIDE DEF w, v
  <2> QED BY <1>0, <1>1, SumSolved
<1>3. IsNumbering(s, f)
  <2>1. ASSUME NEW S \in D PROVE f[S] = NumberStep(s, f, S)
    <3>1. f[S] = SumStep(w, v, f, S)
      BY <1>2
    <3>2. CASE S = {}
      BY <3>1, <3>2 DEF SumStep, NumberStep
    <3>3. CASE S # {}
      <4>1. Max(S) \in S
        BY <1>0, <3>3, MaxProps
      <4>2. S \ {Max(S)} \in D /\ Max(S) \in 1..n
        BY <4>1
      <4>3. f[S \ {Max(S)}] \in Int
        BY <4>2
      <4>4. w[f[S \ {Max(S)}]] = 10 * f[S \ {Max(S)}] /\ v[Max(S)] = DigitValue[s[Max(S)]]
        BY <4>2, <4>3
      <4> HIDE DEF w, v
      <4> QED BY <3>1, <3>3, <4>4 DEF SumStep, NumberStep
    <3> QED BY <3>2, <3>3
  <2>2. f = [S \in D |-> NumberStep(s, f, S)]
    BY <2>1
  <2> QED BY <1>0, <2>2 DEF IsNumbering
<1>4. IsNumbering(s, made)
  BY <1>3, Zenon
<1>5. Number(s) = made[DOMAIN s]
  BY DEF Number, FoldLeft, MapThenFoldSet, IsNumbering, NumberStep
<1> HIDE DEF made
<1>6. \A S \in D : made[S] = NumberStep(s, made, S)
  BY <1>0, <1>4 DEF IsNumbering
<1>7. n \in 0..n /\ 0 \in 0..n /\ \A k \in 1..n : k \in 0..n /\ k - 1 \in 0..n
  BY <1>0
<1>8. g[0] = 0
  <2>1. 1..0 = {} /\ 1..0 \in D
    OBVIOUS
  <2>2. made[1..0] = 0
    BY <1>6, <2>1 DEF NumberStep
  <2> QED BY <1>7, <2>2
<1>9. ASSUME NEW k \in 1..n, g[k - 1] \in Int PROVE g[k] \in Int
  <2>1. 1..k \in D /\ 1..k # {} /\ Max(1..k) = k /\ (1..k) \ {k} = 1..k - 1
    BY <1>0, FirstPlaces
  <2>2. made[1..k] = 10 * made[1..k - 1] + DigitValue[s[k]]
    <3>1. made[1..k] = NumberStep(s, made, 1..k)
      BY <1>6, <2>1
    <3> QED BY <2>1, <3>1 DEF NumberStep
  <2>3. g[k] = made[1..k] /\ g[k - 1] = made[1..k - 1] /\ DigitValue[s[k]] \in Int
    BY <1>0, <1>7
  <2> QED BY <1>9, <2>2, <2>3
<1>10. g[n] = made[DOMAIN s]
  BY <1>0, <1>7
<1> HIDE DEF g
<1>11. \A k \in 0..n : g[k] \in Int
  <2>1. StaysInt(n, g)
    BY <1>8, <1>9 DEF StaysInt
  <2> QED BY <1>0, <2>1, ChainInt
<1> QED BY <1>5, <1>7, <1>10, <1>11

\* What is read as a number: digits, perhaps behind a sign.
SignedDigits(m) ==
  /\ m # <<>> /\ (\E U : m \in Seq(U))
  /\ \A i \in 2..Len(m) : m[i] \in Digit
  /\ m[1] \in Sign \cup Digit

LEMMA ReadDigits ==
  ASSUME NEW U, NEW text \in Seq(U)
  PROVE  Numeral(text) = <<>> \/ SignedDigits(Numeral(text))
<1> DEFINE blanks == Span(text, {Space})
           rest == From(text, blanks + 1)
           sign == SignOf(rest, Sign)
           tail == From(rest, sign + 1)
           digits == Span(tail, Digit)
           k == IntegerSpan(rest, Sign)
           m == SubSeq(rest, 1, k)
<1>1. rest \in Seq(U)
  <2>1. blanks \in 0..Len(text)
    BY SpanProps
  <2> HIDE DEF blanks
  <2>2. blanks + 1 \in 1..Len(text) + 1
    BY <2>1, LenProperties
  <2> QED BY <2>2, FromProps
<1>2. Numeral(text) = IF rest = <<>> THEN <<>> ELSE m
  BY Zenon DEF Numeral
<1> HIDE DEF rest
<1>3. CASE rest = <<>>
  BY <1>2, <1>3
<1>4. CASE rest # <<>>
  <2>1. /\ sign \in 0..1 /\ Len(rest) \in Nat /\ Len(rest) >= 1
        /\ tail \in Seq(U) /\ Len(tail) = Len(rest) - sign
    BY <1>1, <1>4, SignProps
  <2>2. sign = IF Head(rest) \in Sign THEN 1 ELSE 0
    BY DEF SignOf
  <2>3. k = Signed(sign, InRange(digits))
    BY DEF IntegerSpan
  <2> HIDE DEF sign
  <2>4. \A i \in 1..Len(rest) - sign : tail[i] = rest[sign + i]
    <3>1. sign + 1 \in 1..Len(rest) + 1
      BY <2>1
    <3>2. \A i \in 1..Len(rest) - (sign + 1) + 1 : tail[i] = rest[(sign + 1) + i - 1]
      <4> DEFINE j == sign + 1
      <4> HIDE DEF j
      <4>1. j \in 1..Len(rest) + 1
        BY <3>1 DEF j
      <4>2. \A i \in 1..Len(rest) - j + 1 : From(rest, j)[i] = rest[j + i - 1]
        BY <1>1, <4>1, FromProps
      <4> QED BY <4>2 DEF j
    <3>3. Len(rest) - (sign + 1) + 1 = Len(rest) - sign
      BY <2>1
    <3> SUFFICES ASSUME NEW i \in 1..Len(rest) - sign PROVE tail[i] = rest[sign + i]
      OBVIOUS
    <3>4. (sign + 1) + i - 1 = sign + i
      BY <2>1
    <3>5. tail[i] = rest[(sign + 1) + i - 1]
      BY <3>2, <3>3, Zenon
    <3> QED BY <3>4, <3>5, Zenon
  <2> HIDE DEF tail
  <2>5. digits \in 0..Len(tail) /\ \A i \in 1..digits : tail[i] \in Digit
    BY <2>1, SpanProps
  <2> HIDE DEF digits, k
  <2>6. k = 0 \/ (digits \in 1..Len(rest) - sign /\ k = sign + digits)
    BY <2>1, <2>3, <2>5 DEF Signed, InRange
  <2>7. CASE k = 0
    <3>1. SubSeq(rest, 1, 0) = <<>>
      BY <1>1
    <3> QED BY <1>2, <1>4, <2>7, <3>1
  <2>8. CASE digits \in 1..Len(rest) - sign /\ k = sign + digits
    <3>1. k \in 1..Len(rest) /\ sign \in Int /\ digits \in Int
      BY <2>1, <2>8
    <3>2. m \in Seq(U) /\ Len(m) = k /\ \A i \in 1..k : m[i] = rest[i]
      <4>1. \A i \in 1..k : rest[i] \in U
        BY <1>1, <2>1, <3>1, ElementOfSeq
      <4>2. /\ m \in Seq(U) /\ Len(m) = (IF 1 <= k THEN k - 1 + 1 ELSE 0)
            /\ \A i \in 1..(k - 1 + 1) : m[i] = rest[1 + i - 1]
        BY <3>1, <4>1, SubSeqProperties
      <4>3. k - 1 + 1 = k /\ 1 <= k /\ \A i \in 1..k : 1 + i - 1 = i
        BY <3>1
      <4> QED BY <4>2, <4>3
    <3> HIDE DEF m
    <3>3. \A i \in sign + 1..k : m[i] \in Digit
      <4> SUFFICES ASSUME NEW i \in sign + 1..k PROVE m[i] \in Digit
        OBVIOUS
      <4>1. i \in 1..k /\ i - sign \in 1..digits /\ i - sign \in 1..Len(rest) - sign /\ sign + (i - sign) = i
        BY <2>1, <2>8, <3>1
      <4>2. m[i] = tail[i - sign]
        BY <2>4, <3>2, <4>1
      <4> QED BY <2>5, <4>1, <4>2
    <3>4. m # <<>>
      BY <3>1, <3>2, EmptySeq
    <3>5. m[1] = Head(rest)
      <4>1. 1 \in 1..k /\ Head(rest) = rest[1]
        BY <1>1, <1>4, <3>1
      <4> QED BY <3>2, <4>1
    <3>6. m[1] \in Sign \cup Digit /\ \A i \in 2..k : m[i] \in Digit
      <4>1. CASE sign = 1
        <5>1. Head(rest) \in Sign
          BY <2>2, <4>1
        <5> QED BY <3>3, <3>5, <4>1, <5>1
      <4>2. CASE sign = 0
        <5>1. \A i \in 1..k : m[i] \in Digit
          BY <3>3, <4>2
        <5>2. 1 \in 1..k /\ \A i \in 2..k : i \in 1..k
          BY <3>1
        <5> QED BY <5>1, <5>2
      <4>3. sign = 0 \/ sign = 1
        BY <2>1
      <4> QED BY <4>1, <4>2, <4>3
    <3>7. SignedDigits(m)
      BY <3>2, <3>4, <3>6 DEF SignedDigits
    <3> QED BY <1>2, <1>4, <3>7
  <2> QED BY <2>6, <2>7, <2>8
<1> QED BY <1>3, <1>4

\* Such a thing has a value.
LEMMA ReadValue == ASSUME NEW m, SignedDigits(m) PROVE ValueOf(m) \in Int
<1>1. PICK U : m \in Seq(U)
  BY DEF SignedDigits
<1>2. /\ m # <<>> /\ m[1] \in Sign \cup Digit
      /\ \A i \in 2..Len(m) : m[i] \in Digit
  BY DEF SignedDigits
<1>3. Len(m) \in Nat /\ Len(m) >= 1 /\ Head(m) = m[1]
  <2>1. Len(m) \in Nat /\ Len(m) # 0
    BY <1>1, <1>2, LenProperties, EmptySeq
  <2> QED BY <1>1, <1>2, <2>1
<1>4. CASE m[1] \in Sign
  <2> DEFINE t == Tail(m)
  <2>1. t \in Seq(U) /\ Len(t) = Len(m) - 1 /\ \A i \in 1..Len(m) - 1 : t[i] = m[i + 1]
    BY <1>1, <1>2, <1>3
  <2>2. \A i \in 1..Len(m) - 1 : i + 1 \in 2..Len(m)
    BY <1>3
  <2> HIDE DEF t
  <2>3. \A i \in 1..Len(t) : t[i] \in Digit
    BY <1>2, <2>1, <2>2
  <2>4. t \in Seq(Digit)
    BY <2>1, <2>3, SeqDef
  <2>5. Number(t) \in Int
    BY <2>4, NumberInt
  <2>6. ValueOf(m) = IF m[1] = "-" THEN -Number(t) ELSE Number(t)
    BY <1>3, <1>4 DEF ValueOf, Sign, t
  <2> QED BY <2>5, <2>6
<1>5. CASE m[1] \in Digit
  <2>1. \A i \in 1..Len(m) : m[i] \in Digit
    <3>1. \A i \in 1..Len(m) : i = 1 \/ i \in 2..Len(m)
      BY <1>3
    <3> QED BY <1>2, <1>5, <3>1
  <2>2. m \in Seq(Digit)
    BY <1>1, <2>1, SeqDef
  <2>3. Number(m) \in Int
    BY <2>2, NumberInt
  <2>4. m[1] # "-" /\ m[1] # "+"
    BY <1>5 DEF Digit
  <2>5. ValueOf(m) = Number(m)
    BY <1>3, <2>4 DEF ValueOf
  <2> QED BY <2>3, <2>5
<1> QED BY <1>2, <1>4, <1>5

\* Whatever text it is, stoull makes an integer of it.
LEMMA StoullInt == ASSUME NEW U, NEW text \in Seq(U) PROVE stoull(text) \in Int
<1> DEFINE m == Numeral(text)
           x == IF m = <<>> THEN 0 ELSE ValueOf(m)
<1>1. m = <<>> \/ SignedDigits(m)
  BY ReadDigits
<1>2. x \in Int
  <2> HIDE DEF m
  <2> QED BY <1>1, ReadValue
<1>3. 10^MaxDigits \in Int
  BY MaxDigitsAssumption
<1>4. stoull(text) = IF x < 0 THEN x + 10^MaxDigits ELSE x
  BY DEF stoull
<1> DEFINE y == 10^MaxDigits
<1> HIDE DEF x, y
<1>5. y \in Int /\ stoull(text) = IF x < 0 THEN x + y ELSE x
  BY <1>3, <1>4 DEF y
<1> QED BY <1>2, <1>5

\* What is stored of a post lasted so long.
LEMMA LoggedInt == ASSUME NEW body, IsSeq(body), NEW project, NEW call
                   PROVE  TraceEntry(project, Logged(body), call).duration \in Int
<1> DEFINE U == ToSet(body) \cup {"0"}
<1>1. body \in Seq(U)
  <2>1. body \in Seq(ToSet(body)) /\ ToSet(body) \subseteq U
    BY DEF IsSeq
  <2> HIDE DEF U
  <2> QED BY <2>1, SeqOver
<1>2. <<"0">> \in Seq(U)
  OBVIOUS
<1> HIDE DEF U
<1>3. PostParam(body, "d", <<"0">>) \in Seq(U)
  BY <1>1, <1>2, ParamType
<1>4. stoull(PostParam(body, "d", <<"0">>)) \in Int
  BY <1>3, StoullInt
<1> QED BY <1>4 DEF TraceEntry, Logged

-----------------------------------------------------------------------------
(* The databases stay such lists. *)

\* Nothing changes.
LEMMA DataKept == ASSUME DataInv, UNCHANGED databases PROVE DataInv'
BY DEF DataInv, databases, accountVars, projectVars, traceVars

\* The accounts change, and are no fewer.
UsersOnly ==
  /\ IsSeq(users') /\ next_user_id' = Len(users') + 1
  /\ UNCHANGED <<projectVars, traceVars>>
LEMMA DataUsers == ASSUME DataInv, UsersOnly PROVE DataInv'
BY DEF DataInv, UsersOnly, projectVars, traceVars

LEMMA RegisterData == ASSUME DataInv, NEW a, Register(a) PROVE DataInv'
<1>1. CASE UNCHANGED databases
  BY <1>1, DataKept
<1>2. CASE ~UNCHANGED databases
  <2>1. /\ \E x : users' = Append(users, x)
        /\ next_user_id' = next_user_id + 1 /\ UNCHANGED <<projectVars, traceVars>>
    BY <1>2 DEF Register, Refuses, Reads
  <2>2. PICK x : users' = Append(users, x)
    BY <2>1
  <2>3. IsSeq(users) /\ next_user_id = Len(users) + 1
    BY DEF DataInv
  <2> DEFINE u == Append(users, x)
  <2>4. IsSeq(u) /\ Len(users) \in Nat
    BY <2>3, AppendKeeps
  <2>5. Len(u) = Len(users) + 1
    <3>1. users \in Seq(ToSet(users) \cup {x}) /\ x \in ToSet(users) \cup {x}
      <4>1. users \in Seq(ToSet(users)) /\ ToSet(users) \subseteq ToSet(users) \cup {x}
        BY <2>3 DEF IsSeq
      <4> QED BY <4>1, SeqOver
    <3> QED BY <3>1
  <2>6. users' = u
    BY <2>2
  <2> HIDE DEF u
  <2>7. UsersOnly
    BY <2>1, <2>3, <2>4, <2>5, <2>6 DEF UsersOnly
  <2> QED BY <2>7, DataUsers
<1> QED BY <1>1, <1>2

\* Accounts that are changed are as many.
ChangedOnly(c) ==
  /\ users' = [i \in DOMAIN users |-> c[i]]
  /\ UNCHANGED <<next_user_id, projectVars, traceVars>>
LEMMA ChangeData == ASSUME DataInv, NEW c, ChangedOnly(c) PROVE DataInv'
<1> DEFINE t == [i \in DOMAIN users |-> c[i]]
<1>1. DOMAIN users = 1..Len(users) /\ Len(users) \in Nat /\ next_user_id = Len(users) + 1
  <2>1. users \in Seq(ToSet(users)) /\ next_user_id = Len(users) + 1
    BY DEF DataInv, IsSeq
  <2> QED BY <2>1, LenProperties
<1>2. t \in Seq({c[i] : i \in 1..Len(users)}) /\ Len(t) = Len(users)
  BY <1>1
<1>3. IsSeq(t)
  BY <1>2, SeqOwn
<1>4. users' = t /\ UNCHANGED <<next_user_id, projectVars, traceVars>>
  BY DEF ChangedOnly
<1> HIDE DEF t
<1>5. UsersOnly
  BY <1>1, <1>2, <1>3, <1>4 DEF UsersOnly
<1> QED BY <1>5, DataUsers

LEMMA RolesData ==
  ASSUME DataInv, NEW a, NEW id, SetRole(a, id) \/ Deactivate(a, id)
  PROVE  DataInv'
<1>1. CASE UNCHANGED databases
  BY <1>1, DataKept
<1>2. CASE ~UNCHANGED databases
  <2>1. CASE SetRole(a, id)
    <3> DEFINE r == stoi(FieldOf(a.request.body, "r"))
    <3>1. ChangeUser(a, id, LAMBDA u : [u EXCEPT !.role = stoi(FieldOf(a.request.body, "r"))])
      BY <1>2, <2>1 DEF SetRole, Refuses, Reads
    <3> DEFINE c == [i \in DOMAIN users |-> IF users[i].id = id THEN [users[i] EXCEPT !.role = r] ELSE users[i]]
    <3>2. users' = c /\ UNCHANGED <<next_user_id, projectVars, traceVars>>
      BY <1>2, <3>1 DEF ChangeUser, Refuses, Reads
    <3>3. c = [i \in DOMAIN users |-> c[i]]
      OBVIOUS
    <3> HIDE DEF c
    <3>4. ChangedOnly(c)
      BY <3>2, <3>3 DEF ChangedOnly
    <3> QED BY <3>4, ChangeData
  <2>2. CASE Deactivate(a, id)
    <3>1. ChangeUser(a, id, LAMBDA u : [u EXCEPT !.active = FALSE])
      BY <1>2, <2>2 DEF Deactivate, Refuses, Reads
    <3> DEFINE c == [i \in DOMAIN users |-> IF users[i].id = id THEN [users[i] EXCEPT !.active = FALSE] ELSE users[i]]
    <3>2. users' = c /\ UNCHANGED <<next_user_id, projectVars, traceVars>>
      BY <1>2, <3>1 DEF ChangeUser, Refuses, Reads
    <3>3. c = [i \in DOMAIN users |-> c[i]]
      OBVIOUS
    <3> HIDE DEF c
    <3>4. ChangedOnly(c)
      BY <3>2, <3>3 DEF ChangedOnly
    <3> QED BY <3>4, ChangeData
  <2> QED BY <2>1, <2>2
<1> QED BY <1>1, <1>2

\* The projects change, and have numbers that were given.
ProjectsOnly ==
  /\ IsSeq(projects') /\ next_project_id' \in Nat \ {0}
  /\ \A i \in DOMAIN projects' : HasNumbers(projects'[i], next_project_id' - 1)
  /\ UNCHANGED <<accountVars, traceVars>>
LEMMA DataProjects == ASSUME DataInv, ProjectsOnly PROVE DataInv'
BY DEF DataInv, ProjectsOnly, accountVars, traceVars, HasNumbers

\* One of them is inserted.
MoreProject(p) ==
  /\ projects' \in Inserted(projects, p) /\ next_project_id' \in {next_project_id, next_project_id + 1}
  /\ HasNumbers(p, next_project_id' - 1) /\ UNCHANGED <<accountVars, traceVars>>
LEMMA MoreData == ASSUME DataInv, NEW p, MoreProject(p) PROVE DataInv'
<1> DEFINE s == projects'
           k == next_project_id'
<1>1. /\ IsSeq(projects) /\ next_project_id \in Nat \ {0}
      /\ \A i \in DOMAIN projects : HasNumbers(projects[i], next_project_id - 1)
  BY DEF DataInv
<1>2. PICK m : /\ IsSeq(s) /\ m \in DOMAIN s /\ s[m] = p
               /\ \A i \in DOMAIN s \ {m} : i \in DOMAIN projects /\ s[i] = projects[i]
  BY <1>1, InsertedKeeps DEF MoreProject
<1>3. /\ k \in {next_project_id, next_project_id + 1}
      /\ HasNumbers(p, k - 1) /\ UNCHANGED <<accountVars, traceVars>>
  BY DEF MoreProject
<1> HIDE DEF s
<1>4. k \in Nat \ {0} /\ \A x : x \in 1..next_project_id - 1 => x \in 1..k - 1
  <2>1. \A n \in Nat \ {0} : \A x \in 1..n - 1 : x \in 1..(n + 1) - 1
    OBVIOUS
  <2>2. k \in Nat \ {0}
    BY <1>1, <1>3
  <2> QED BY <1>1, <1>3, <2>1, <2>2
<1> HIDE DEF k
<1>5. \A q : HasNumbers(q, next_project_id - 1) => HasNumbers(q, k - 1)
  BY <1>4, Zenon DEF HasNumbers
<1>6. ASSUME NEW i \in DOMAIN s PROVE HasNumbers(s[i], k - 1)
  <2>1. CASE i # m
    BY <1>1, <1>2, <1>5, <2>1
  <2>2. CASE i = m
    BY <1>2, <1>3, <2>2
  <2> QED BY <2>1, <2>2
<1>7. ProjectsOnly
  BY <1>2, <1>3, <1>4, <1>6 DEF ProjectsOnly, k, s
<1> QED BY <1>7, DataProjects

LEMMA CreateData == ASSUME DataInv, NEW a, CreateProject(a) PROVE DataInv'
<1> DEFINE user == stoi(PostParam(a.request.body, "u", <<"0">>))
           name == Field(PostParam(a.request.body, "n", <<"My Project">>), FieldSize)
           p == [id |-> next_project_id, user_id |-> user, name |-> name, api_key |-> next_project_id,
                 fast |-> 100, normal |-> 500]
<1>1. CASE UNCHANGED databases
  BY <1>1, DataKept
<1>2. CASE ~UNCHANGED databases
  <2>1. /\ projects' = Append(projects, p) /\ next_project_id' = next_project_id + 1
        /\ UNCHANGED <<accountVars, traceVars>>
    BY <1>2, Zenon DEF CreateProject, Refuses, Reads
  <2> HIDE DEF user, name
  <2>2. next_project_id \in Nat \ {0}
    BY DEF DataInv
  <2>3. HasNumbers(p, (next_project_id + 1) - 1)
    <3>1. p.id = next_project_id /\ p.api_key = next_project_id /\ {"id", "api_key"} \subseteq DOMAIN p
      OBVIOUS
    <3>2. next_project_id \in 1..(next_project_id + 1) - 1
      BY <2>2
    <3> HIDE DEF p
    <3> QED BY <3>1, <3>2 DEF HasNumbers
  <2> HIDE DEF p
  <2>4. MoreProject(p)
    <3>1. projects' \in Inserted(projects, p)
      BY <2>1 DEF Inserted
    <3> QED BY <2>1, <2>3, <3>1 DEF MoreProject
  <2> QED BY <2>4, MoreData
<1> QED BY <1>1, <1>2

\* The settings of a project are inserted.
LEMMA SettingsData == ASSUME DataInv, NEW a, NEW id, Settings(a, id) PROVE DataInv'
<1>1. CASE UNCHANGED databases
  BY <1>1, DataKept
<1>2. CASE \E p : ProjectPut(p, id)
  <2>1. PICK p : ProjectPut(p, id)
    BY <1>2
  <2>2. MoreProject(p)
    BY <2>1 DEF ProjectPut, MoreProject
  <2> QED BY <2>2, MoreData
<1> QED BY <1>1, <1>2, SettingsPut

\* A project is deleted.
LEMMA DeleteData == ASSUME DataInv, NEW a, NEW id, DeleteProject(a, id) PROVE DataInv'
<1> DEFINE I == {i \in DOMAIN projects : projects[i].id # id}
           left == Selected(projects, I)
<1>1. CASE UNCHANGED databases
  BY <1>1, DataKept
<1>2. CASE ~UNCHANGED databases
  <2>1. projects' = left /\ UNCHANGED <<accountVars, next_project_id, traceVars>>
    BY <1>2 DEF DeleteProject, Refuses, Reads
  <2>2. /\ projects \in Seq(ToSet(projects)) /\ \A i \in DOMAIN projects : HasNumbers(projects[i], next_project_id - 1)
        /\ next_project_id \in Nat \ {0}
    BY DEF DataInv, IsSeq
  <2>3. left \in Seq(ToSet(projects)) /\ Picked(projects, I, left)
    BY <2>2, SelectedProps
  <2> HIDE DEF left
  <2>4. ASSUME NEW k \in DOMAIN left PROVE HasNumbers(left[k], next_project_id - 1)
    <3>1. k \in 1..Len(left)
      BY <2>3
    <3>2. PICK i \in I : left[k] = projects[i]
      BY <2>3, <3>1 DEF Picked
    <3> QED BY <2>2, <3>2
  <2>5. IsSeq(left)
    BY <2>3, SeqOwn
  <2>6. ProjectsOnly
    BY <2>1, <2>2, <2>4, <2>5 DEF ProjectsOnly
  <2> QED BY <2>6, DataProjects
<1> QED BY <1>1, <1>2

\* A trace is stored.
LEMMA LogData == ASSUME DataInv, NEW a, IsSeq(a.request.body), NEW call, Log(a, call) PROVE DataInv'
<1>1. CASE UNCHANGED databases
  BY <1>1, DataKept
<1>2. CASE ~UNCHANGED databases
  <2> DEFINE E(project) == TraceEntry(project, Logged(a.request.body), call)
  <2>1. LogEvent(a, call, Logged(a.request.body), ProjectOf(a.request.key))
    BY <1>2 DEF Log, Refuses, Reads
  <2>2. PICK project : traces' \in Inserted(traces, E(project)) /\ UNCHANGED <<accountVars, projectVars>>
    <3>1. \A logged, project : LogEvent(a, call, logged, project) =>
            /\ traces' \in Inserted(traces, TraceEntry(IF project = 0 THEN 1 ELSE project, logged, call))
            /\ UNCHANGED <<accountVars, projectVars>>
      BY <1>2 DEF LogEvent, Refuses, Reads
    <3> QED BY <2>1, <3>1
  <2> DEFINE t == E(project)
             s == traces'
  <2>3. t.duration \in Int
    BY LoggedInt
  <2>4. s \in Inserted(traces, t)
    BY <2>2
  <2> HIDE DEF t, E
  <2>5. IsSeq(traces) /\ \A i \in DOMAIN traces : traces[i].duration \in Int
    BY DEF DataInv
  <2>6. PICK m : /\ IsSeq(s) /\ s[m] = t
                 /\ \A i \in DOMAIN s \ {m} : i \in DOMAIN traces /\ s[i] = traces[i]
    BY <2>4, <2>5, InsertedKeeps
  <2>7. \A i \in DOMAIN s : s[i].duration \in Int
    BY <2>3, <2>5, <2>6
  <2> QED BY <2>2, <2>6, <2>7 DEF DataInv, accountVars, projectVars
<1> QED BY <1>1, <1>2

\* A request is answered.
LEMMA ServeData ==
  ASSUME DataInv, NEW a, IsSeq(a.request.body), Serve(a)
  PROVE  DataInv'
<1> DEFINE found == Routed(a.request)
<1>1. Handle(a, found)
  BY DEF Serve
<1> HIDE DEF found
<1>2. CASE UNCHANGED databases
  BY <1>2, DataKept
<1>3. CASE ~UNCHANGED databases
  <2>1. \/ Log(a, 0) \/ Register(a) \/ CreateProject(a) \/ Settings(a, IdOf(found))
        \/ DeleteProject(a, IdOf(found)) \/ SetRole(a, IdOf(found)) \/ Deactivate(a, IdOf(found))
    <3>1. ASSUME NEW path, Page(a) \/ Static(a, path) \/ Constant(a) PROVE FALSE
      BY <1>3, <3>1 DEF Page, Static, Constant, Refuses, Reads
    <3>2. ASSUME NEW id, ListProjects(a, id) \/ Logs(a, id) PROVE FALSE
      BY <1>3, <3>2 DEF ListProjects, Logs, Reads
    <3>3. ASSUME Login(a) \/ AdminUsers(a) PROVE FALSE
      BY <1>3, <3>3 DEF Login, AdminUsers, Refuses, Reads
    <3>4. ASSUME NEW id, Stats(a, id) PROVE FALSE
      <4>1. \E shown : Reads(a, 200, shown)
        BY <3>4, Zenon DEF Stats
      <4> QED BY <1>3, <4>1 DEF Reads
    <3>5. ASSUME Query(a) PROVE FALSE
      BY <1>3, <3>5 DEF Query, Crashes, Refuses, Reads
    <3>6. ASSUME NEW code, Refuses(a, code) PROVE FALSE
      BY <1>3, <3>6 DEF Refuses, Reads
    <3> QED BY <1>1, <3>1, <3>2, <3>3, <3>4, <3>5, <3>6, Zenon DEF Handle
  <2>2. CASE Log(a, 0)
    BY <2>2, LogData
  <2>3. CASE Register(a)
    BY <2>3, RegisterData
  <2>4. CASE CreateProject(a)
    BY <2>4, CreateData
  <2>5. CASE Settings(a, IdOf(found))
    BY <2>5, SettingsData
  <2>6. CASE DeleteProject(a, IdOf(found))
    BY <2>6, DeleteData
  <2>7. CASE SetRole(a, IdOf(found)) \/ Deactivate(a, IdOf(found))
    BY <2>7, RolesData
  <2> QED BY <2>1, <2>2, <2>3, <2>4, <2>5, <2>6, <2>7
<1> QED BY <1>2, <1>3

\* The steps that leave the databases alone.
LEMMA DataStays ==
  ASSUME Start \/ Answered \/ Done \/ UNCHANGED vars \/ Lose \/ (\E c : SdkLog(c)) \/ (\E k, v : SdkInit(k, v))
  PROVE  UNCHANGED databases
<1>1. CASE Start \/ Answered \/ Lose
  BY <1>1 DEF Start, Answered, Lose
<1>2. CASE Done \/ UNCHANGED vars
  BY <1>2 DEF Done, vars
<1>3. CASE (\E c : SdkLog(c)) \/ (\E k, v : SdkInit(k, v))
  BY <1>3 DEF SdkLog, SdkInit
<1> QED BY <1>1, <1>2, <1>3

\* So the databases stay lists with numbers that were given out.
LEMMA DataInvariant == Spec => []DataInv
<1>1. Init => DataInv
  <2> SUFFICES ASSUME Init PROVE DataInv
    OBVIOUS
  <2>1. PICK d \in Databases : /\ users = d.users /\ next_user_id = Len(d.users) + 1
                               /\ projects = d.projects /\ next_project_id = Len(d.projects) + 1
                               /\ traces = d.traces
    BY DEF Init
  <2>2. /\ IsSeq(users) /\ IsSeq(projects) /\ IsSeq(traces)
        /\ \A i \in DOMAIN projects : HasNumbers(projects[i], Len(projects))
        /\ \A i \in DOMAIN traces : traces[i].duration \in Int
    BY <2>1, DatabasesAssumption
  <2>3. Len(projects) \in Nat
    BY <2>2, LenProperties DEF IsSeq
  <2>4. next_project_id \in Nat \ {0} /\ next_project_id - 1 = Len(projects)
    BY <2>1, <2>3
  <2> QED BY <2>1, <2>2, <2>4 DEF DataInv
<1>2. TraceInv /\ DataInv /\ [Next]_vars => DataInv'
  <2> SUFFICES ASSUME TraceInv, DataInv, [Next]_vars PROVE DataInv'
    OBVIOUS
  <2>1. CASE Start \/ Answered \/ Done \/ UNCHANGED vars \/ Lose \/ (\E c : SdkLog(c)) \/ (\E k, v : SdkInit(k, v))
    BY <2>1, DataStays, DataKept
  <2>2. ASSUME NEW a \in Asks, Serve(a) PROVE DataInv'
    BY <2>2, AsksAssumption, ServeData
  <2>3. ASSUME NEW i \in senders, Deliver(i) PROVE DataInv'
    <3> DEFINE body == post_data(calls[i])
               a == [form |-> [page |-> None], request |-> Request("POST", <<"/", "log">>, sdk.key, body)]
    <3>1. ValidCall(calls[i])
      BY DEF TraceInv
    <3>2. IsSeq(body)
      BY <3>1, PostDataType, SeqOwn
    <3>3. Log(a, i)
      BY <2>3 DEF Deliver
    <3>4. a.request.body = body
      BY DEF Request
    <3> HIDE DEF a, body
    <3> QED BY <3>2, <3>3, <3>4, LogData
  <2> QED BY <2>1, <2>2, <2>3, Zenon DEF Next
<1> QED BY <1>1, <1>2, TracesInvariant, PTL DEF Spec

\* What a request of a page asks for is what happens, and nothing else does: through the encoding of
\* its fields, the route, the parsing of URL and body and the handler, whatever characters the fields
\* hold, whatever the databases hold, and in whatever order requests come.
THEOREM RequestsDoWhatWasAsked == Spec => DoesWhatWasAsked
<1> DEFINE Asked_ == last = Idle /\ last'.form.page # None => Meant(last'.form)
<1>1. RouterInv /\ DataInv /\ [Next]_vars => [Asked_]_vars
  <2> SUFFICES ASSUME RouterInv, DataInv, [Next]_vars, last = Idle, last'.form.page # None
               PROVE  Meant(last'.form)
    OBVIOUS
  <2>1. ASSUME UNCHANGED last PROVE FALSE
    BY <2>1 DEF Idle
  <2>2. CASE Start \/ Answered \/ Done \/ UNCHANGED vars \/ Lose \/ (\E c : SdkLog(c)) \/ (\E k, v : SdkInit(k, v))
    <3>1. UNCHANGED last \/ last' = Idle
      BY <2>2 DEF Start, Answered, Done, vars, Lose, SdkLog, SdkInit
    <3> QED BY <2>1, <3>1
  <2>3. ASSUME NEW i, Deliver(i) PROVE FALSE
    <3> DEFINE a == [form |-> [page |-> None], request |-> Request("POST", <<"/", "log">>, sdk.key, post_data(calls[i]))]
    <3>1. Log(a, i)
      BY <2>3 DEF Deliver
    <3>2. Answers(a)
      BY <3>1, TracesKeep
    <3>3. last'.form = [page |-> None]
      BY <3>2 DEF Answers, Answer
    <3> QED BY <3>3
  <2>4. ASSUME NEW a \in Asks, Serving, Serve(a) PROVE Meant(last'.form)
    <3>1. Answers(a)
      BY <2>4, HandlersKeep DEF Serve
    <3>2. last'.form = a.form
      BY <3>1 DEF Answers, Answer
    <3>3. AskOf(a, a.form)
      BY <3>2, AsksOfPages
    <3>4. Gets(a, a.form)
      BY <2>4, <3>3 DEF Gets
    <3>5. Meant(a.form)
      BY <3>4, AskedDone
    <3> QED BY <3>2, <3>5
  <2> QED BY <2>2, <2>3, <2>4, Zenon DEF Next
<1>2. DoesWhatWasAsked <=> [][Asked_]_vars
  BY DEF DoesWhatWasAsked
<1> HIDE DEF Asked_
<1> QED BY <1>1, <1>2, RouterInvariant, DataInvariant, PTL DEF Spec

-----------------------------------------------------------------------------
(* What is shown. *)

\* The answer to a query, of the databases as they are.
OrderedAs(f, shown) ==
  LET project == ProjectOf(f.key)
      all     == IF project = 0 THEN get_all_traces ELSE search_by_project(project)
      Before(t, u) == IF f.order = "desc" THEN Smaller(u, t, <<f.sort_by>>) ELSE Smaller(t, u, <<f.sort_by>>)
  IN ~Undefined(all, <<f.sort_by>>, f.order = "desc") =>
       /\ Len(shown) = IF f.limit < Len(all) THEN f.limit ELSE Len(all)
       /\ \A t \in ToSet(shown) :
            Cardinality({i \in DOMAIN shown : shown[i] = t}) <= Cardinality({i \in DOMAIN all : all[i] = t})
       /\ \A i, j \in DOMAIN shown : i < j => ~Before(shown[j], shown[i])
       /\ \A t \in ToSet(all) \ ToSet(shown) : \A i \in DOMAIN shown : ~Before(t, shown[i])

\* The answer to a listing.
ShowsNow(f, shown) ==
  CASE f.page = "projects" -> ToSet(shown) = {p \in ToSet(projects) : p.user_id = f.user}
    [] f.page = "users"    -> ToSet(shown) = {u \in ToSet(users) : u.active /\ has_permission(f.admin)}
    [] f.page = "logs"     -> ToSet(shown) = {t \in ToSet(traces) : t.project_id = f.project}
    [] f.page = "stats"    -> /\ shown.total = Len(search_by_project(f.project))
                              /\ shown.total > 0 => shown.avg \in shown.min..shown.max
    [] f.page = "query"    -> OrderedAs(f, shown)
    [] OTHER               -> TRUE

LEMMA ShowsIs == ShowsWhatIsThere <=> ShowsNow(last.form, last.shown)
BY DEF ShowsWhatIsThere, ShowsNow, FirstInOrder, OrderedAs

LEMMA ShowsOn ==
  ASSUME UNCHANGED databases, ShowsNow(last'.form, last'.shown)
  PROVE  ShowsWhatIsThere'
<1>1. users' = users /\ projects' = projects /\ traces' = traces
  BY DEF databases, accountVars, projectVars, traceVars
<1>2. ShowsNow(last.form, last.shown)' <=> ShowsNow(last'.form, last'.shown)
  BY <1>1 DEF ShowsNow, OrderedAs, ProjectOf, get_all_traces, search_by_project, has_permission
<1>3. ShowsWhatIsThere' <=> ShowsNow(last.form, last.shown)'
  BY ShowsIs, PTL
<1> QED BY <1>2, <1>3

\* What is selected of a list by a condition on its entries.
LEMMA SelectedOf ==
  ASSUME NEW s, IsSeq(s), NEW I, NEW X, I = {i \in DOMAIN s : s[i] \in X}
  PROVE  ToSet(Selected(s, I)) = ToSet(s) \cap X
<1>1. s \in Seq(ToSet(s)) /\ DOMAIN s = 1..Len(s)
  BY LenProperties DEF IsSeq
<1>2. I \in SUBSET (1..Len(s))
  BY <1>1
<1>3. ToSet(Selected(s, I)) = {s[i] : i \in I}
  BY <1>1, <1>2, SelectedSet
<1>4. {s[i] : i \in I} = ToSet(s) \cap X
  BY DEF ToSet
<1> QED BY <1>3, <1>4

\* A user's projects.
LEMMA ProjectsShown ==
  ASSUME DataInv, NEW a, NEW f, Gets(a, f), f.page = "projects"
  PROVE  UNCHANGED databases /\ ShowsNow(f, last'.shown)
<1> DEFINE I == {i \in DOMAIN projects : projects[i].user_id = f.user}
           X == {p \in ToSet(projects) : p.user_id = f.user}
<1>1. last'.shown = Selected(projects, I) /\ UNCHANGED databases
  <2>1. ListProjects(a, f.user)
    BY CalledNumbers
  <2> QED BY <2>1 DEF ListProjects, get_projects_by_user, Reads, Answer
<1>2. I = {i \in DOMAIN projects : projects[i] \in X}
  BY DEF ToSet
<1>3. IsSeq(projects)
  BY DEF DataInv
<1> HIDE DEF I
<1>4. ToSet(Selected(projects, I)) = ToSet(projects) \cap X
  <2> HIDE DEF X
  <2> QED BY <1>2, <1>3, SelectedOf
<1>5. ToSet(projects) \cap X = X
  OBVIOUS
<1>6. ToSet(last'.shown) = {p \in ToSet(projects) : p.user_id = f.user}
  BY <1>1, <1>4, <1>5
<1> QED BY <1>1, <1>6 DEF ShowsNow

\* A project's traces.
LEMMA LogsShown ==
  ASSUME DataInv, NEW a, NEW f, Gets(a, f), f.page = "logs"
  PROVE  UNCHANGED databases /\ ShowsNow(f, last'.shown)
<1> DEFINE I == {i \in DOMAIN traces : traces[i].project_id = f.project}
           X == {t \in ToSet(traces) : t.project_id = f.project}
<1>1. last'.shown = Selected(traces, I) /\ UNCHANGED databases
  <2>1. Logs(a, f.project)
    BY CalledNumbers
  <2> QED BY <2>1 DEF Logs, search_by_project, Reads, Answer
<1>2. I = {i \in DOMAIN traces : traces[i] \in X}
  BY DEF ToSet
<1>3. IsSeq(traces)
  BY DEF DataInv
<1> HIDE DEF I
<1>4. ToSet(Selected(traces, I)) = ToSet(traces) \cap X
  <2> HIDE DEF X
  <2> QED BY <1>2, <1>3, SelectedOf
<1>5. ToSet(traces) \cap X = X
  OBVIOUS
<1>6. ToSet(last'.shown) = {t \in ToSet(traces) : t.project_id = f.project}
  BY <1>1, <1>4, <1>5
<1> QED BY <1>1, <1>6 DEF ShowsNow

\* The accounts, to an administrator.
LEMMA UsersShown ==
  ASSUME DataInv, NEW a, NEW f, Gets(a, f), f.page = "users"
  PROVE  UNCHANGED databases /\ ShowsNow(f, last'.shown)
<1> DEFINE I == {i \in DOMAIN users : users[i].active}
           X == {u \in ToSet(users) : u.active}
<1>1. AdminUsers(a)
  BY CalledAdmins
<1>2. AdminId(a) # <<>> /\ Checked(a, AdminId(a)) = IF has_permission(f.admin) THEN 200 ELSE 403
  BY AdminAsks
<1>3. CASE has_permission(f.admin)
  <2>1. last'.shown = Selected(users, I) /\ UNCHANGED databases
    BY <1>1, <1>2, <1>3 DEF AdminUsers, get_all_users, Reads, Answer
  <2>2. I = {i \in DOMAIN users : users[i] \in X}
    BY DEF ToSet
  <2>3. IsSeq(users)
    BY DEF DataInv
  <2> HIDE DEF I
  <2>4. ToSet(Selected(users, I)) = ToSet(users) \cap X
    <3> HIDE DEF X
    <3> QED BY <2>2, <2>3, SelectedOf
  <2>5. ToSet(users) \cap X = {u \in ToSet(users) : u.active /\ has_permission(f.admin)}
    BY <1>3
  <2>6. ToSet(last'.shown) = {u \in ToSet(users) : u.active /\ has_permission(f.admin)}
    BY <2>1, <2>4, <2>5
  <2> QED BY <2>1, <2>6 DEF ShowsNow
<1>4. CASE ~has_permission(f.admin)
  <2>1. last'.shown = <<>> /\ UNCHANGED databases
    BY <1>1, <1>2, <1>4 DEF AdminUsers, Refuses, Reads, Answer
  <2>2. ToSet(last'.shown) = {}
    BY <2>1 DEF ToSet
  <2>3. {u \in ToSet(users) : u.active /\ has_permission(f.admin)} = {}
    BY <1>4
  <2> QED BY <2>1, <2>2, <2>3 DEF ShowsNow
<1> QED BY <1>3, <1>4

\* Products that are in order have factors that are.
LEMMA Cancels == ASSUME NEW n \in Nat, n > 0, NEW a \in Int, NEW b \in Int, n * a < n * b PROVE a < b
<1> SUFFICES ASSUME a >= b PROVE FALSE
  OBVIOUS
<1>1. n * (a - b) >= 0
  OBVIOUS
<1>2. n * (a - b) = n * a - n * b
  OBVIOUS
<1> QED BY <1>1, <1>2

\* What an integer division leaves.
LEMMA Quotient ==
  ASSUME NEW n \in Nat, n > 0, NEW g \in Int
  PROVE  g \div n \in Int /\ n * (g \div n) <= g /\ g < n * (g \div n) + n
OBVIOUS

\* One more of a number.
LEMMA OnceMore ==
  ASSUME NEW k \in Nat, NEW x \in Int
  PROVE  k * x \in Int /\ (k + 1) * x = k * x + x /\ k * (x + 1) = k * x + k
OBVIOUS

\* A sum is as much as its least entry so often, and no more than its greatest.
Within(n, v, lo, hi) == \A i \in 1..n : v[i] \in Int /\ lo <= v[i] /\ v[i] <= hi
LEMMA SumBounds ==
  ASSUME NEW n \in Nat, NEW v, NEW g, Adds(n, v, g), NEW lo \in Int, NEW hi \in Int, Within(n, v, lo, hi)
  PROVE  n * lo <= g[n] /\ g[n] <= n * hi /\ g[n] \in Int
<1>0. /\ g \in [0..n -> Int] /\ g[0] = 0
      /\ \A k \in 1..n : g[k] = g[k - 1] + v[k]
      /\ \A i \in 1..n : v[i] \in Int /\ lo <= v[i] /\ v[i] <= hi
  BY DEF Adds, Within
<1> DEFINE Good == {k \in Nat : k <= n => k * lo <= g[k] /\ g[k] <= k * hi}
<1>1. 0 \in Good
  <2>1. 0 * lo = 0 /\ 0 * hi = 0
    OBVIOUS
  <2> QED BY <1>0, <2>1
<1>2. ASSUME NEW k \in Good PROVE k + 1 \in Good
  <2>0. k \in Nat /\ k + 1 \in Nat
    OBVIOUS
  <2> SUFFICES ASSUME k + 1 <= n PROVE (k + 1) * lo <= g[k + 1] /\ g[k + 1] <= (k + 1) * hi
    BY <2>0
  <2>1. k + 1 \in 1..n /\ (k + 1) - 1 = k /\ k \in 0..n /\ k <= n
    BY <2>0
  <2>2. k * lo <= g[k] /\ g[k] <= k * hi /\ g[k] \in Int
    BY <1>0, <2>1
  <2>3. g[k + 1] = g[k] + v[k + 1] /\ v[k + 1] \in Int /\ lo <= v[k + 1] /\ v[k + 1] <= hi
    BY <1>0, <2>1, Zenon
  <2>4. /\ k * lo \in Int /\ (k + 1) * lo = k * lo + lo
        /\ k * hi \in Int /\ (k + 1) * hi = k * hi + hi
    BY <2>0, OnceMore
  <2> DEFINE a == k * lo
             b == k * hi
             c == g[k]
             d == v[k + 1]
  <2>5. a \in Int /\ b \in Int /\ c \in Int /\ d \in Int /\ a <= c /\ c <= b /\ lo <= d /\ d <= hi
    BY <2>2, <2>3, <2>4
  <2>6. (k + 1) * lo = a + lo /\ (k + 1) * hi = b + hi /\ g[k + 1] = c + d
    BY <2>3, <2>4
  <2> HIDE DEF a, b, c, d, Good
  <2>7. a + lo <= c + d /\ c + d <= b + hi
    BY <2>5
  <2> QED BY <2>6, <2>7, Zenon
<1>3. Good \in SUBSET Nat
  OBVIOUS
<1>4. Good = Nat
  <2> HIDE DEF Good
  <2> QED BY <1>1, <1>2, <1>3, NatInd
<1>5. n * lo <= g[n] /\ g[n] <= n * hi
  BY <1>4
<1>6. g[n] \in Int
  <2>1. n \in 0..n
    OBVIOUS
  <2> QED BY <1>0, <2>1
<1> QED BY <1>5, <1>6

\* So its average is between them.
LEMMA AverageWithin ==
  ASSUME NEW n \in Nat, n > 0, NEW v \in [1..n -> Int], NEW lo \in Int, NEW hi \in Int, Within(n, v, lo, hi)
  PROVE  Total(v) \div n \in lo..hi
<1>1. PICK g : Adds(n, v, g) /\ Total(v) = g[n]
  BY FoldAdds
<1>2. n * lo <= g[n] /\ g[n] <= n * hi /\ g[n] \in Int
  BY <1>1, SumBounds
<1> DEFINE s == g[n]
           q == s \div n
<1>3. q \in Int /\ n * q <= s /\ s < n * q + n
  <2>1. s \in Int
    BY <1>2
  <2> HIDE DEF s
  <2> QED BY <2>1, Quotient
<1>4. s \in Int /\ n * lo <= s /\ s <= n * hi
  BY <1>2
<1>5. Total(v) \div n = q
  BY <1>1
<1> HIDE DEF s, q
<1>6. /\ n * q \in Int /\ n * (q + 1) = n * q + n /\ n * lo \in Int
      /\ n * hi \in Int /\ n * (hi + 1) = n * hi + n
  BY <1>3, OnceMore
<1>7. n * lo < n * (q + 1)
  <2> DEFINE x == n * q
             y == n * lo
             z == n * (q + 1)
  <2>1. x \in Int /\ y \in Int /\ z = x + n /\ y <= s /\ s < x + n
    BY <1>3, <1>4, <1>6
  <2> HIDE DEF x, y, z
  <2> QED BY <1>4, <2>1 DEF y, z
<1>8. n * q < n * (hi + 1)
  <2> DEFINE x == n * q
             y == n * hi
             z == n * (hi + 1)
  <2>1. x \in Int /\ y \in Int /\ z = y + n /\ x <= s /\ s <= y
    BY <1>3, <1>4, <1>6
  <2> HIDE DEF x, y, z
  <2>2. x < z
    BY <1>4, <2>1
  <2> QED BY <2>2 DEF x, z
<1>9. lo < q + 1
  <2>1. q + 1 \in Int
    BY <1>3
  <2> QED BY <1>7, <2>1, Cancels
<1>10. q < hi + 1
  <2>1. hi + 1 \in Int
    OBVIOUS
  <2> QED BY <1>3, <1>8, <2>1, Cancels
<1>11. q \in lo..hi
  BY <1>3, <1>9, <1>10
<1> QED BY <1>5, <1>11

\* A list of integers has a least and a greatest one.
LEMMA Extremes ==
  ASSUME NEW n \in Nat, n > 0, NEW v \in [1..n -> Int]
  PROVE  \E lo \in Int, hi \in Int : Within(n, v, lo, hi) /\ lo = Min(Range(v)) /\ hi = Max(Range(v))
<1> DEFINE S == Range(v)
           Up(k) == {x \in Int : \E i \in 1..k : v[i] = x}
           Top(x, T) == \A y \in T : x >= y
           Low(x, T) == \A y \in T : x <= y
           Good == {k \in Nat : k + 1 <= n => /\ \E x \in Up(k + 1) : Top(x, Up(k + 1))
                                             /\ \E x \in Up(k + 1) : Low(x, Up(k + 1))}
<1>1. 0 \in Good
  <2>1. 1 \in 1..n /\ v[1] \in Int
    OBVIOUS
  <2>2. 0 + 1 = 1 /\ 1..1 = {1}
    OBVIOUS
  <2>3. Up(1) = {v[1]}
    BY <2>1, <2>2
  <2>4. v[1] \in Up(1) /\ Top(v[1], Up(1)) /\ Low(v[1], Up(1))
    BY <2>1, <2>3
  <2> QED BY <2>2, <2>4
<1>2. ASSUME NEW k \in Good PROVE k + 1 \in Good
  <2>0. k \in Nat /\ k + 1 \in Nat
    OBVIOUS
  <2> DEFINE U == Up(k + 1)
             W == Up((k + 1) + 1)
             z == v[(k + 1) + 1]
  <2> SUFFICES ASSUME (k + 1) + 1 <= n PROVE (\E x \in W : Top(x, W)) /\ (\E x \in W : Low(x, W))
    BY <2>0
  <2>1. k + 1 <= n /\ (k + 1) + 1 \in 1..n
    BY <2>0
  <2>2. (\E x \in U : Top(x, U)) /\ (\E x \in U : Low(x, U))
    BY <2>1
  <2>3. z \in Int
    BY <2>1
  <2>4. W = U \cup {z}
    <3>1. \A i : i \in 1..(k + 1) + 1 <=> i \in 1..k + 1 \/ i = (k + 1) + 1
      BY <2>0
    <3> HIDE DEF Good
    <3> QED BY <2>3, <3>1
  <2>5. \A x \in U : x \in Int
    OBVIOUS
  <2> HIDE DEF U, W, z, Good
  <2>6. \E x \in W : Top(x, W)
    <3>1. PICK x \in U : Top(x, U)
      BY <2>2
    <3>2. CASE x >= z
      BY <2>4, <3>1, <3>2
    <3>3. CASE ~(x >= z)
      <4>1. Top(z, W)
        BY <2>3, <2>4, <2>5, <3>1, <3>3
      <4> QED BY <2>4, <4>1
    <3> QED BY <3>2, <3>3
  <2>7. \E x \in W : Low(x, W)
    <3>1. PICK x \in U : Low(x, U)
      BY <2>2
    <3>2. CASE x <= z
      BY <2>4, <3>1, <3>2
    <3>3. CASE ~(x <= z)
      <4>1. Low(z, W)
        BY <2>3, <2>4, <2>5, <3>1, <3>3
      <4> QED BY <2>4, <4>1
    <3> QED BY <3>2, <3>3
  <2> QED BY <2>6, <2>7
<1>3. Good \in SUBSET Nat
  OBVIOUS
<1>4. Good = Nat
  <2> HIDE DEF Good
  <2> QED BY <1>1, <1>2, <1>3, NatInd
<1>5. n - 1 \in Nat /\ (n - 1) + 1 = n
  OBVIOUS
<1>6. S = Up(n)
  <2>1. S = {v[i] : i \in 1..n}
    BY DEF Range
  <2> QED BY <2>1
<1>7. (\E x \in S : Top(x, S)) /\ (\E x \in S : Low(x, S))
  <2>1. n - 1 \in Good
    BY <1>4, <1>5
  <2>2. (\E x \in Up(n) : Top(x, Up(n))) /\ (\E x \in Up(n) : Low(x, Up(n)))
    BY <1>5, <2>1
  <2> HIDE DEF S, Good, Up, Top, Low
  <2> QED BY <1>6, <2>2
<1>8. Max(S) \in S /\ Top(Max(S), S) /\ Min(S) \in S /\ Low(Min(S), S)
  <2>1. Max(S) = (CHOOSE x \in S : Top(x, S)) /\ Min(S) = CHOOSE x \in S : Low(x, S)
    BY DEF Max, Min
  <2> HIDE DEF S, Top, Low
  <2>2. Max(S) \in S /\ Top(Max(S), S)
    BY <1>7, <2>1, Zenon
  <2>3. Min(S) \in S /\ Low(Min(S), S)
    BY <1>7, <2>1, Zenon
  <2> QED BY <2>2, <2>3
<1> DEFINE lo == Min(S)
           hi == Max(S)
<1>9. lo \in Int /\ hi \in Int
  <2>1. \A x \in S : x \in Int
    BY <1>6
  <2> HIDE DEF S
  <2> QED BY <1>8, <2>1
<1>10. Within(n, v, lo, hi)
  <2> SUFFICES ASSUME NEW i \in 1..n PROVE v[i] \in Int /\ lo <= v[i] /\ v[i] <= hi
    BY DEF Within
  <2>1. v[i] \in Int /\ v[i] \in S
    BY DEF Range
  <2>2. lo <= v[i] /\ hi >= v[i]
    <3> HIDE DEF S, lo, hi
    <3> QED BY <1>8, <2>1 DEF lo, hi
  <2> HIDE DEF S, lo, hi
  <2> QED BY <1>9, <2>1, <2>2
<1> QED BY <1>9, <1>10

\* The statistics of these traces.
StatsOf(active) ==
  IF active = <<>> THEN [total |-> 0]
  ELSE [total |-> Len(active), avg |-> Total([i \in DOMAIN active |-> active[i].duration]) \div Len(active),
        min |-> Min(Range([i \in DOMAIN active |-> active[i].duration])),
        max |-> Max(Range([i \in DOMAIN active |-> active[i].duration])),
        avg_ram |-> Total([i \in DOMAIN active |-> active[i].ram]) \div Len(active)]

LEMMA StatsReads ==
  ASSUME NEW a, NEW project_id, Stats(a, project_id)
  PROVE  Reads(a, 200, StatsOf(search_by_project(project_id)))
BY Zenon DEF Stats, StatsOf, Total

\* A project's statistics.
LEMMA StatsShown ==
  ASSUME DataInv, NEW a, NEW f, Gets(a, f), f.page = "stats"
  PROVE  UNCHANGED databases /\ ShowsNow(f, last'.shown)
<1> DEFINE active == search_by_project(f.project)
           v == [i \in DOMAIN active |-> active[i].duration]
           n == Len(active)
<1>1. last'.shown = StatsOf(active) /\ UNCHANGED databases
  <2>1. Stats(a, f.project)
    BY CalledNumbers
  <2>2. Reads(a, 200, StatsOf(active))
    BY <2>1, StatsReads
  <2> HIDE DEF active
  <2> QED BY <2>2 DEF Reads, Answer
<1>2. IsSeq(active) /\ \A i \in DOMAIN active : active[i].duration \in Int
  <2>0. IsSeq(traces) /\ \A i \in DOMAIN traces : traces[i].duration \in Int
    BY DEF DataInv
  <2> DEFINE I == {i \in DOMAIN traces : traces[i].project_id = f.project}
  <2>1. traces \in Seq(ToSet(traces)) /\ active = Selected(traces, I)
    BY <2>0 DEF IsSeq, search_by_project
  <2> HIDE DEF I, active
  <2>2. active \in Seq(ToSet(traces))
    BY <2>1, SelectedProps
  <2>3. \A x \in ToSet(traces) : x.duration \in Int
    BY <2>0 DEF ToSet
  <2>4. \A i \in DOMAIN active : active[i] \in ToSet(traces)
    BY <2>2
  <2>5. IsSeq(active)
    BY <2>2, SeqOwn
  <2> QED BY <2>3, <2>4, <2>5
<1>3. n \in Nat /\ DOMAIN active = 1..n
  BY <1>2, LenProperties DEF IsSeq
<1>4. active = <<>> <=> n = 0
  <2>1. active \in Seq(ToSet(active))
    BY <1>2 DEF IsSeq
  <2> HIDE DEF active
  <2> QED BY <2>1
<1>5. v \in [1..n -> Int]
  BY <1>2, <1>3
<1>6. CASE n = 0
  <2>1. last'.shown.total = n /\ ~(n > 0)
    BY <1>1, <1>4, <1>6 DEF StatsOf
  <2> QED BY <1>1, <2>1 DEF ShowsNow
<1>7. CASE n # 0
  <2>1. /\ last'.shown.total = n /\ last'.shown.avg = Total(v) \div n
        /\ last'.shown.min = Min(Range(v)) /\ last'.shown.max = Max(Range(v))
    <3>1. active # <<>>
      BY <1>4, <1>7
    <3> HIDE DEF active
    <3> QED BY <1>1, <3>1 DEF StatsOf
  <2>2. n > 0
    BY <1>3, <1>7
  <2> HIDE DEF active, v, n
  <2>3. PICK lo \in Int, hi \in Int : Within(n, v, lo, hi) /\ lo = Min(Range(v)) /\ hi = Max(Range(v))
    BY <1>3, <1>5, <2>2, Extremes
  <2>4. Total(v) \div n \in lo..hi
    BY <1>3, <1>5, <2>2, <2>3, AverageWithin
  <2>5. last'.shown.avg \in last'.shown.min..last'.shown.max
    BY <2>1, <2>3, <2>4
  <2>6. last'.shown.total = Len(search_by_project(f.project))
    BY <2>1 DEF n, active
  <2> QED BY <1>1, <2>5, <2>6 DEF ShowsNow
<1> QED BY <1>6, <1>7

\* A list of m entries that are the first of an order of all.
FirstOf(m, shown, p, all) ==
  /\ m \in Nat /\ Len(all) \in Nat /\ m <= Len(all)
  /\ Len(shown) = m /\ DOMAIN shown = 1..m /\ DOMAIN all = 1..Len(all)
  /\ p \in [1..Len(all) -> 1..Len(all)] /\ IsInjective(p)
  /\ \A i \in 1..m : shown[i] = all[p[i]]

\* It shows an entry no more often than it is there.
AsOften(shown, all, t) ==
  Cardinality({i \in DOMAIN shown : shown[i] = t}) <= Cardinality({i \in DOMAIN all : all[i] = t})

LEMMA NoMoreOften ==
  ASSUME NEW m, NEW shown, NEW p, NEW all, FirstOf(m, shown, p, all), NEW t
  PROVE  AsOften(shown, all, t)
<1> DEFINE n == Len(all)
           S == {i \in DOMAIN shown : shown[i] = t}
           T == {i \in DOMAIN all : all[i] = t}
           g == [i \in S |-> p[i]]
<1>0. /\ m \in Nat /\ n \in Nat /\ m <= n /\ DOMAIN shown = 1..m /\ DOMAIN all = 1..n
      /\ p \in [1..n -> 1..n] /\ IsInjective(p) /\ \A i \in 1..m : shown[i] = all[p[i]]
  BY DEF FirstOf
<1>1. IsFiniteSet(T)
  <2>1. IsFiniteSet(1..n)
    <3>1. 1 \in Int /\ n \in Int
      BY <1>0
    <3> HIDE DEF n
    <3> QED BY <3>1, FS_Interval, Zenon
  <2>2. T \in SUBSET (1..n)
    BY <1>0
  <2> HIDE DEF T, n
  <2> QED BY <2>1, <2>2, FS_Subset
<1>2. g \in [S -> T]
  <2> SUFFICES ASSUME NEW i \in S PROVE p[i] \in T
    OBVIOUS
  <2>1. i \in 1..m /\ i \in 1..n
    BY <1>0
  <2>2. p[i] \in 1..n /\ all[p[i]] = t
    BY <1>0, <2>1
  <2> QED BY <1>0, <2>2
<1>3. \A i, j \in S : g[i] = g[j] => i = j
  <2> SUFFICES ASSUME NEW i \in S, NEW j \in S, p[i] = p[j] PROVE i = j
    OBVIOUS
  <2>1. i \in 1..n /\ j \in 1..n
    BY <1>0
  <2> QED BY <1>0, <2>1 DEF IsInjective
<1> HIDE DEF g, S, T
<1>4. g \in Injection(S, T)
  BY <1>2, <1>3 DEF Injection, IsInjective
<1>5. Cardinality(S) <= Cardinality(T)
  BY <1>1, <1>4, FS_Injection
<1> QED BY <1>5, Zenon DEF S, T, AsOften

\* What it leaves out comes after.
LEMMA LeftOut ==
  ASSUME NEW m, NEW shown, NEW p, NEW all, FirstOf(m, shown, p, all), NEW t \in ToSet(all) \ ToSet(shown)
  PROVE  \E j \in m + 1..Len(all) : all[p[j]] = t
<1> DEFINE n == Len(all)
           S == 1..n
<1>0. /\ m \in Nat /\ n \in Nat /\ m <= n /\ DOMAIN shown = 1..m /\ DOMAIN all = 1..n
      /\ p \in [S -> S] /\ IsInjective(p) /\ \A i \in 1..m : shown[i] = all[p[i]]
  BY DEF FirstOf
<1>1. IsFiniteSet(S)
  <2>1. 1 \in Int /\ n \in Int
    BY <1>0
  <2> HIDE DEF n
  <2> QED BY <2>1, FS_Interval, Zenon
<1>2. PICK k \in S : all[k] = t
  BY <1>0 DEF ToSet
<1>3. p \in Surjection(S, S)
  <2>1. \A a, b \in S : p[a] = p[b] => a = b
    BY <1>0 DEF IsInjective
  <2> HIDE DEF S
  <2>2. p \in Injection(S, S)
    BY <1>0, <2>1 DEF Injection, IsInjective
  <2> QED BY <1>1, <2>2, FS_Injection
<1>4. PICK j \in S : p[j] = k
  <2> HIDE DEF S
  <2> QED BY <1>3, <1>2 DEF Surjection
<1>5. j \notin 1..m
  <2> SUFFICES ASSUME j \in 1..m PROVE FALSE
    OBVIOUS
  <2>1. shown[j] = t
    BY <1>0, <1>2, <1>4
  <2>2. t \in ToSet(shown)
    BY <1>0, <2>1 DEF ToSet
  <2> QED BY <2>2
<1>6. j \in m + 1..n
  BY <1>0, <1>5
<1> QED BY <1>2, <1>4, <1>6

\* All traces that a query is about.
AllFor(key) == IF ProjectOf(key) = 0 THEN get_all_traces ELSE search_by_project(ProjectOf(key))

\* A query is answered with the first of an order of them, where their order is defined.
LEMMA QueryReads ==
  ASSUME NEW a, NEW f, Gets(a, f), f.page = "query"
  PROVE  \/ Undefined(AllFor(f.key), <<f.sort_by>>, f.order = "desc") /\ UNCHANGED databases
         \/ \E s \in Sorted(AllFor(f.key), <<f.sort_by>>, f.order = "desc") : Reads(a, 200, Shortened(s, f.limit))
<1> DEFINE url == a.request.url
           w == Text(f.limit)
           pairs == qs_parse(url)
<1>1. f \in Forms /\ a.request = RequestOf(f) /\ Query(a)
  BY CalledAdmins DEF Gets, AskOf
<1>2. IsNumber(f.limit) /\ f.sort_by \in {"d", "r", "f"} /\ f.order \in {"desc", "asc"}
  BY <1>1, FormTypes
<1>3. IsDigits(w) /\ w # <<>> /\ stoi(w) = f.limit /\ ~StoiThrows(w)
  BY <1>2, FormNumber
<1>4. /\ url = <<"/", "query", "/", "advanced", "?", "l", "=">> \o w \o <<"&", "s", "=", f.sort_by, "&", "o", "=", f.order>>
      /\ a.request.key = f.key
  <2> DEFINE u == <<"/", "query", "/", "advanced", "?", "l", "=">> \o w
                    \o <<"&", "s", "=", f.sort_by, "&", "o", "=", f.order>>
             get_it == "GET"
             empty == <<>>
  <2>1. RequestOf(f) = Request(get_it, u, f.key, empty)
    BY AdminForms
  <2> HIDE DEF w, u, get_it, empty
  <2>2. a.request.url = u /\ a.request.key = f.key
    BY <1>1, <2>1 DEF Request
  <2> QED BY <2>2 DEF u
<1>5. Queried(url, <<"/", "query", "/", "advanced">>, Asked(w, f.sort_by, f.order))
  BY <1>2, <1>3, <1>4, AdvancedUrl
<1>6. ThreePairs(Pieces(Asked(w, f.sort_by, f.order)), "l", w, "s", <<f.sort_by>>, "o", <<f.order>>)
  BY <1>2, <1>3, AskedPairs
<1>7. /\ Has(pairs, "l") /\ get(pairs, "l") = w
      /\ Has(pairs, "s") /\ get(pairs, "s") = <<f.sort_by>>
      /\ Has(pairs, "o") /\ get(pairs, "o") = <<f.order>>
  <2> HIDE DEF url, w
  <2> QED BY <1>5, <1>6, ThreeParams
<1> HIDE DEF pairs, w
<1>8. IF Undefined(AllFor(f.key), get(pairs, "s"), get(pairs, "o") = <<"desc">>)
      THEN UNCHANGED databases
      ELSE \E s \in Sorted(AllFor(f.key), get(pairs, "s"), get(pairs, "o") = <<"desc">>) :
             Reads(a, 200, Limited(s, stoi(get(pairs, "l"))))
  <2> DEFINE garbled(s) == Garbled(s)
             undefined == Undefined(AllFor(f.key), get(pairs, "s"), get(pairs, "o") = <<"desc">>)
  <2>1. IF undefined
        THEN Crashes(a) \/ \E s \in garbled(AllFor(f.key)) : Reads(a, 200, Limited(s, stoi(get(pairs, "l"))))
        ELSE \E s \in Sorted(AllFor(f.key), get(pairs, "s"), get(pairs, "o") = <<"desc">>) :
               Reads(a, 200, Limited(s, stoi(get(pairs, "l"))))
    BY <1>1, <1>3, <1>4, <1>7, Zenon DEF Query, AllFor, pairs
  <2> HIDE DEF garbled, undefined
  <2>2. \A code, s : Reads(a, code, s) => UNCHANGED databases
    BY DEF Reads
  <2>3. undefined => UNCHANGED databases
    BY <2>1, <2>2 DEF Crashes
  <2> QED BY <2>1, <2>3, Zenon DEF undefined
<1>9. (get(pairs, "o") = <<"desc">>) = (f.order = "desc")
  BY <1>7
<1>10. \A s : Limited(s, f.limit) = Shortened(s, f.limit)
  <2>1. ~(f.limit < 0)
    BY <1>2 DEF IsNumber
  <2> QED BY <2>1 DEF Limited
<1> SUFFICES ASSUME ~(Undefined(AllFor(f.key), <<f.sort_by>>, f.order = "desc") /\ UNCHANGED databases)
             PROVE  \E s \in Sorted(AllFor(f.key), <<f.sort_by>>, f.order = "desc") : Reads(a, 200, Shortened(s, f.limit))
  OBVIOUS
<1>14. ~Undefined(AllFor(f.key), get(pairs, "s"), get(pairs, "o") = <<"desc">>)
  <2> DEFINE d == f.order = "desc"
             e == get(pairs, "o") = <<"desc">>
             by == <<f.sort_by>>
  <2>1. e = d /\ by = get(pairs, "s")
    BY <1>7, <1>9
  <2> HIDE DEF d, e, by
  <2>2. Undefined(AllFor(f.key), get(pairs, "s"), e) => Undefined(AllFor(f.key), by, d)
    BY <2>1, Zenon
  <2> QED BY <1>8, <2>2 DEF by, d, e
<1>11. PICK s \in Sorted(AllFor(f.key), get(pairs, "s"), get(pairs, "o") = <<"desc">>) :
           Reads(a, 200, Limited(s, stoi(get(pairs, "l"))))
  BY <1>8, <1>14
<1>12. s \in Sorted(AllFor(f.key), <<f.sort_by>>, f.order = "desc")
  <2> DEFINE d == f.order = "desc"
             e == get(pairs, "o") = <<"desc">>
             by == <<f.sort_by>>
  <2>1. e = d /\ by = get(pairs, "s") /\ s \in Sorted(AllFor(f.key), get(pairs, "s"), e)
    BY <1>7, <1>9, <1>11
  <2> HIDE DEF d, e, by
  <2>2. s \in Sorted(AllFor(f.key), by, d)
    BY <2>1, Zenon
  <2> QED BY <2>2 DEF by, d
<1>13. Reads(a, 200, Shortened(s, f.limit))
  <2>1. Limited(s, stoi(get(pairs, "l"))) = Shortened(s, f.limit)
    BY <1>3, <1>7, <1>10
  <2> QED BY <1>11, <2>1, Zenon
<1> QED BY <1>12, <1>13

\* An order of a list: of two of its entries the one that comes first is not the later one's equal in this.
InOrder(n, s, by, descending) ==
  \A i, j \in 1..n : i < j => IF descending THEN ~Smaller(s[i], s[j], by) ELSE ~Smaller(s[j], s[i], by)

\* What std::sort may leave is an order of the entries there were, as it was asked for.
Rearranges(n, p, s, all) ==
  p \in [1..n -> 1..n] /\ IsInjective(p) /\ s = [i \in 1..n |-> all[p[i]]]

LEMMA SortedProps ==
  ASSUME NEW all, Len(all) \in Nat, NEW by, NEW descending \in BOOLEAN, NEW s \in Sorted(all, by, descending)
  PROVE  /\ \E p : Rearranges(Len(all), p, s, all)
         /\ InOrder(Len(all), s, by, descending)
<1> DEFINE n == Len(all)
           every == {[i \in 1..n |-> all[p[i]]] : p \in {q \in [1..n -> 1..n] : IsInjective(q)}}
           Fine(r) == \A i, j \in 1..n : i < j =>
                        IF descending THEN ~Smaller(r[i], r[j], by) ELSE ~Smaller(r[j], r[i], by)
<1>1. Sorted(all, by, descending) = {r \in every : Fine(r)}
  BY Zenon DEF Sorted
<1>2. s \in every /\ Fine(s)
  <2> HIDE DEF every, n, Fine
  <2> QED BY <1>1
<1>3. \E p : Rearranges(n, p, s, all)
  BY <1>2 DEF Rearranges
<1> QED BY <1>2, <1>3 DEF InOrder

\* The traces that a query is about are a list.
LEMMA AllForIsSeq == ASSUME DataInv, NEW key PROVE IsSeq(AllFor(key))
<1>1. traces \in Seq(ToSet(traces))
  BY DEF DataInv, IsSeq
<1>2. \A I : IsSeq(Selected(traces, I))
  <2> TAKE I
  <2>1. Selected(traces, I) \in Seq(ToSet(traces))
    BY <1>1, SelectedProps
  <2> QED BY <2>1, SeqOwn
<1> QED BY <1>2 DEF AllFor, get_all_traces, search_by_project

\* The first so many of an order.
LEMMA FirstShown ==
  ASSUME NEW all, Len(all) \in Nat, DOMAIN all = 1..Len(all), NEW limit \in Nat, NEW p, NEW s,
         Rearranges(Len(all), p, s, all)
  PROVE  /\ FirstOf(IF limit < Len(all) THEN limit ELSE Len(all), Shortened(s, limit), p, all)
         /\ \A i \in 1..Len(all) : s[i] = all[p[i]]
         /\ \A i \in DOMAIN Shortened(s, limit) : Shortened(s, limit)[i] = s[i]
<1> DEFINE n == Len(all)
           m == IF limit < n THEN limit ELSE n
           shown == Shortened(s, limit)
           U == {all[i] : i \in 1..n}
<1>1. p \in [1..n -> 1..n] /\ IsInjective(p) /\ s = [i \in 1..n |-> all[p[i]]]
  BY DEF Rearranges
<1>2. s \in Seq(U) /\ Len(s) = n
  <2>1. s \in [1..n -> U]
    BY <1>1
  <2> HIDE DEF U
  <2> QED BY <2>1, SeqDef
<1>3. \A i \in 1..n : s[i] = all[p[i]]
  BY <1>1
<1> HIDE DEF U
<1>4. /\ shown \in Seq(U) /\ Len(shown) = IF n < limit THEN n ELSE limit
      /\ \A i \in 1..Len(shown) : shown[i] = s[i]
  BY <1>2, ShortenedProps
<1>5. m \in Nat /\ m <= n
  OBVIOUS
<1>6. Len(shown) = m
  BY <1>4
<1> HIDE DEF shown, m, n
<1>7. DOMAIN shown = 1..m
  BY <1>4, <1>6, LenProperties
<1>8. \A i \in 1..m : shown[i] = s[i] /\ i \in 1..n
  <2>1. n \in Nat
    BY DEF n
  <2> QED BY <1>4, <1>5, <1>6, <2>1
<1>9. FirstOf(m, shown, p, all)
  BY <1>1, <1>3, <1>5, <1>6, <1>7, <1>8 DEF FirstOf, n
<1> QED BY <1>3, <1>7, <1>8, <1>9 DEF shown, m, n

\* The answer to a query.
LEMMA QueryShown ==
  ASSUME DataInv, NEW a, NEW f, Gets(a, f), f.page = "query"
  PROVE  UNCHANGED databases /\ ShowsNow(f, last'.shown)
<1> DEFINE all == AllFor(f.key)
           n == Len(all)
           by == <<f.sort_by>>
           descending == f.order = "desc"
           m == IF f.limit < n THEN f.limit ELSE n
           shown == last'.shown
<1>1. IsSeq(all) /\ n \in Nat /\ DOMAIN all = 1..n
  <2>1. IsSeq(all)
    BY AllForIsSeq
  <2> HIDE DEF all
  <2> QED BY <2>1, LenProperties DEF IsSeq
<1>2. f.limit \in Nat
  BY FormTypes DEF Gets, AskOf, IsNumber
<1>12. CASE Undefined(all, by, descending) /\ UNCHANGED databases
  <2>1. all = IF ProjectOf(f.key) = 0 THEN get_all_traces ELSE search_by_project(ProjectOf(f.key))
    BY DEF AllFor
  <2> HIDE DEF all
  <2>2. OrderedAs(f, shown)
    BY <1>12, <2>1, Zenon DEF OrderedAs
  <2> QED BY <1>12, <2>2 DEF ShowsNow
<1> SUFFICES ASSUME ~(Undefined(all, by, descending) /\ UNCHANGED databases)
             PROVE  UNCHANGED databases /\ ShowsNow(f, last'.shown)
  BY <1>12
<1>3. PICK s \in Sorted(all, by, descending) : Reads(a, 200, Shortened(s, f.limit))
  BY QueryReads
<1>4. UNCHANGED databases /\ shown = Shortened(s, f.limit)
  <2> HIDE DEF all, by, descending
  <2> QED BY <1>3 DEF Reads, Answer
<1>5. (\E p : Rearranges(n, p, s, all)) /\ InOrder(n, s, by, descending)
  <2>1. descending \in BOOLEAN
    OBVIOUS
  <2> HIDE DEF all, by, descending
  <2> QED BY <1>1, <1>3, <2>1, SortedProps
<1>6. PICK p : Rearranges(n, p, s, all)
  BY <1>5
<1>7. /\ FirstOf(m, shown, p, all)
      /\ \A i \in 1..n : s[i] = all[p[i]]
      /\ \A i \in DOMAIN shown : shown[i] = s[i]
  <2> HIDE DEF all
  <2> QED BY <1>1, <1>2, <1>4, <1>6, FirstShown
<1>8. Len(shown) = m /\ DOMAIN shown = 1..m /\ m \in Nat /\ m <= n
  BY <1>7 DEF FirstOf
<1> DEFINE Before(t, u) == IF descending THEN Smaller(u, t, by) ELSE Smaller(t, u, by)
<1>9. /\ \A i, j \in DOMAIN shown : i < j => ~Before(shown[j], shown[i])
      /\ \A t \in ToSet(all) \ ToSet(shown) : \A i \in DOMAIN shown : ~Before(t, shown[i])
  <2>1. \A i, j \in 1..n : i < j => ~Before(s[j], s[i])
    <3>1. InOrder(n, s, by, descending)
      BY <1>5
    <3> HIDE DEF n, by, descending
    <3> QED BY <3>1 DEF InOrder
  <2> HIDE DEF all, n, m, shown, Before
  <2>2. ASSUME NEW i \in DOMAIN shown, NEW j \in DOMAIN shown, i < j PROVE ~Before(shown[j], shown[i])
    <3>1. i \in 1..n /\ j \in 1..n
      BY <1>1, <1>8
    <3>2. ~Before(s[j], s[i]) /\ shown[i] = s[i] /\ shown[j] = s[j]
      BY <1>7, <2>1, <2>2, <3>1
    <3> QED BY <3>2
  <2>3. ASSUME NEW t \in ToSet(all) \ ToSet(shown), NEW i \in DOMAIN shown PROVE ~Before(t, shown[i])
    <3>1. PICK j \in m + 1..n : all[p[j]] = t
      BY <1>7, LeftOut DEF n
    <3>2. i \in 1..n /\ j \in 1..n /\ i < j
      BY <1>1, <1>8
    <3>3. ~Before(s[j], s[i]) /\ s[j] = t /\ shown[i] = s[i]
      BY <1>7, <2>1, <3>1, <3>2
    <3> QED BY <3>3
  <2> QED BY <2>2, <2>3
<1>10. \A t \in ToSet(shown) :
         Cardinality({i \in DOMAIN shown : shown[i] = t}) <= Cardinality({i \in DOMAIN all : all[i] = t})
  <2>1. FirstOf(m, shown, p, all)
    BY <1>7
  <2>2. \A t : AsOften(shown, all, t)
    <3> HIDE DEF all, m, shown
    <3> QED BY <2>1, NoMoreOften
  <2> QED BY <2>2, Zenon DEF AsOften
<1>11. OrderedAs(f, shown)
  <2>1. all = IF ProjectOf(f.key) = 0 THEN get_all_traces ELSE search_by_project(ProjectOf(f.key))
    BY DEF AllFor
  <2> HIDE DEF all
  <2> QED BY <1>8, <1>9, <1>10, <2>1, Zenon DEF OrderedAs
<1> QED BY <1>4, <1>11 DEF ShowsNow

\* The pages that list something, and no others, show it.
Listing == {"projects", "users", "logs", "stats", "query"}

LEMMA NothingShown == ASSUME last'.form.page \notin Listing PROVE ShowsWhatIsThere'
BY DEF Listing, ShowsWhatIsThere

LEMMA ListingShown ==
  ASSUME DataInv, NEW a, NEW f, Gets(a, f), f.page \in Listing
  PROVE  UNCHANGED databases /\ ShowsNow(f, last'.shown)
BY ProjectsShown, UsersShown, LogsShown, StatsShown, QueryShown DEF Listing

\* An answer with a listing shows what there is to be shown and nothing else, whatever was asked for,
\* by whom, and whatever the databases hold: a user's projects, the active users to an administrator
\* only, a project's traces, and the first of them in the order asked for.
THEOREM ListingsShowWhatIsThere == Spec => []ShowsWhatIsThere
<1>1. Init => ShowsWhatIsThere
  BY DEF Init, Idle, None, ShowsWhatIsThere
<1>2. RouterInv /\ DataInv /\ ShowsWhatIsThere /\ [Next]_vars => ShowsWhatIsThere'
  <2> SUFFICES ASSUME RouterInv, DataInv, ShowsWhatIsThere, [Next]_vars PROVE ShowsWhatIsThere'
    OBVIOUS
  <2>1. CASE Start \/ Done \/ UNCHANGED vars \/ Lose \/ (\E c : SdkLog(c)) \/ (\E k, v : SdkInit(k, v))
    <3>1. last' = last
      BY <2>1 DEF Start, Done, vars, Lose, SdkLog, SdkInit
    <3>2. UNCHANGED databases
      BY <2>1, DataStays
    <3>3. ShowsNow(last.form, last.shown)
      BY ShowsIs
    <3>4. ShowsNow(last'.form, last'.shown)
      BY <3>1, <3>3, Zenon
    <3> QED BY <3>2, <3>4, ShowsOn
  <2>2. CASE Answered
    <3>1. last'.form.page = "none"
      BY <2>2 DEF Answered, Idle, None
    <3> QED BY <3>1, NothingShown DEF Listing
  <2>3. ASSUME NEW i, Deliver(i) PROVE ShowsWhatIsThere'
    <3> DEFINE a == [form |-> [page |-> None], request |-> Request("POST", <<"/", "log">>, sdk.key, post_data(calls[i]))]
    <3>1. Log(a, i)
      BY <2>3 DEF Deliver
    <3>2. Answers(a)
      BY <3>1, TracesKeep
    <3>3. last'.form = [page |-> None]
      BY <3>2 DEF Answers, Answer
    <3>4. last'.form.page = "none"
      BY <3>3 DEF None
    <3> QED BY <3>4, NothingShown DEF Listing
  <2>4. ASSUME NEW a \in Asks, Serving, Serve(a) PROVE ShowsWhatIsThere'
    <3>1. Answers(a)
      BY <2>4, HandlersKeep DEF Serve
    <3>2. last'.form = a.form
      BY <3>1 DEF Answers, Answer
    <3>3. CASE a.form.page \notin Listing
      BY <3>2, <3>3, NothingShown
    <3>4. CASE a.form.page \in Listing
      <4>1. a.form.page # None
        BY <3>4 DEF Listing, None
      <4>2. AskOf(a, a.form)
        BY <4>1, AsksOfPages
      <4>3. Gets(a, a.form)
        BY <2>4, <4>2 DEF Gets
      <4>4. UNCHANGED databases /\ ShowsNow(a.form, last'.shown)
        BY <3>4, <4>3, ListingShown
      <4>5. ShowsNow(last'.form, last'.shown)
        BY <3>2, <4>4, Zenon
      <4> QED BY <4>4, <4>5, ShowsOn
    <3> QED BY <3>3, <3>4
  <2> QED BY <2>1, <2>2, <2>3, <2>4, Zenon DEF Next
<1> QED BY <1>1, <1>2, RouterInvariant, DataInvariant, PTL DEF Spec

-----------------------------------------------------------------------------
(* Who changes the accounts. *)

\* What a step answering this request may do to the accounts.
ByAdmins(a) ==
  /\ \A i \in DOMAIN users : users'[i] # users[i] =>
       /\ users[i].id # 1
       /\ SameBut(users[i], users'[i])
       /\ \E j \in DOMAIN users : /\ users[j].active /\ users[j].role = ROLE_ADMIN
                                  /\ SaysItIsFrom(a, users[j].id)
  /\ \A i \in DOMAIN users' \ DOMAIN users : users'[i].role = ROLE_ADMIN => users = <<>>

\* Whoever has the permission is an active administrator, and the request says it is from him.
LEMMA PermissionAdmins ==
  ASSUME NEW a, NEW admin \in {FieldOf(a.request.body, "a"), AdminId(a)}, ~StoiThrows(admin),
         has_permission(stoi(admin))
  PROVE  \E j \in DOMAIN users : /\ users[j].active /\ users[j].role = ROLE_ADMIN
                                 /\ SaysItIsFrom(a, users[j].id)
<1>1. PICK j \in DOMAIN users : users[j].id = stoi(admin) /\ users[j].active /\ users[j].role = ROLE_ADMIN
  BY DEF has_permission
<1>2. SaysItIsFrom(a, users[j].id)
  BY <1>1, Zenon DEF SaysItIsFrom
<1> QED BY <1>1, <1>2

\* Changing the role or the activity of a user that is not the first.
LEMMA ChangeAdmins ==
  ASSUME NEW a, NEW id, id # 1, NEW r,
         \/ users' = [i \in DOMAIN users |-> IF users[i].id = id THEN [users[i] EXCEPT !.role = r] ELSE users[i]]
         \/ users' = [i \in DOMAIN users |-> IF users[i].id = id THEN [users[i] EXCEPT !.active = r] ELSE users[i]],
         \E j \in DOMAIN users : /\ users[j].active /\ users[j].role = ROLE_ADMIN
                                 /\ SaysItIsFrom(a, users[j].id)
  PROVE  ByAdmins(a)
<1>1. ASSUME NEW i \in DOMAIN users, users'[i] # users[i]
      PROVE  /\ users[i].id # 1
             /\ SameBut(users[i], users'[i])
  <2>1. users[i].id = id
    BY <1>1
  <2>2. users'[i] = [users[i] EXCEPT !.role = r] \/ users'[i] = [users[i] EXCEPT !.active = r]
    BY <2>1
  <2>3. ASSUME NEW u, NEW v, v = [u EXCEPT !.role = r] \/ v = [u EXCEPT !.active = r]
        PROVE  SameBut(u, v)
    BY <2>3 DEF SameBut
  <2> QED BY <2>1, <2>2, <2>3
<1>2. DOMAIN users' \ DOMAIN users = {}
  OBVIOUS
<1> QED BY <1>1, <1>2 DEF ByAdmins

LEMMA RolesAdmins == ASSUME NEW a, NEW id, SetRole(a, id) \/ Deactivate(a, id) PROVE ByAdmins(a)
<1>1. CASE users' = users
  BY <1>1 DEF ByAdmins
<1>2. CASE users' # users /\ SetRole(a, id)
  <2> DEFINE admin == FieldOf(a.request.body, "a")
             r == stoi(FieldOf(a.request.body, "r"))
  <2>0. \A code : ~Refuses(a, code)
    BY <1>2 DEF Refuses, Reads, databases, accountVars
  <2>1. /\ ~StoiThrows(admin) /\ has_permission(stoi(admin))
        /\ ChangeUser(a, id, LAMBDA u : [u EXCEPT !.role = stoi(FieldOf(a.request.body, "r"))])
    BY <1>2, <2>0, Zenon DEF SetRole
  <2>2. /\ id # 1
        /\ users' = [i \in DOMAIN users |-> IF users[i].id = id THEN [users[i] EXCEPT !.role = r] ELSE users[i]]
    BY <2>0, <2>1 DEF ChangeUser
  <2>3. \E j \in DOMAIN users : /\ users[j].active /\ users[j].role = ROLE_ADMIN
                                /\ SaysItIsFrom(a, users[j].id)
    BY <2>1, PermissionAdmins
  <2> HIDE DEF r
  <2> QED BY <2>2, <2>3, ChangeAdmins
<1>3. CASE users' # users /\ Deactivate(a, id)
  <2> DEFINE admin == AdminId(a)
  <2>0. \A code : ~Refuses(a, code)
    BY <1>3 DEF Refuses, Reads, databases, accountVars
  <2>1. /\ ~StoiThrows(admin) /\ has_permission(stoi(admin))
        /\ ChangeUser(a, id, LAMBDA u : [u EXCEPT !.active = FALSE])
    <3>1. Checked(a, admin) = 200 /\ ChangeUser(a, id, LAMBDA u : [u EXCEPT !.active = FALSE])
      BY <1>3, <2>0, Zenon DEF Deactivate
    <3> QED BY <3>1 DEF Checked
  <2>2. /\ id # 1
        /\ users' = [i \in DOMAIN users |-> IF users[i].id = id THEN [users[i] EXCEPT !.active = FALSE] ELSE users[i]]
    BY <2>0, <2>1 DEF ChangeUser
  <2>3. \E j \in DOMAIN users : /\ users[j].active /\ users[j].role = ROLE_ADMIN
                                /\ SaysItIsFrom(a, users[j].id)
    BY <2>1, PermissionAdmins
  <2> QED BY <2>2, <2>3, ChangeAdmins
<1> QED BY <1>1, <1>2, <1>3

\* Nobody registers as an administrator but the first.
LEMMA RegisterAdmins == ASSUME DataInv, NEW a, Register(a) PROVE ByAdmins(a)
<1>1. CASE users' = users
  BY <1>1 DEF ByAdmins
<1>2. CASE users' # users
  <2>0. \A code : ~Refuses(a, code)
    BY <1>2 DEF Refuses, Reads, databases, accountVars
  <2>1. PICK x : users' = Append(users, x) /\ x.role = IF next_user_id = 1 THEN ROLE_ADMIN ELSE ROLE_USER
    BY <2>0 DEF Register
  <2>2. users \in Seq(ToSet(users)) /\ Len(users) \in Nat /\ next_user_id = Len(users) + 1
    <3>1. users \in Seq(ToSet(users)) /\ next_user_id = Len(users) + 1
      BY DEF DataInv, IsSeq
    <3> QED BY <3>1, LenProperties
  <2> DEFINE u == Append(users, x)
  <2>3. /\ \A i \in DOMAIN users : u[i] = users[i]
        /\ \A i \in DOMAIN u \ DOMAIN users : u[i] = x
    <3>1. users \in Seq(ToSet(users) \cup {x}) /\ x \in ToSet(users) \cup {x}
      <4>1. ToSet(users) \subseteq ToSet(users) \cup {x}
        OBVIOUS
      <4> QED BY <2>2, <4>1, SeqOver
    <3> QED BY <2>2, <3>1
  <2>4. x.role = ROLE_ADMIN => users = <<>>
    <3> SUFFICES ASSUME x.role = ROLE_ADMIN PROVE users = <<>>
      OBVIOUS
    <3>1. next_user_id = 1
      BY <2>1 DEF ROLE_ADMIN, ROLE_USER
    <3>2. Len(users) = 0
      BY <2>2, <3>1
    <3> QED BY <2>2, <3>2, EmptySeq
  <2>5. users' = u
    BY <2>1
  <2> HIDE DEF u
  <2> QED BY <2>3, <2>4, <2>5 DEF ByAdmins
<1> QED BY <1>1, <1>2

\* A request is answered.
LEMMA ServeAdmins == ASSUME DataInv, NEW a, Serve(a) PROVE ByAdmins(a)
<1> DEFINE found == Routed(a.request)
<1>1. Handle(a, found)
  BY DEF Serve
<1> HIDE DEF found
<1>2. CASE users' = users
  BY <1>2 DEF ByAdmins
<1>3. CASE users' # users
  <2>1. Register(a) \/ SetRole(a, IdOf(found)) \/ Deactivate(a, IdOf(found))
    <3>0. /\ \A code : ~Refuses(a, code)
          /\ \A code, shown : ~Reads(a, code, shown)
          /\ ~(UNCHANGED accountVars)
      BY <1>3 DEF Refuses, Reads, databases, accountVars
    <3>1. ASSUME NEW path, Page(a) \/ Static(a, path) \/ Constant(a) PROVE FALSE
      BY <3>0, <3>1 DEF Page, Static, Constant
    <3>2. ASSUME NEW id, ListProjects(a, id) \/ Logs(a, id) PROVE FALSE
      BY <3>0, <3>2 DEF ListProjects, Logs
    <3>3. ASSUME Login(a) \/ AdminUsers(a) PROVE FALSE
      BY <3>0, <3>3 DEF Login, AdminUsers
    <3>4. ASSUME NEW id, Stats(a, id) PROVE FALSE
      BY <3>0, <3>4, Zenon DEF Stats
    <3>5. ASSUME Query(a) PROVE FALSE
      BY <3>0, <3>5 DEF Query, Crashes
    <3>6. ASSUME Log(a, 0) PROVE FALSE
      <4>1. \A logged, project : LogEvent(a, 0, logged, project) => UNCHANGED accountVars
        BY <3>0 DEF LogEvent
      <4> QED BY <3>0, <3>6, <4>1, Zenon DEF Log
    <3>7. ASSUME CreateProject(a) PROVE FALSE
      <4>1. UNCHANGED <<accountVars, traceVars>>
        BY <3>0, <3>7, Zenon DEF CreateProject
      <4> QED BY <3>0, <4>1
    <3>8. ASSUME NEW id, Settings(a, id) \/ DeleteProject(a, id) PROVE FALSE
      <4>1. UNCHANGED <<accountVars, next_project_id, traceVars>>
        BY <3>0, <3>8, Zenon DEF Settings, DeleteProject
      <4> QED BY <3>0, <4>1
    <3> QED BY <1>1, <3>0, <3>1, <3>2, <3>3, <3>4, <3>5, <3>6, <3>7, <3>8, Zenon DEF Handle
  <2> QED BY <2>1, RegisterAdmins, RolesAdmins
<1> QED BY <1>2, <1>3

\* Whatever clients send, in whatever order, an account changes only by a request that says it is
\* from an administrator who is active then, and nobody registers as an administrator while there
\* are accounts.
THEOREM OnlyAdminsChangeAccounts == Spec => AdminsOnly
<1> DEFINE Step_ == /\ \A i \in DOMAIN users : users'[i] # users[i] =>
                         /\ users[i].id # 1
                         /\ SameBut(users[i], users'[i])
                         /\ \E j \in DOMAIN users : /\ users[j].active /\ users[j].role = ROLE_ADMIN
                                                    /\ SaysItIsFrom(last', users[j].id)
                    /\ \A i \in DOMAIN users' \ DOMAIN users : users'[i].role = ROLE_ADMIN => users = <<>>
<1>1. DataInv /\ [Next]_vars => [Step_]_vars
  <2> SUFFICES ASSUME DataInv, [Next]_vars PROVE Step_
    OBVIOUS
  <2>1. CASE Start \/ Answered \/ Done \/ UNCHANGED vars \/ Lose \/ (\E c : SdkLog(c)) \/ (\E k, v : SdkInit(k, v))
    <3>1. users' = users
      BY <2>1, DataStays DEF databases, accountVars
    <3> QED BY <3>1
  <2>2. ASSUME NEW i \in senders, Deliver(i) PROVE Step_
    <3> DEFINE a == [form |-> [page |-> None], request |-> Request("POST", <<"/", "log">>, sdk.key, post_data(calls[i]))]
    <3>1. Log(a, i)
      BY <2>2 DEF Deliver
    <3> HIDE DEF a
    <3>2. \A logged, project : LogEvent(a, i, logged, project) => users' = users
      BY DEF LogEvent, Refuses, Reads, databases, accountVars
    <3>3. \A code : Refuses(a, code) => users' = users
      BY DEF Refuses, Reads, databases, accountVars
    <3>4. users' = users
      BY <3>1, <3>2, <3>3, Zenon DEF Log
    <3> QED BY <3>4
  <2>3. ASSUME NEW a \in Asks, Serve(a) PROVE Step_
    <3>1. Answers(a)
      BY <2>3, HandlersKeep DEF Serve
    <3>2. last'.request = a.request
      BY <3>1 DEF Answers, Answer
    <3>3. \A id : SaysItIsFrom(last', id) <=> SaysItIsFrom(a, id)
      BY <3>2, Zenon DEF SaysItIsFrom, AdminId
    <3>4. ByAdmins(a)
      BY <2>3, ServeAdmins
    <3> QED BY <3>3, <3>4 DEF ByAdmins
  <2> QED BY <2>1, <2>2, <2>3, Zenon DEF Next
<1>2. AdminsOnly <=> [][Step_]_vars
  BY DEF AdminsOnly
<1> HIDE DEF Step_
<1> QED BY <1>1, <1>2, DataInvariant, PTL DEF Spec
=============================================================================
