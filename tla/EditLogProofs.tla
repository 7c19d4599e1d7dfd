--------------------------- MODULE EditLogProofs ----------------------------
(***************************************************************************)
(* What the edit log of a buffer records, for every text.  An edit is a    *)
(* step between two texts (Step); a transaction is a chain of such steps   *)
(* (Chain), and the log a chain of transactions (LogChain).  The lemmas    *)
(* show that a chain can be walked backwards by the inverted edits, and    *)
(* that merging an edit into the one before it (try_extend) leaves the     *)
(* chain between the same texts.  The latter holds while each character is *)
(* encoded in one byte (OneByte): try_extend adds lengths in bytes to      *)
(* positions in characters.                                                *)
(***************************************************************************)
EXTENDS EditLog, DataInduction, SequenceTheorems

----------------------------------------------------------------------------
(* Texts: a string inserted at c, and the characters from a to b removed.   *)

Ins(t, c, s) == SubSeq(t, 1, c) \o s \o SubSeq(t, c + 1, Len(t))
Cut(t, a, b) == SubSeq(t, 1, a) \o SubSeq(t, b + 1, Len(t))

(* What a concatenation has at each place.                                  *)
LEMMA CatShape ==
  ASSUME NEW p \in Seq(Char), NEW q \in Seq(Char)
  PROVE  /\ p \o q \in Seq(Char)
         /\ Len(p \o q) = Len(p) + Len(q)
         /\ \A i \in 1..Len(p) : (p \o q)[i] = p[i]
         /\ \A i \in 1..Len(q) : (p \o q)[Len(p) + i] = q[i]
OBVIOUS

(* What an insertion leaves at each place.                                  *)
LEMMA InsShape ==
  ASSUME NEW t \in Seq(Char), NEW s \in Seq(Char), NEW c \in 0..Len(t)
  PROVE  /\ Ins(t, c, s) \in Seq(Char)
         /\ Len(Ins(t, c, s)) = Len(t) + Len(s)
         /\ \A i \in 1..c : Ins(t, c, s)[i] = t[i]
         /\ \A i \in 1..Len(s) : Ins(t, c, s)[c + i] = s[i]
         /\ \A i \in c + 1..Len(t) : Ins(t, c, s)[Len(s) + i] = t[i]
<1> DEFINE p == SubSeq(t, 1, c)
           q == SubSeq(t, c + 1, Len(t))
<1>1. p \in Seq(Char) /\ Len(p) = c /\ \A i \in 1..c : p[i] = t[i]
  OBVIOUS
<1>2. q \in Seq(Char) /\ Len(q) = Len(t) - c /\ \A i \in 1..Len(t) - c : q[i] = t[c + i]
  OBVIOUS
<1> HIDE DEF p, q
<1>3. /\ p \o s \in Seq(Char)
      /\ Len(p \o s) = c + Len(s)
      /\ \A i \in 1..c : (p \o s)[i] = t[i]
      /\ \A i \in 1..Len(s) : (p \o s)[c + i] = s[i]
  BY <1>1
<1> DEFINE r == p \o s
<1> HIDE DEF r
<1>4. /\ r \o q \in Seq(Char)
      /\ Len(r \o q) = Len(t) + Len(s)
      /\ \A i \in 1..c + Len(s) : (r \o q)[i] = r[i]
      /\ \A i \in 1..Len(q) : (r \o q)[c + Len(s) + i] = q[i]
  <2>1. r \in Seq(Char) /\ q \in Seq(Char) /\ Len(r) = c + Len(s)
    BY <1>2, <1>3 DEF r
  <2>2. Len(r) + Len(q) = Len(t) + Len(s)
    BY <1>2, <2>1
  <2> QED
    <3>1. /\ r \o q \in Seq(Char)
          /\ Len(r \o q) = Len(r) + Len(q)
          /\ \A i \in 1..Len(r) : (r \o q)[i] = r[i]
          /\ \A i \in 1..Len(q) : (r \o q)[Len(r) + i] = q[i]
      BY ONLY <2>1, CatShape
    <3> QED
      BY ONLY <2>1, <2>2, <3>1
<1>5. Ins(t, c, s) = r \o q
  BY DEF Ins, r, p, q
<1>6. \A i \in 1..c : (r \o q)[i] = t[i]
  BY <1>3, <1>4 DEF r
<1>7. \A i \in 1..Len(s) : (r \o q)[c + i] = s[i]
  BY <1>3, <1>4 DEF r
<1>8. ASSUME NEW i \in c + 1..Len(t) PROVE (r \o q)[Len(s) + i] = t[i]
  <2>1. (i - c) \in 1..Len(q) /\ c + Len(s) + (i - c) = Len(s) + i /\ c + (i - c) = i
    BY <1>2
  <2>2. (r \o q)[c + Len(s) + (i - c)] = q[i - c]
    BY <1>4, <2>1
  <2>3. q[i - c] = t[c + (i - c)]
    BY <1>2, <2>1
  <2> QED
    BY <2>1, <2>2, <2>3
<1> QED
  BY <1>4, <1>5, <1>6, <1>7, <1>8

(* What a removal leaves at each place.                                     *)
LEMMA CutShape ==
  ASSUME NEW t \in Seq(Char), NEW b \in 0..Len(t), NEW a \in 0..b
  PROVE  /\ Cut(t, a, b) \in Seq(Char)
         /\ Len(Cut(t, a, b)) = Len(t) - (b - a)
         /\ \A i \in 1..a : Cut(t, a, b)[i] = t[i]
         /\ \A i \in a + 1..Len(t) - (b - a) : Cut(t, a, b)[i] = t[i + (b - a)]
<1> DEFINE p == SubSeq(t, 1, a)
           q == SubSeq(t, b + 1, Len(t))
<1>1. p \in Seq(Char) /\ Len(p) = a /\ \A i \in 1..a : p[i] = t[i]
  OBVIOUS
<1>2. q \in Seq(Char) /\ Len(q) = Len(t) - b /\ \A i \in 1..Len(t) - b : q[i] = t[b + i]
  OBVIOUS
<1> HIDE DEF p, q
<1>3. /\ p \o q \in Seq(Char)
      /\ Len(p \o q) = Len(t) - (b - a)
      /\ \A i \in 1..a : (p \o q)[i] = t[i]
      /\ \A i \in 1..Len(q) : (p \o q)[a + i] = q[i]
  <2>1. Len(p) + Len(q) = Len(t) - (b - a)
    BY <1>1, <1>2
  <2> QED
    BY ONLY <1>1, <1>2, <2>1, CatShape
<1>4. ASSUME NEW i \in a + 1..Len(t) - (b - a) PROVE (p \o q)[i] = t[i + (b - a)]
  <2>1. (i - a) \in 1..Len(q) /\ a + (i - a) = i /\ b + (i - a) = i + (b - a)
    BY <1>2
  <2>2. (p \o q)[a + (i - a)] = q[i - a]
    BY <1>3, <2>1
  <2>3. q[i - a] = t[b + (i - a)]
    BY <1>2, <2>1
  <2> QED
    BY <2>1, <2>2, <2>3
<1> QED
  BY <1>3, <1>4 DEF Cut, p, q

(* A text that is t with s in it at c is the insertion of s.                *)
LEMMA InsUnique ==
  ASSUME NEW t \in Seq(Char), NEW s \in Seq(Char), NEW c \in 0..Len(t), NEW u \in Seq(Char),
         Len(u) = Len(t) + Len(s),
         \A i \in 1..c : u[i] = t[i],
         \A i \in 1..Len(s) : u[c + i] = s[i],
         \A i \in c + 1..Len(t) : u[Len(s) + i] = t[i]
  PROVE  u = Ins(t, c, s)
<1> DEFINE v == Ins(t, c, s)
<1>1. /\ v \in Seq(Char)
      /\ Len(v) = Len(t) + Len(s)
      /\ \A i \in 1..c : v[i] = t[i]
      /\ \A i \in 1..Len(s) : v[c + i] = s[i]
      /\ \A i \in c + 1..Len(t) : v[Len(s) + i] = t[i]
  BY InsShape
<1> HIDE DEF v
<1>2. ASSUME NEW i \in 1..Len(u) PROVE u[i] = v[i]
  <2>1. CASE i \in 1..c
    BY <1>1, <2>1
  <2>2. CASE i \in c + 1..c + Len(s)
    <3>1. i - c \in 1..Len(s) /\ c + (i - c) = i
      BY <2>2
    <3> QED
      BY <1>1, <3>1, ZenonT(30)
  <2>3. CASE i \in c + Len(s) + 1..Len(u)
    <3>1. i - Len(s) \in c + 1..Len(t) /\ Len(s) + (i - Len(s)) = i
      BY <2>3
    <3> QED
      BY <1>1, <3>1, ZenonT(30)
  <2> QED
    BY <2>1, <2>2, <2>3
<1>3. u = v
  BY <1>1, <1>2, SeqEqual
<1> QED
  BY <1>3 DEF v

(* Removing what lies behind a puts it back when it is inserted there.      *)
LEMMA InsCut ==
  ASSUME NEW t \in Seq(Char), NEW b \in 0..Len(t), NEW a \in 0..b
  PROVE  /\ SubSeq(t, a + 1, b) \in Seq(Char)
         /\ Len(SubSeq(t, a + 1, b)) = b - a
         /\ a \in 0..Len(Cut(t, a, b))
         /\ t = Ins(Cut(t, a, b), a, SubSeq(t, a + 1, b))
<1> DEFINE s == SubSeq(t, a + 1, b)
           v == Cut(t, a, b)
<1>1. s \in Seq(Char) /\ Len(s) = b - a /\ \A i \in 1..b - a : s[i] = t[a + i]
  OBVIOUS
<1>2. /\ v \in Seq(Char)
      /\ Len(v) = Len(t) - (b - a)
      /\ \A i \in 1..a : v[i] = t[i]
      /\ \A i \in a + 1..Len(t) - (b - a) : v[i] = t[i + (b - a)]
  BY CutShape
<1> HIDE DEF s, v
<1>3. Len(t) = Len(v) + Len(s) /\ a \in 0..Len(v)
  BY <1>1, <1>2
<1>4. \A i \in a + 1..Len(v) : t[Len(s) + i] = v[i]
  BY <1>1, <1>2
<1>5. /\ \A i \in 1..a : t[i] = v[i]
      /\ \A i \in 1..Len(s) : t[a + i] = s[i]
  BY <1>1, <1>2
<1>6. t = Ins(v, a, s)
  BY ONLY <1>1, <1>2, <1>3, <1>4, <1>5, InsUnique, t \in Seq(Char)
<1> QED
  BY <1>1, <1>3, <1>6 DEF s, v

(* Removing what was inserted gives the text before.                        *)
LEMMA CutIns ==
  ASSUME NEW t \in Seq(Char), NEW s \in Seq(Char), NEW c \in 0..Len(t)
  PROVE  /\ Cut(Ins(t, c, s), c, c + Len(s)) = t
         /\ SubSeq(Ins(t, c, s), c + 1, c + Len(s)) = s
<1> DEFINE v == Ins(t, c, s)
<1>1. /\ v \in Seq(Char)
      /\ Len(v) = Len(t) + Len(s)
      /\ \A i \in 1..c : v[i] = t[i]
      /\ \A i \in 1..Len(s) : v[c + i] = s[i]
      /\ \A i \in c + 1..Len(t) : v[Len(s) + i] = t[i]
  BY InsShape
<1> HIDE DEF v
<1> DEFINE n == c + Len(s)
<1>2. n \in 0..Len(v) /\ c \in 0..n /\ n - c = Len(s)
  BY <1>1
<1> HIDE DEF n
<1>3. /\ Cut(v, c, n) \in Seq(Char)
      /\ Len(Cut(v, c, n)) = Len(v) - (n - c)
      /\ \A i \in 1..c : Cut(v, c, n)[i] = v[i]
      /\ \A i \in c + 1..Len(v) - (n - c) : Cut(v, c, n)[i] = v[i + (n - c)]
  BY <1>1, <1>2, CutShape
<1> DEFINE w == Cut(v, c, n)
<1> HIDE DEF w
<1>4. w \in Seq(Char) /\ Len(w) = Len(t)
  BY <1>1, <1>2, <1>3 DEF w
<1>5. ASSUME NEW i \in 1..Len(w) PROVE w[i] = t[i]
  <2>1. CASE i \in 1..c
    BY <1>1, <1>3, <2>1 DEF w
  <2>2. CASE i \in c + 1..Len(t)
    <3>1. i + (n - c) = Len(s) + i /\ i \in c + 1..Len(v) - (n - c)
      BY <1>1, <1>2, <2>2
    <3> QED
      BY <1>1, <1>3, <2>2, <3>1 DEF w
  <2> QED
    BY <1>4, <2>1, <2>2
<1>6. w = t
  BY <1>4, <1>5, SeqEqual
<1>7. /\ SubSeq(v, c + 1, n) \in Seq(Char)
      /\ Len(SubSeq(v, c + 1, n)) = Len(s)
      /\ \A i \in 1..Len(s) : SubSeq(v, c + 1, n)[i] = v[c + i]
  BY <1>1, <1>2
<1>8. SubSeq(v, c + 1, n) = s
  BY <1>1, <1>7, SeqEqual
<1> QED
  BY <1>6, <1>8 DEF w, v, n

(* Two insertions that touch are one: the second before the first ...       *)
LEMMA InsBefore ==
  ASSUME NEW t \in Seq(Char), NEW s \in Seq(Char), NEW r \in Seq(Char), NEW c \in 0..Len(t)
  PROVE  Ins(Ins(t, c, s), c, r) = Ins(t, c, r \o s)
<1> DEFINE v == Ins(t, c, s)
<1>1. /\ v \in Seq(Char)
      /\ Len(v) = Len(t) + Len(s)
      /\ \A i \in 1..c : v[i] = t[i]
      /\ \A i \in 1..Len(s) : v[c + i] = s[i]
      /\ \A i \in c + 1..Len(t) : v[Len(s) + i] = t[i]
  BY InsShape
<1> HIDE DEF v
<1>2. c \in 0..Len(v)
  BY <1>1
<1> DEFINE u == Ins(v, c, r)
<1>3. /\ u \in Seq(Char)
      /\ Len(u) = Len(v) + Len(r)
      /\ \A i \in 1..c : u[i] = v[i]
      /\ \A i \in 1..Len(r) : u[c + i] = r[i]
      /\ \A i \in c + 1..Len(v) : u[Len(r) + i] = v[i]
  BY <1>1, <1>2, InsShape
<1> HIDE DEF u
<1> DEFINE x == r \o s
<1>4. /\ x \in Seq(Char)
      /\ Len(x) = Len(r) + Len(s)
      /\ \A i \in 1..Len(r) : x[i] = r[i]
      /\ \A i \in 1..Len(s) : x[Len(r) + i] = s[i]
  OBVIOUS
<1> HIDE DEF x
<1>5. Len(u) = Len(t) + Len(x)
  BY <1>1, <1>3, <1>4
<1>6. \A i \in 1..c : u[i] = t[i]
  BY <1>1, <1>3
<1>7. ASSUME NEW i \in 1..Len(x) PROVE u[c + i] = x[i]
  <2>1. CASE i \in 1..Len(r)
    BY <1>3, <1>4, <2>1
  <2>2. CASE i \in Len(r) + 1..Len(x)
    <3>1. i - Len(r) \in 1..Len(s) /\ Len(r) + (i - Len(r)) = i
      BY <1>4, <2>2
    <3>2. c + (i - Len(r)) \in c + 1..Len(v) /\ Len(r) + (c + (i - Len(r))) = c + i
      BY <1>1, <3>1
    <3>3. u[c + i] = v[c + (i - Len(r))]
      BY <1>3, <3>2
    <3>4. v[c + (i - Len(r))] = s[i - Len(r)]
      BY <1>1, <3>1
    <3>5. x[i] = s[i - Len(r)]
      BY <1>4, <3>1
    <3> QED
      BY <3>3, <3>4, <3>5
  <2> QED
    BY <1>4, <2>1, <2>2
<1>8. ASSUME NEW i \in c + 1..Len(t) PROVE u[Len(x) + i] = t[i]
  <2>1. Len(s) + i \in c + 1..Len(v) /\ Len(r) + (Len(s) + i) = Len(x) + i
    BY <1>1, <1>4
  <2> QED
    BY <1>1, <1>3, <2>1
<1>9. u = Ins(t, c, x)
  BY <1>3, <1>4, <1>5, <1>6, <1>7, <1>8, InsUnique, ZenonT(30)
<1> QED
  BY <1>9 DEF u, v, x

(* ... and the second behind the first.                                     *)
LEMMA InsBehind ==
  ASSUME NEW t \in Seq(Char), NEW s \in Seq(Char), NEW r \in Seq(Char), NEW c \in 0..Len(t)
  PROVE  Ins(Ins(t, c, s), c + Len(s), r) = Ins(t, c, s \o r)
<1> DEFINE v == Ins(t, c, s)
<1>1. /\ v \in Seq(Char)
      /\ Len(v) = Len(t) + Len(s)
      /\ \A i \in 1..c : v[i] = t[i]
      /\ \A i \in 1..Len(s) : v[c + i] = s[i]
      /\ \A i \in c + 1..Len(t) : v[Len(s) + i] = t[i]
  BY InsShape
<1> HIDE DEF v
<1> DEFINE n == c + Len(s)
<1>2. n \in 0..Len(v)
  BY <1>1
<1>n. n = c + Len(s)
  OBVIOUS
<1> HIDE DEF n
<1> DEFINE u == Ins(v, n, r)
<1>3. /\ u \in Seq(Char)
      /\ Len(u) = Len(v) + Len(r)
      /\ \A i \in 1..n : u[i] = v[i]
      /\ \A i \in 1..Len(r) : u[n + i] = r[i]
      /\ \A i \in n + 1..Len(v) : u[Len(r) + i] = v[i]
  BY <1>1, <1>2, InsShape
<1> HIDE DEF u
<1> DEFINE x == s \o r
<1>4. /\ x \in Seq(Char)
      /\ Len(x) = Len(s) + Len(r)
      /\ \A i \in 1..Len(s) : x[i] = s[i]
      /\ \A i \in 1..Len(r) : x[Len(s) + i] = r[i]
  OBVIOUS
<1> HIDE DEF x
<1>5. Len(u) = Len(t) + Len(x)
  BY <1>1, <1>3, <1>4
<1>6. ASSUME NEW i \in 1..c PROVE u[i] = t[i]
  BY <1>1, <1>3, <1>n
<1>7. ASSUME NEW i \in 1..Len(x) PROVE u[c + i] = x[i]
  <2>1. CASE i \in 1..Len(s)
    <3>1. c + i \in 1..n
      BY <1>n, <2>1
    <3> QED
      BY <1>1, <1>3, <1>4, <2>1, <3>1
  <2>2. CASE i \in Len(s) + 1..Len(x)
    <3>1. i - Len(s) \in 1..Len(r) /\ Len(s) + (i - Len(s)) = i /\ n + (i - Len(s)) = c + i
      BY <1>4, <1>n, <2>2
    <3>2. u[n + (i - Len(s))] = r[i - Len(s)]
      BY <1>3, <3>1
    <3>3. x[Len(s) + (i - Len(s))] = r[i - Len(s)]
      BY <1>4, <3>1
    <3> QED
      BY <3>1, <3>2, <3>3
  <2> QED
    BY <1>4, <2>1, <2>2
<1>8. ASSUME NEW i \in c + 1..Len(t) PROVE u[Len(x) + i] = t[i]
  <2>1. Len(s) + i \in n + 1..Len(v) /\ Len(r) + (Len(s) + i) = Len(x) + i
    BY <1>1, <1>4, <1>n
  <2> QED
    BY <1>1, <1>3, <2>1
<1>9. u = Ins(t, c, x)
  BY <1>3, <1>4, <1>5, <1>6, <1>7, <1>8, InsUnique, ZenonT(30)
<1> QED
  BY <1>9 DEF u, v, x, n

----------------------------------------------------------------------------
(* The log.                                                                 *)

OneByte == \A c \in Char : Utf8Len[c] = 1

(* A string has a number of bytes; it is the number of its characters when  *)
(* each of them is encoded in one.                                          *)
LEMMA ByteLenFacts ==
  ASSUME NEW s \in Seq(Char)
  PROVE  ByteLen(s) \in Nat /\ (OneByte => ByteLen(s) = Len(s))
<1> DEFINE n == Len(s)
           D(f) == [i \in 0..n |-> IF i = 0 THEN 0 ELSE f[i - 1] + Utf8Len[s[i]]]
           F == [i \in 1..n |-> [x \in Nat |-> x + Utf8Len[s[i]]]]
<1>1. n \in Nat
  OBVIOUS
<1>2. \A i \in 1..n : s[i] \in Char /\ Utf8Len[s[i]] \in Nat
  BY Utf8LenAssumption
<1>3. F \in [1..n -> [Nat -> Nat]]
  BY <1>2
<1>4. PICK g \in [0..n -> Nat] : g[0] = 0 /\ \A k \in 1..n : g[k] = F[k][g[k - 1]]
  <2> HIDE DEF F, n
  <2>1. PICK V : V = Nat
    OBVIOUS
  <2>2. PICK z : z = 0
    OBVIOUS
  <2>3. z \in V /\ n \in Nat /\ F \in [1..n -> [V -> V]]
    BY <1>1, <1>3, <2>1, <2>2
  <2>4. \E f \in [0..n -> V] : f[0] = z /\ \A k \in 1..n : f[k] = F[k][f[k - 1]]
    BY ONLY <2>3, RecursionExists, SMTT(30)
  <2> QED
    BY <2>1, <2>2, <2>4
<1>5. ASSUME NEW k \in 1..n PROVE g[k] = g[k - 1] + Utf8Len[s[k]]
  <2>1. k - 1 \in 0..n /\ g[k - 1] \in Nat
    OBVIOUS
  <2>2. F[k][g[k - 1]] = g[k - 1] + Utf8Len[s[k]]
    BY <2>1
  <2> QED
    BY <1>4, <2>2
<1>6. g = D(g)
  BY <1>4, <1>5
<1> DEFINE h == CHOOSE f : f = D(f)
<1>7. h = D(h)
  BY <1>6
<1>8. ByteLen(s) = h[n]
  BY DEF ByteLen
<1> HIDE DEF h
<1>9. h[0] = 0 /\ \A k \in 1..n : h[k] = h[k - 1] + Utf8Len[s[k]]
  BY <1>7
<1> DEFINE S == {k \in 0..n : h[k] \in Nat /\ (OneByte => h[k] = k)}
<1>10. 0 \in S
  BY <1>9
<1>11. ASSUME NEW k \in 0..n-1, k \in S PROVE k + 1 \in S
  <2>1. h[k + 1] = h[k] + Utf8Len[s[k + 1]] /\ k + 1 \in 1..n
    BY <1>9
  <2>2. OneByte => Utf8Len[s[k + 1]] = 1
    BY <1>2, <2>1 DEF OneByte
  <2> QED
    BY <1>2, <1>11, <2>1, <2>2
<1>12. 0..n \subseteq S
  <2> HIDE DEF S, n
  <2> QED
    BY <1>1, <1>10, <1>11, BoundedInduction
<1> QED
  BY <1>8, <1>12

(* The edits that are recorded: they have a text, of one character if they  *)
(* are the insertion or the deletion of one.                                *)
GoodEdits == {e \in Edits : e.txt # <<>> /\ (e.isChar => Len(e.txt) = 1)}

(* Each field of an edit has its type.                                      *)
LEMMA EditFields ==
  ASSUME NEW e \in Edits
  PROVE  /\ e.kind \in {"Insert", "Delete"}
         /\ e.cur \in Nat
         /\ e.txt \in Seq(Char)
         /\ e.isChar \in BOOLEAN
BY DEF Edits

(* A new edit has its type.                                                 *)
LEMMA NewEditFacts ==
  ASSUME NEW k \in {"Insert", "Delete"}, NEW c \in Nat, NEW s \in Seq(Char), NEW x \in BOOLEAN
  PROVE  LET e == NewEdit(k, c, s, x)
         IN  e \in Edits /\ e.kind = k /\ e.cur = c /\ e.txt = s /\ e.isChar = x
BY DEF NewEdit, Edits

(* The inverse of an edit is an edit of the other kind.                     *)
LEMMA IntoUndoFacts ==
  ASSUME NEW e \in Edits
  PROVE  /\ IntoUndo(e) \in Edits
         /\ IntoUndo(e).cur = e.cur
         /\ IntoUndo(e).txt = e.txt
         /\ IntoUndo(e).isChar = e.isChar
         /\ e.kind = "Insert" => IntoUndo(e).kind = "Delete"
         /\ e.kind = "Delete" => IntoUndo(e).kind = "Insert"
BY DEF IntoUndo, Edits

(* An edit with a longer text is an edit.                                   *)
LEMMA Append2Facts ==
  ASSUME NEW e \in Edits, NEW s \in Seq(Char)
  PROVE  /\ LET d == Append2(e, s)
            IN  d \in Edits /\ d.kind = e.kind /\ d.cur = e.cur /\ d.txt = e.txt \o s
                /\ d.isChar = FALSE
         /\ LET d == Prepend2(e, s)
            IN  d \in Edits /\ d.kind = e.kind /\ d.cur = e.cur /\ d.txt = s \o e.txt
                /\ d.isChar = FALSE
<1>1. e.txt \o s \in Seq(Char) /\ s \o e.txt \in Seq(Char)
  BY EditFields
<1> QED
  BY <1>1 DEF Append2, Prepend2, Edits

(* The length the code takes for an edit's text, and the true one.          *)
LEMMA TxtLenFacts ==
  ASSUME NEW e \in Edits
  PROVE  /\ TxtLen(e) \in Nat
         /\ OneByte /\ e \in GoodEdits => TxtLen(e) = Len(e.txt)
<1>1. e.txt \in Seq(Char) /\ e.isChar \in BOOLEAN
  BY EditFields
<1>2. ByteLen(e.txt) \in Nat /\ (OneByte => ByteLen(e.txt) = Len(e.txt))
  BY <1>1, ByteLenFacts
<1> QED
  BY <1>1, <1>2 DEF TxtLen, GoodEdits

(* A string that is appended or prepended makes the text longer.            *)
LEMMA LongerTxt ==
  ASSUME NEW p \in Seq(Char), NEW q \in Seq(Char), q # <<>>
  PROVE  /\ Len(p \o q) > Len(p) /\ p \o q # <<>>
         /\ Len(q \o p) > Len(p) /\ q \o p # <<>>
OBVIOUS

(* What two edits combine to: one that has both texts, or the two of them.  *)
LEMMA TryCombineFacts ==
  ASSUME NEW d \in Edits, NEW e \in Edits
  PROVE  \/ TryCombine(d, e) = <<d, e>>
         \/ /\ d.kind = e.kind
            /\ \E x \in Edits :
                  /\ TryCombine(d, e) = <<x>>
                  /\ x.kind = e.kind
                  /\ x.isChar = FALSE
                  /\ \/ x.txt = d.txt \o e.txt
                     \/ x.txt = e.txt \o d.txt
<1>1. e.txt \in Seq(Char) /\ e.cur \in Nat /\ d.cur \in Nat
  BY EditFields
<1> DEFINE A == Append2(d, e.txt)
           P == Prepend2(d, e.txt)
           M == [Prepend2(d, e.txt) EXCEPT !.cur = e.cur]
<1>2. /\ A \in Edits /\ A.kind = d.kind /\ A.txt = d.txt \o e.txt /\ A.isChar = FALSE
      /\ P \in Edits /\ P.kind = d.kind /\ P.txt = e.txt \o d.txt /\ P.isChar = FALSE
      /\ M \in Edits /\ M.kind = d.kind /\ M.txt = e.txt \o d.txt /\ M.isChar = FALSE
  <2>1. A \in Edits /\ A.kind = d.kind /\ A.txt = d.txt \o e.txt /\ A.isChar = FALSE
    BY <1>1, Append2Facts
  <2>2. P \in Edits /\ P.kind = d.kind /\ P.txt = e.txt \o d.txt /\ P.isChar = FALSE
    BY <1>1, Append2Facts
  <2>3. M \in Edits /\ M.kind = d.kind /\ M.txt = e.txt \o d.txt /\ M.isChar = FALSE
    <3>1. PICK p : p = Prepend2(d, e.txt)
      OBVIOUS
    <3>2. p \in Edits /\ p.kind = d.kind /\ p.txt = e.txt \o d.txt /\ p.isChar = FALSE
      BY <2>2, <3>1
    <3>3. M = [p EXCEPT !.cur = e.cur]
      BY <3>1
    <3> HIDE DEF M
    <3> QED
      BY <1>1, <3>2, <3>3 DEF Edits
  <2> QED
    BY <2>1, <2>2, <2>3
<1>3. /\ TryExtendInsert(d, e) \in {<<P>>, <<A>>, <<d, e>>}
      /\ TryExtendDelete(d, e) \in {<<M>>, <<A>>, <<d, e>>}
  BY DEF TryExtendInsert, TryExtendDelete
<1> HIDE DEF A, P, M
<1>4. CASE d.kind # e.kind
  <2>1. TryCombine(d, e) = <<d, e>>
    BY <1>4, EditFields DEF TryCombine
  <2> QED
    BY <2>1
<1>5. CASE d.kind = e.kind
  <2>1. TryCombine(d, e) \in {<<P>>, <<A>>, <<M>>, <<d, e>>}
    BY <1>3, <1>5, EditFields DEF TryCombine
  <2> QED
    BY <1>2, <1>5, <2>1
<1> QED
  BY <1>4, <1>5

----------------------------------------------------------------------------
(* What an edit does to a text: the text u is t after the edit e.           *)

Step(t, e, u) ==
    \/ e.kind = "Insert" /\ e.cur \in 0..Len(t) /\ u = Ins(t, e.cur, e.txt)
    \/ e.kind = "Delete" /\ e.cur \in 0..Len(u) /\ t = Ins(u, e.cur, e.txt)

(* The inverse of an edit takes it back.                                    *)
LEMMA StepInverse ==
  ASSUME NEW t \in Seq(Char), NEW u \in Seq(Char), NEW e \in GoodEdits, Step(t, e, u)
  PROVE  IntoUndo(e) \in GoodEdits /\ Step(u, IntoUndo(e), t)
<1>1. e \in Edits /\ e.kind \in {"Insert", "Delete"}
  BY EditFields DEF GoodEdits
<1>2. PICK x : x = IntoUndo(e)
  OBVIOUS
<1>3. /\ x \in Edits /\ x.cur = e.cur /\ x.txt = e.txt /\ x.isChar = e.isChar
      /\ e.kind = "Insert" => x.kind = "Delete"
      /\ e.kind = "Delete" => x.kind = "Insert"
  BY <1>1, <1>2, IntoUndoFacts
<1>4. x \in GoodEdits
  BY <1>3 DEF GoodEdits
<1>5. Step(u, x, t)
  BY <1>1, <1>3 DEF Step
<1> QED
  BY <1>2, <1>4, <1>5

(* Two edits that are combined into one do as one what they did one after   *)
(* the other, if every character is one byte (try_extend_insert and         *)
(* try_extend_delete count bytes).                                          *)
LEMMA CombinedStep ==
  ASSUME OneByte,
         NEW d \in GoodEdits, NEW e \in GoodEdits,
         NEW t \in Seq(Char), NEW v \in Seq(Char), NEW u \in Seq(Char),
         Step(t, d, v), Step(v, e, u)
  PROVE  \/ TryCombine(d, e) = <<d, e>>
         \/ \E x \in GoodEdits : TryCombine(d, e) = <<x>> /\ Step(t, x, u)
<1>1. /\ d \in Edits /\ d.cur \in Nat /\ d.txt \in Seq(Char) /\ d.txt # <<>>
      /\ e \in Edits /\ e.cur \in Nat /\ e.txt \in Seq(Char) /\ e.txt # <<>>
      /\ d.kind \in {"Insert", "Delete"} /\ e.kind \in {"Insert", "Delete"}
  BY EditFields DEF GoodEdits
<1>2. TxtLen(d) = Len(d.txt) /\ TxtLen(e) = Len(e.txt)
  BY <1>1, TxtLenFacts
<1>3. PICK A : A = Append2(d, e.txt)
  OBVIOUS
<1>4. PICK P : P = Prepend2(d, e.txt)
  OBVIOUS
<1>5. PICK M : M = [Prepend2(d, e.txt) EXCEPT !.cur = e.cur]
  OBVIOUS
<1>6. A \in Edits /\ A.kind = d.kind /\ A.cur = d.cur /\ A.txt = d.txt \o e.txt /\ A.isChar = FALSE
  BY <1>1, <1>3, Append2Facts
<1>7. P \in Edits /\ P.kind = d.kind /\ P.cur = d.cur /\ P.txt = e.txt \o d.txt /\ P.isChar = FALSE
  BY <1>1, <1>4, Append2Facts
<1>8. M \in Edits /\ M.kind = d.kind /\ M.cur = e.cur /\ M.txt = e.txt \o d.txt /\ M.isChar = FALSE
  <2>1. M = [P EXCEPT !.cur = e.cur]
    BY <1>4, <1>5
  <2> QED
    BY <1>1, <1>7, <2>1 DEF Edits
<1>9. d.txt \o e.txt # <<>> /\ e.txt \o d.txt # <<>>
  BY <1>1, LongerTxt
<1>10. A \in GoodEdits /\ P \in GoodEdits /\ M \in GoodEdits
  BY <1>6, <1>7, <1>8, <1>9 DEF GoodEdits
<1>11. CASE d.kind # e.kind
  <2>1. TryCombine(d, e) = <<d, e>>
    BY <1>1, <1>11 DEF TryCombine
  <2> QED
    BY <2>1
<1>12. CASE d.kind = "Insert" /\ e.kind = "Insert"
  <2>1. /\ d.cur \in 0..Len(t) /\ v = Ins(t, d.cur, d.txt)
        /\ e.cur \in 0..Len(v) /\ u = Ins(v, e.cur, e.txt)
    BY <1>12 DEF Step
  <2>2. TryCombine(d, e) = TryExtendInsert(d, e)
    BY <1>12 DEF TryCombine
  <2>3. CASE e.cur = d.cur
    <3>1. TryExtendInsert(d, e) = <<P>>
      BY <1>4, <2>3 DEF TryExtendInsert
    <3>2. u = Ins(t, d.cur, e.txt \o d.txt)
      BY <1>1, <2>1, <2>3, InsBefore
    <3>3. Step(t, P, u)
      BY <1>7, <1>12, <2>1, <3>2 DEF Step
    <3> QED
      BY <1>10, <2>2, <3>1, <3>3
  <2>4. CASE e.cur # d.cur /\ e.cur = d.cur + Len(d.txt)
    <3>1. TryExtendInsert(d, e) = <<A>>
      BY <1>2, <1>3, <2>4 DEF TryExtendInsert
    <3>2. u = Ins(t, d.cur, d.txt \o e.txt)
      <4>1. Ins(Ins(t, d.cur, d.txt), d.cur + Len(d.txt), e.txt) = Ins(t, d.cur, d.txt \o e.txt)
        <5>1. PICK c, p, q : c = d.cur /\ p = d.txt /\ q = e.txt
          OBVIOUS
        <5>2. p \in Seq(Char) /\ q \in Seq(Char) /\ c \in 0..Len(t) /\ t \in Seq(Char)
          BY <1>1, <2>1, <5>1
        <5>3. Ins(Ins(t, c, p), c + Len(p), q) = Ins(t, c, p \o q)
          BY ONLY <5>2, InsBehind
        <5> QED
          BY <5>1, <5>3
      <4> QED
        BY <2>1, <2>4, <4>1
    <3>3. Step(t, A, u)
      BY <1>6, <1>12, <2>1, <3>2 DEF Step
    <3> QED
      BY <1>10, <2>2, <3>1, <3>3
  <2>5. CASE e.cur # d.cur /\ e.cur # d.cur + Len(d.txt)
    <3>1. TryExtendInsert(d, e) = <<d, e>>
      BY <1>2, <2>5 DEF TryExtendInsert
    <3> QED
      BY <2>2, <3>1
  <2> QED
    BY <2>3, <2>4, <2>5
<1>13. CASE d.kind = "Delete" /\ e.kind = "Delete"
  <2>1. /\ d.cur \in 0..Len(v) /\ t = Ins(v, d.cur, d.txt)
        /\ e.cur \in 0..Len(u) /\ v = Ins(u, e.cur, e.txt)
    BY <1>13 DEF Step
  <2>2. TryCombine(d, e) = TryExtendDelete(d, e)
    BY <1>13 DEF TryCombine
  <2>3. CASE e.cur = d.cur
    <3>1. TryExtendDelete(d, e) = <<A>>
      BY <1>3, <2>3 DEF TryExtendDelete
    <3>2. t = Ins(u, e.cur, d.txt \o e.txt)
      BY <1>1, <2>1, <2>3, InsBefore
    <3>3. Step(t, A, u)
      BY <1>6, <1>13, <2>1, <2>3, <3>2 DEF Step
    <3> QED
      BY <1>10, <2>2, <3>1, <3>3
  <2>4. CASE e.cur # d.cur /\ e.cur + Len(e.txt) = d.cur
    <3>1. TryExtendDelete(d, e) = <<M>>
      BY <1>2, <1>5, <2>4 DEF TryExtendDelete
    <3>2. t = Ins(u, e.cur, e.txt \o d.txt)
      <4>1. Ins(Ins(u, e.cur, e.txt), e.cur + Len(e.txt), d.txt) = Ins(u, e.cur, e.txt \o d.txt)
        <5>1. PICK c, p, q : c = e.cur /\ p = e.txt /\ q = d.txt
          OBVIOUS
        <5>2. p \in Seq(Char) /\ q \in Seq(Char) /\ c \in 0..Len(u) /\ u \in Seq(Char)
          BY <1>1, <2>1, <5>1
        <5>3. Ins(Ins(u, c, p), c + Len(p), q) = Ins(u, c, p \o q)
          BY ONLY <5>2, InsBehind
        <5> QED
          BY <5>1, <5>3
      <4> QED
        BY <2>1, <2>4, <4>1
    <3>3. Step(t, M, u)
      BY <1>8, <1>13, <2>1, <3>2 DEF Step
    <3> QED
      BY <1>10, <2>2, <3>1, <3>3
  <2>5. CASE e.cur # d.cur /\ e.cur + Len(e.txt) # d.cur
    <3>1. TryExtendDelete(d, e) = <<d, e>>
      BY <1>2, <2>5 DEF TryExtendDelete
    <3> QED
      BY <2>2, <3>1
  <2> QED
    BY <2>3, <2>4, <2>5
<1> QED
  BY <1>1, <1>11, <1>12, <1>13

----------------------------------------------------------------------------
(* What the edits of a transaction, one after the other, do to a text.      *)

Chain(t, T, u) ==
    \E w \in [0..Len(T) -> Seq(Char)] :
        /\ w[0] = t
        /\ w[Len(T)] = u
        /\ \A k \in 1..Len(T) : T[k] \in GoodEdits /\ Step(w[k - 1], T[k], w[k])

(* No edit does nothing.                                                    *)
LEMMA ChainEmpty ==
  ASSUME NEW t \in Seq(Char), NEW u
  PROVE  Chain(t, <<>>, u) <=> t = u
<1>1. ASSUME Chain(t, <<>>, u) PROVE t = u
  BY <1>1 DEF Chain
<1>2. ASSUME t = u PROVE Chain(t, <<>>, u)
  <2> DEFINE w == [k \in 0..0 |-> t]
  <2>1. w \in [0..0 -> Seq(Char)] /\ w[0] = t
    OBVIOUS
  <2>2. Len(<<>>) = 0
    OBVIOUS
  <2>3. \A k \in 1..Len(<<>>) : FALSE
    BY <2>2
  <2> HIDE DEF w
  <2> QED
    BY <1>2, <2>1, <2>2, <2>3 DEF Chain
<1> QED
  BY <1>1, <1>2

(* Edits lead from a text to a text.                                        *)
LEMMA ChainTexts ==
  ASSUME NEW T \in Seq(Edits), NEW t, NEW u, Chain(t, T, u)
  PROVE  t \in Seq(Char) /\ u \in Seq(Char)
BY DEF Chain

(* One edit more.                                                           *)
LEMMA ChainAppend ==
  ASSUME NEW T \in Seq(Edits), NEW t, NEW v, NEW u \in Seq(Char), NEW e \in GoodEdits,
         Chain(t, T, v), Step(v, e, u)
  PROVE  Append(T, e) \in Seq(Edits) /\ Chain(t, Append(T, e), u)
<1>1. PICK w \in [0..Len(T) -> Seq(Char)] :
        /\ w[0] = t
        /\ w[Len(T)] = v
        /\ \A k \in 1..Len(T) : T[k] \in GoodEdits /\ Step(w[k - 1], T[k], w[k])
  BY DEF Chain
<1>2. PICK U : U = Append(T, e)
  OBVIOUS
<1>3. PICK n : n = Len(T)
  OBVIOUS
<1>4. n \in Nat /\ Len(U) = n + 1 /\ U[n + 1] = e /\ \A k \in 1..n : U[k] = T[k]
  BY <1>2, <1>3
<1>5. U \in Seq(Edits)
  BY <1>2 DEF GoodEdits
<1> DEFINE x == [k \in 0..n+1 |-> IF k <= n THEN w[k] ELSE u]
<1>6. x \in [0..n+1 -> Seq(Char)] /\ x[0] = t /\ x[n] = v /\ x[n + 1] = u
  BY <1>1, <1>3, <1>4
<1>7. ASSUME NEW k \in 1..n PROVE x[k] = w[k] /\ x[k - 1] = w[k - 1]
  BY <1>4
<1> HIDE DEF x
<1>8. ASSUME NEW k \in 1..n+1 PROVE U[k] \in GoodEdits /\ Step(x[k - 1], U[k], x[k])
  <2>1. CASE k \in 1..n
    BY <1>1, <1>3, <1>4, <1>7, <2>1
  <2>2. CASE k = n + 1
    BY <1>4, <1>6, <2>2
  <2> QED
    BY <1>4, <2>1, <2>2
<1>9. Chain(t, U, u)
  BY <1>4, <1>6, <1>8 DEF Chain
<1> QED
  BY <1>2, <1>5, <1>9

(* The last edit of a transaction.                                          *)
LEMMA ChainLast ==
  ASSUME NEW T \in Seq(Edits), T # <<>>, NEW t, NEW u, Chain(t, T, u)
  PROVE  /\ Front(T) \in Seq(Edits)
         /\ Last(T) \in GoodEdits
         /\ T = Append(Front(T), Last(T))
         /\ \E v \in Seq(Char) : Chain(t, Front(T), v) /\ Step(v, Last(T), u)
<1>1. PICK w \in [0..Len(T) -> Seq(Char)] :
        /\ w[0] = t
        /\ w[Len(T)] = u
        /\ \A k \in 1..Len(T) : T[k] \in GoodEdits /\ Step(w[k - 1], T[k], w[k])
  BY DEF Chain
<1>2. PICK n : n = Len(T)
  OBVIOUS
<1>3. n \in Nat /\ n >= 1 /\ n \in 1..n /\ n - 1 \in Nat /\ n - 1 \in 0..n
  BY <1>2
<1>4. PICK U : U = Front(T)
  OBVIOUS
<1>5. U \in Seq(Edits) /\ Len(U) = n - 1 /\ \A k \in 1..n-1 : U[k] = T[k]
  BY <1>2, <1>3, <1>4 DEF Front
<1>6. T = Append(U, T[n])
  <2>1. PICK A : A = Append(U, T[n])
    OBVIOUS
  <2>2. T[n] \in Edits
    BY <1>2, <1>3
  <2>3. A \in Seq(Edits) /\ Len(A) = n /\ A[n] = T[n] /\ \A k \in 1..n-1 : A[k] = U[k]
    BY <1>3, <1>5, <2>1, <2>2
  <2>4. ASSUME NEW k \in 1..Len(A) PROVE A[k] = T[k]
    <3>1. k \in 1..n-1 \/ k = n
      BY <1>3, <2>3
    <3>2. CASE k \in 1..n-1
      BY <1>5, <2>3, <3>2
    <3>3. CASE k = n
      BY <2>3, <3>3
    <3> QED
      BY <3>1, <3>2, <3>3
  <2>5. A = T
    BY <1>2, <2>3, <2>4, SeqEqual
  <2> QED
    BY <2>1, <2>5
<1>7. T[n] \in GoodEdits /\ Step(w[n - 1], T[n], u) /\ w[n - 1] \in Seq(Char)
  BY <1>1, <1>2, <1>3
<1> DEFINE x == [k \in 0..n-1 |-> w[k]]
<1>8. x \in [0..n-1 -> Seq(Char)] /\ x[0] = t /\ x[n - 1] = w[n - 1]
  BY <1>1, <1>2, <1>3
<1>9. ASSUME NEW k \in 1..n-1 PROVE U[k] \in GoodEdits /\ Step(x[k - 1], U[k], x[k])
  <2>1. k \in 1..n /\ x[k] = w[k] /\ x[k - 1] = w[k - 1] /\ U[k] = T[k]
    BY <1>3, <1>5
  <2> QED
    BY <1>1, <1>2, <2>1
<1> HIDE DEF x
<1>10. Chain(t, U, w[n - 1])
  BY <1>5, <1>8, <1>9 DEF Chain
<1>11. Last(T) = T[n]
  BY <1>2 DEF Last
<1> QED
  BY <1>4, <1>5, <1>6, <1>7, <1>10, <1>11

(* An edit extends a transaction: by one edit, or by changing its last one. *)
LEMMA ExtendFacts ==
  ASSUME NEW T \in Seq(Edits), NEW e \in Edits
  PROVE  /\ Extend(T, e) \in Seq(Edits)
         /\ Extend(T, e) # <<>>
         /\ Len(Extend(T, e)) >= Len(T)
         /\ Extend(T, e)[Len(Extend(T, e))].kind = e.kind
         /\ e.txt # <<>> => Extend(T, e) # T
         /\ T # <<>> /\ T[Len(T)].kind # e.kind => Len(Extend(T, e)) > Len(T)
<1>1. PICK n : n = Len(T)
  OBVIOUS
<1>2. PICK X : X = Extend(T, e)
  OBVIOUS
<1>3. CASE T = <<>>
  <2>1. X = <<e>>
    BY <1>2, <1>3 DEF Extend
  <2> QED
    BY <1>2, <1>3, <2>1
<1>4. CASE T # <<>>
  <2>1. n \in Nat /\ n >= 1 /\ n - 1 \in Nat
    BY <1>1, <1>4
  <2>2. PICK F : F = Front(T)
    OBVIOUS
  <2>3. PICK d : d = T[n]
    OBVIOUS
  <2>4. F \in Seq(Edits) /\ Len(F) = n - 1 /\ d \in Edits
    BY <1>1, <2>1, <2>2, <2>3 DEF Front
  <2>5. X = F \o TryCombine(d, e)
    BY <1>1, <1>2, <1>4, <2>2, <2>3 DEF Extend, Last
  <2>6. CASE TryCombine(d, e) = <<d, e>>
    <3>1. X \in Seq(Edits) /\ Len(X) = n + 1 /\ X[n + 1] = e
      <4>1. F \o <<d, e>> = Append(Append(F, d), e)
        BY <2>4
      <4>2. PICK Y : Y = Append(F, d)
        OBVIOUS
      <4>3. Y \in Seq(Edits) /\ Len(Y) = n
        BY <2>1, <2>4, <4>2
      <4>4. X = Append(Y, e)
        BY <2>5, <2>6, <4>1, <4>2
      <4> QED
        BY <2>1, <4>3, <4>4
    <3> QED
      BY <1>1, <1>2, <2>1, <3>1
  <2>7. CASE TryCombine(d, e) # <<d, e>>
    <3>1. PICK x \in Edits :
            /\ TryCombine(d, e) = <<x>>
            /\ d.kind = e.kind
            /\ x.kind = e.kind
            /\ \/ x.txt = d.txt \o e.txt
               \/ x.txt = e.txt \o d.txt
      BY <2>4, <2>7, TryCombineFacts
    <3>2. X \in Seq(Edits) /\ Len(X) = n /\ X[n] = x
      BY <2>1, <2>4, <2>5, <3>1
    <3>3. e.txt # <<>> => x # d
      <4>1. d.txt \in Seq(Char) /\ e.txt \in Seq(Char)
        BY <2>4, EditFields
      <4>2. e.txt # <<>> => Len(d.txt \o e.txt) > Len(d.txt) /\ Len(e.txt \o d.txt) > Len(d.txt)
        BY <4>1, LongerTxt
      <4>3. Len(d.txt) \in Nat
        BY <4>1
      <4>4. e.txt # <<>> => Len(x.txt) > Len(d.txt)
        BY <3>1, <4>2
      <4> QED
        BY <4>3, <4>4
    <3>4. e.txt # <<>> => X # T
      BY <2>3, <3>2, <3>3
    <3> QED
      BY <1>1, <1>2, <2>1, <2>3, <3>1, <3>2, <3>4
  <2> QED
    BY <2>6, <2>7
<1> QED
  BY <1>3, <1>4

(* The extended transaction does what the transaction and the edit do.      *)
LEMMA ExtendChain ==
  ASSUME OneByte, NEW T \in Seq(Edits), NEW t, NEW v, NEW u \in Seq(Char), NEW e \in GoodEdits,
         Chain(t, T, v), Step(v, e, u)
  PROVE  Chain(t, Extend(T, e), u)
<1>1. t \in Seq(Char) /\ v \in Seq(Char)
  BY ChainTexts
<1>2. Chain(t, Append(T, e), u)
  BY ChainAppend
<1>3. CASE T = <<>>
  <2>1. Extend(T, e) = Append(T, e)
    BY <1>3 DEF Extend
  <2> QED
    BY <1>2, <2>1
<1>4. CASE T # <<>>
  <2>1. PICK F : F = Front(T)
    OBVIOUS
  <2>2. PICK d : d = Last(T)
    OBVIOUS
  <2>3. /\ F \in Seq(Edits) /\ d \in GoodEdits /\ T = Append(F, d)
        /\ \E x \in Seq(Char) : Chain(t, F, x) /\ Step(x, d, v)
    BY <1>4, <2>1, <2>2, ChainLast
  <2>4. PICK x \in Seq(Char) : Chain(t, F, x) /\ Step(x, d, v)
    BY <2>3
  <2>5. Extend(T, e) = F \o TryCombine(d, e)
    BY <1>4, <2>1, <2>2 DEF Extend
  <2>6. CASE TryCombine(d, e) = <<d, e>>
    <3>1. d \in Edits /\ e \in Edits
      BY <2>3 DEF GoodEdits
    <3>2. F \o <<d, e>> = Append(Append(F, d), e)
      BY <2>3, <3>1
    <3> QED
      BY <1>2, <2>3, <2>5, <2>6, <3>2
  <2>7. CASE TryCombine(d, e) # <<d, e>>
    <3>1. PICK y \in GoodEdits : TryCombine(d, e) = <<y>> /\ Step(x, y, u)
      BY <1>1, <2>3, <2>4, <2>7, CombinedStep
    <3>2. Chain(t, Append(F, y), u)
      BY <2>3, <2>4, <3>1, ChainAppend
    <3>3. F \o <<y>> = Append(F, y)
      BY <2>3 DEF GoodEdits
    <3> QED
      BY <2>5, <3>1, <3>2, <3>3
  <2> QED
    BY <2>6, <2>7
<1> QED
  BY <1>3, <1>4

(* A transaction undone: its edits from the last one, each one inverted.    *)
Inverted(T) == [k \in 1..Len(T) |-> IntoUndo(T[Len(T) + 1 - k])]

(* They are edits.                                                          *)
LEMMA InvertedType ==
  ASSUME NEW T \in Seq(Edits)
  PROVE  Inverted(T) \in Seq(Edits) /\ Len(Inverted(T)) = Len(T)
         /\ (T # <<>> => Inverted(T) # <<>>)
<1>1. PICK n : n = Len(T)
  OBVIOUS
<1>2. n \in Nat
  BY <1>1
<1>3. ASSUME NEW k \in 1..n PROVE IntoUndo(T[n + 1 - k]) \in Edits
  <2>1. n + 1 - k \in 1..n
    BY <1>2
  <2>2. T[n + 1 - k] \in Edits
    BY <1>1, <2>1
  <2> QED
    BY <2>2, IntoUndoFacts
<1>4. [k \in 1..n |-> IntoUndo(T[n + 1 - k])] \in [1..n -> Edits]
  BY <1>3
<1>5. Inverted(T) \in [1..n -> Edits]
  BY <1>1, <1>4 DEF Inverted
<1>6. Inverted(T) \in Seq(Edits) /\ Len(Inverted(T)) = n
  BY <1>2, <1>5
<1> QED
  BY <1>1, <1>6

(* They take the transaction back.                                          *)
LEMMA ChainInverted ==
  ASSUME NEW T \in Seq(Edits), NEW t, NEW u, Chain(t, T, u)
  PROVE  Chain(u, Inverted(T), t)
<1>1. PICK n : n = Len(T)
  OBVIOUS
<1>2. n \in Nat
  BY <1>1
<1>3. PICK w \in [0..n -> Seq(Char)] :
        /\ w[0] = t
        /\ w[n] = u
        /\ \A k \in 1..n : T[k] \in GoodEdits /\ Step(w[k - 1], T[k], w[k])
  BY <1>1 DEF Chain
<1> DEFINE x == [k \in 0..n |-> w[n - k]]
<1>4. x \in [0..n -> Seq(Char)] /\ x[0] = u /\ x[n] = t
  BY <1>2, <1>3
<1>5. PICK I : I = Inverted(T)
  OBVIOUS
<1>6. Len(I) = n
  BY <1>1, <1>5, InvertedType
<1>7. ASSUME NEW k \in 1..n PROVE I[k] \in GoodEdits /\ Step(x[k - 1], I[k], x[k])
  <2>1. n + 1 - k \in 1..n /\ (n + 1 - k) - 1 = n - k /\ n - (k - 1) = n + 1 - k
        /\ n - k \in 0..n /\ k - 1 \in 0..n
    BY <1>2
  <2>2. PICK j : j = n + 1 - k
    OBVIOUS
  <2>3. j \in 1..n /\ j - 1 = n - k /\ j - 1 \in 0..n /\ j \in 0..n
    BY <2>1, <2>2
  <2>4. x[k - 1] = w[j] /\ x[k] = w[j - 1]
    BY <2>1, <2>2, <2>3
  <2>5. I[k] = IntoUndo(T[j])
    BY <1>1, <1>5, <2>2 DEF Inverted
  <2>6. T[j] \in GoodEdits /\ Step(w[j - 1], T[j], w[j]) /\ w[j] \in Seq(Char) /\ w[j - 1] \in Seq(Char)
    BY <1>3, <2>3
  <2> HIDE DEF x
  <2>7. IntoUndo(T[j]) \in GoodEdits /\ Step(w[j], IntoUndo(T[j]), w[j - 1])
    BY <2>6, StepInverse
  <2> QED
    BY <2>4, <2>5, <2>7
<1> HIDE DEF x
<1>8. Chain(u, I, t)
  BY <1>4, <1>6, <1>7 DEF Chain
<1> QED
  BY <1>5, <1>8

----------------------------------------------------------------------------
(* What the transactions of a log do, one after the other: from the text t  *)
(* to u ...                                                                 *)

LogChain(t, L, u) ==
    \E m \in [0..Len(L) -> Seq(Char)] :
        /\ m[0] = t
        /\ m[Len(L)] = u
        /\ \A k \in 1..Len(L) : Chain(m[k - 1], L[k], m[k])

(* ... and what the undone ones do, which are redone from the last one.     *)
RedoChain(t, L, u) ==
    \E m \in [0..Len(L) -> Seq(Char)] :
        /\ m[0] = u
        /\ m[Len(L)] = t
        /\ \A k \in 1..Len(L) : L[k] # <<>> /\ Chain(m[k], L[k], m[k - 1])

(* No transaction does nothing.                                             *)
LEMMA LogChainEmpty ==
  ASSUME NEW t \in Seq(Char), NEW u
  PROVE  (LogChain(t, <<>>, u) <=> t = u) /\ (RedoChain(t, <<>>, u) <=> t = u)
<1>1. ASSUME LogChain(t, <<>>, u) \/ RedoChain(t, <<>>, u) PROVE t = u
  BY <1>1 DEF LogChain, RedoChain
<1>2. ASSUME t = u PROVE LogChain(t, <<>>, u) /\ RedoChain(t, <<>>, u)
  <2> DEFINE w == [k \in 0..0 |-> t]
  <2>1. w \in [0..0 -> Seq(Char)] /\ w[0] = t
    OBVIOUS
  <2>2. Len(<<>>) = 0
    OBVIOUS
  <2>3. \A k \in 1..Len(<<>>) : FALSE
    BY <2>2
  <2> HIDE DEF w
  <2> QED
    BY <1>2, <2>1, <2>2, <2>3 DEF LogChain, RedoChain
<1> QED
  BY <1>1, <1>2

(* Transactions lead from a text to a text.                                 *)
LEMMA LogChainTexts ==
  ASSUME NEW L \in Seq(Seq(Edits)), NEW t, NEW u
  PROVE  /\ LogChain(t, L, u) => t \in Seq(Char) /\ u \in Seq(Char)
         /\ RedoChain(t, L, u) => t \in Seq(Char) /\ u \in Seq(Char)
<1>1. 0 \in 0..Len(L) /\ Len(L) \in 0..Len(L)
  OBVIOUS
<1>2. LogChain(t, L, u) => t \in Seq(Char) /\ u \in Seq(Char)
  BY <1>1 DEF LogChain
<1>3. RedoChain(t, L, u) => t \in Seq(Char) /\ u \in Seq(Char)
  BY <1>1 DEF RedoChain
<1> QED
  BY <1>2, <1>3

(* A sequence and one element more.                                         *)
LEMMA AppendFacts ==
  ASSUME NEW L \in Seq(Seq(Edits)), NEW T \in Seq(Edits), NEW U, U = Append(L, T)
  PROVE  /\ U \in Seq(Seq(Edits)) /\ Len(U) = Len(L) + 1 /\ U # <<>>
         /\ U[Len(L) + 1] = T /\ \A k \in 1..Len(L) : U[k] = L[k]
OBVIOUS

(* A sequence without its last element.                                     *)
LEMMA FrontFacts ==
  ASSUME NEW L \in Seq(Seq(Edits)), L # <<>>
  PROVE  /\ Front(L) \in Seq(Seq(Edits)) /\ Len(Front(L)) = Len(L) - 1
         /\ Last(L) = L[Len(L)] /\ Last(L) \in Seq(Edits)
         /\ \A k \in 1..Len(L) - 1 : Front(L)[k] = L[k]
BY SMTT(30) DEF Front, Last

(* One transaction more.                                                    *)
LEMMA LogChainAppend ==
  ASSUME NEW L \in Seq(Seq(Edits)), NEW T \in Seq(Edits), NEW t, NEW v, NEW u,
         LogChain(t, L, v), Chain(v, T, u)
  PROVE  LogChain(t, Append(L, T), u)
<1>1. PICK n : n = Len(L)
  OBVIOUS
<1>2. PICK w \in [0..n -> Seq(Char)] :
        /\ w[0] = t
        /\ w[n] = v
        /\ \A k \in 1..n : Chain(w[k - 1], L[k], w[k])
  BY <1>1 DEF LogChain
<1>3. PICK U : U = Append(L, T)
  OBVIOUS
<1>4. n \in Nat /\ Len(U) = n + 1 /\ U[n + 1] = T /\ \A k \in 1..n : U[k] = L[k]
  BY <1>1, <1>3, AppendFacts
<1>5. u \in Seq(Char)
  BY ChainTexts
<1> DEFINE x == [k \in 0..n+1 |-> IF k <= n THEN w[k] ELSE u]
<1>6. x \in [0..n+1 -> Seq(Char)] /\ x[0] = t /\ x[n] = v /\ x[n + 1] = u
  BY <1>2, <1>4, <1>5
<1>7. ASSUME NEW k \in 1..n PROVE x[k] = w[k] /\ x[k - 1] = w[k - 1]
  BY <1>4
<1> HIDE DEF x
<1>8. ASSUME NEW k \in 1..n+1 PROVE Chain(x[k - 1], U[k], x[k])
  <2>1. CASE k \in 1..n
    BY <1>2, <1>4, <1>7, <2>1
  <2>2. CASE k = n + 1
    BY <1>4, <1>6, <2>2
  <2> QED
    BY <1>4, <2>1, <2>2
<1>9. LogChain(t, U, u)
  BY <1>4, <1>6, <1>8 DEF LogChain
<1> QED
  BY <1>3, <1>9

(* One undone transaction more.                                             *)
LEMMA RedoChainAppend ==
  ASSUME NEW L \in Seq(Seq(Edits)), NEW T \in Seq(Edits), T # <<>>, NEW t, NEW v, NEW u,
         RedoChain(v, L, u), Chain(t, T, v)
  PROVE  RedoChain(t, Append(L, T), u)
<1>1. PICK n : n = Len(L)
  OBVIOUS
<1>2. PICK w \in [0..n -> Seq(Char)] :
        /\ w[0] = u
        /\ w[n] = v
        /\ \A k \in 1..n : L[k] # <<>> /\ Chain(w[k], L[k], w[k - 1])
  BY <1>1 DEF RedoChain
<1>3. PICK U : U = Append(L, T)
  OBVIOUS
<1>4. n \in Nat /\ Len(U) = n + 1 /\ U[n + 1] = T /\ \A k \in 1..n : U[k] = L[k]
  BY <1>1, <1>3, AppendFacts
<1>5. t \in Seq(Char)
  BY ChainTexts
<1> DEFINE x == [k \in 0..n+1 |-> IF k <= n THEN w[k] ELSE t]
<1>6. x \in [0..n+1 -> Seq(Char)] /\ x[0] = u /\ x[n] = v /\ x[n + 1] = t
  BY <1>2, <1>4, <1>5
<1>7. ASSUME NEW k \in 1..n PROVE x[k] = w[k] /\ x[k - 1] = w[k - 1]
  BY <1>4
<1> HIDE DEF x
<1>8. ASSUME NEW k \in 1..n+1 PROVE U[k] # <<>> /\ Chain(x[k], U[k], x[k - 1])
  <2>1. CASE k \in 1..n
    BY <1>2, <1>4, <1>7, <2>1
  <2>2. CASE k = n + 1
    BY <1>4, <1>6, <2>2
  <2> QED
    BY <1>4, <2>1, <2>2
<1>9. RedoChain(t, U, u)
  BY <1>4, <1>6, <1>8 DEF RedoChain
<1> QED
  BY <1>3, <1>9

(* The transaction to redo first.                                           *)
LEMMA RedoChainLast ==
  ASSUME NEW L \in Seq(Seq(Edits)), L # <<>>, NEW t, NEW u, RedoChain(t, L, u)
  PROVE  /\ Last(L) # <<>>
         /\ \E v \in Seq(Char) : Chain(t, Last(L), v) /\ RedoChain(v, Front(L), u)
<1>1. PICK n : n = Len(L)
  OBVIOUS
<1>2. PICK w \in [0..n -> Seq(Char)] :
        /\ w[0] = u
        /\ w[n] = t
        /\ \A k \in 1..n : L[k] # <<>> /\ Chain(w[k], L[k], w[k - 1])
  BY <1>1 DEF RedoChain
<1>3. n \in Nat /\ n >= 1 /\ n \in 1..n /\ n - 1 \in Nat /\ n - 1 \in 0..n
  BY <1>1
<1>4. PICK U : U = Front(L)
  OBVIOUS
<1>5. Len(U) = n - 1 /\ Last(L) = L[n] /\ \A k \in 1..n-1 : U[k] = L[k]
  BY <1>1, <1>4, FrontFacts
<1>6. L[n] # <<>> /\ Chain(t, L[n], w[n - 1]) /\ w[n - 1] \in Seq(Char)
  BY <1>2, <1>3
<1> DEFINE x == [k \in 0..n-1 |-> w[k]]
<1>7. x \in [0..n-1 -> Seq(Char)] /\ x[0] = u /\ x[n - 1] = w[n - 1]
  BY <1>2, <1>3
<1>8. ASSUME NEW k \in 1..n-1 PROVE U[k] # <<>> /\ Chain(x[k], U[k], x[k - 1])
  <2>1. k \in 1..n /\ x[k] = w[k] /\ x[k - 1] = w[k - 1] /\ U[k] = L[k]
    BY <1>3, <1>5
  <2> QED
    BY <1>2, <2>1
<1> HIDE DEF x
<1>9. RedoChain(w[n - 1], U, u)
  BY <1>5, <1>7, <1>8 DEF RedoChain
<1> QED
  BY <1>4, <1>5, <1>6, <1>9

(* Transactions without edits at the end of a log do nothing.               *)
LEMMA LogChainPrefix ==
  ASSUME NEW L \in Seq(Seq(Edits)), NEW t, NEW u, LogChain(t, L, u),
         NEW i \in 0..Len(L), \A k \in i + 1..Len(L) : L[k] = <<>>
  PROVE  /\ i = 0 => t = u
         /\ i # 0 => /\ SubSeq(L, 1, i - 1) \in Seq(Seq(Edits))
                     /\ Len(SubSeq(L, 1, i - 1)) = i - 1
                     /\ \E v \in Seq(Char) :
                           LogChain(t, SubSeq(L, 1, i - 1), v) /\ Chain(v, L[i], u)
<1>1. PICK n : n = Len(L)
  OBVIOUS
<1>2. PICK w \in [0..n -> Seq(Char)] :
        /\ w[0] = t
        /\ w[n] = u
        /\ \A k \in 1..n : Chain(w[k - 1], L[k], w[k])
  BY <1>1 DEF LogChain
<1>3. n \in Nat /\ i \in 0..n
  BY <1>1
<1> DEFINE S == {j \in 0..n - i : w[i + j] = w[i]}
<1>4. 0 \in S
  BY <1>3
<1>5. ASSUME NEW j \in 0..(n - i) - 1, j \in S PROVE j + 1 \in S
  <2>1. PICK k : k = i + j + 1
    OBVIOUS
  <2>2. k \in i + 1..n /\ k \in 1..n /\ k - 1 \in 0..n /\ k - 1 = i + j /\ k = i + (j + 1)
    BY <1>3, <2>1
  <2>3. L[k] = <<>> /\ Chain(w[k - 1], L[k], w[k]) /\ w[k - 1] \in Seq(Char)
    <3>1. L[k] = <<>>
      BY ONLY <1>1, <2>2, \A q \in i + 1..Len(L) : L[q] = <<>>
    <3>2. Chain(w[k - 1], L[k], w[k]) /\ w[k - 1] \in Seq(Char)
      BY ONLY <1>2, <2>2
    <3> QED
      BY <3>1, <3>2
  <2>4. w[k - 1] = w[k]
    BY <2>3, ChainEmpty
  <2>5. w[i + j] = w[i]
    BY <1>5
  <2>6. w[i + (j + 1)] = w[i]
    BY <2>2, <2>4, <2>5
  <2>7. j + 1 \in 0..n - i
    BY <1>3
  <2> QED
    BY <2>6, <2>7
<1>6. 0..n - i \subseteq S
  <2>1. n - i \in Nat
    BY <1>3
  <2> HIDE DEF S
  <2> QED
    BY <1>4, <1>5, <2>1, BoundedInduction
<1>7. w[i] = u
  <2>1. n - i \in 0..n - i /\ i + (n - i) = n
    BY <1>3
  <2>2. w[i + (n - i)] = w[i]
    BY <1>6, <2>1
  <2> QED
    BY <1>2, <2>1, <2>2
<1>8. i = 0 => t = u
  BY <1>2, <1>7
<1>9. ASSUME i # 0
      PROVE  /\ SubSeq(L, 1, i - 1) \in Seq(Seq(Edits))
             /\ Len(SubSeq(L, 1, i - 1)) = i - 1
             /\ \E v \in Seq(Char) :
                   LogChain(t, SubSeq(L, 1, i - 1), v) /\ Chain(v, L[i], u)
  <2>1. i \in 1..n /\ i - 1 \in Nat /\ i - 1 \in 0..n
    BY <1>3, <1>9
  <2>2. PICK U : U = SubSeq(L, 1, i - 1)
    OBVIOUS
  <2>3. U \in Seq(Seq(Edits)) /\ Len(U) = i - 1 /\ \A k \in 1..i - 1 : U[k] = L[k]
    BY <1>1, <2>1, <2>2
  <2>4. Chain(w[i - 1], L[i], u) /\ w[i - 1] \in Seq(Char)
    BY <1>2, <1>7, <2>1
  <2>j. PICK j : j = i - 1
    OBVIOUS
  <2>k. j \in Nat /\ j <= n
    BY <2>1, <2>j
  <2> DEFINE x == [k \in 0..j |-> w[k]]
  <2>5. x \in [0..j -> Seq(Char)] /\ x[0] = t /\ x[j] = w[j]
    BY ONLY <1>2, <1>3, <2>k
  <2>6. ASSUME NEW k \in 1..j PROVE Chain(x[k - 1], U[k], x[k])
    <3>1. k \in 1..n /\ k \in 0..j /\ k - 1 \in 0..j
      BY <1>3, <2>k
    <3>2. x[k] = w[k] /\ x[k - 1] = w[k - 1] /\ U[k] = L[k]
      BY <2>3, <2>j, <3>1
    <3> QED
      BY <1>2, <3>1, <3>2
  <2> HIDE DEF x
  <2>7. LogChain(t, U, w[j])
    <3>1. Len(U) = j
      BY <2>3, <2>j
    <3> QED
      BY ONLY <2>5, <2>6, <3>1 DEF LogChain
  <2> QED
    BY <2>2, <2>3, <2>4, <2>7, <2>j
<1> QED
  BY <1>8, <1>9

----------------------------------------------------------------------------
(* The operations on the log.                                               *)

(* Each field of a log has its type.                                        *)
LEMMA LogFields ==
  ASSUME NEW l \in Logs
  PROVE  l.edits \in Seq(Seq(Edits)) /\ l.undone \in Seq(Seq(Edits)) /\ l.paused \in BOOLEAN
BY DEF Logs

(* the transactions of the log L once e was pushed *)
Pushed(L, e) == IF L = <<>> THEN << <<e>> >> ELSE Append(Front(L), Extend(Last(L), e))

(* The last transaction grows, and the log changes.                         *)
LEMMA PushedFacts ==
  ASSUME NEW L \in Seq(Seq(Edits)), NEW e \in Edits
  PROVE  /\ Pushed(L, e) \in Seq(Seq(Edits))
         /\ Pushed(L, e) # <<>>
         /\ Last(Pushed(L, e)) \in Seq(Edits)
         /\ Last(Pushed(L, e)) # <<>>
         /\ Last(Pushed(L, e))[Len(Last(Pushed(L, e)))].kind = e.kind
         /\ L # <<>> => Len(Last(Pushed(L, e))) >= Len(Last(L))
         /\ L # <<>> /\ Last(L) # <<>> /\ Last(L)[Len(Last(L))].kind # e.kind
            => Len(Last(Pushed(L, e))) > Len(Last(L))
         /\ e.txt # <<>> => Pushed(L, e) # L
<1>1. PICK P : P = Pushed(L, e)
  OBVIOUS
<1>2. CASE L = <<>>
  <2>1. P = << <<e>> >>
    BY <1>1, <1>2 DEF Pushed
  <2>2. PICK T : T = <<e>>
    OBVIOUS
  <2>3. T \in Seq(Edits) /\ Len(T) = 1 /\ T[1] = e
    BY <2>2
  <2>4. P = <<T>>
    BY <2>1, <2>2
  <2>5. P \in Seq(Seq(Edits)) /\ P # <<>> /\ Last(P) = T
    BY <2>3, <2>4 DEF Last
  <2>6. T # <<>> /\ T[Len(T)].kind = e.kind
    BY <2>3
  <2> QED
    BY ONLY <1>1, <1>2, <2>3, <2>5, <2>6
<1>3. CASE L # <<>>
  <2>1. PICK F : F = Front(L)
    OBVIOUS
  <2>2. PICK T : T = Last(L)
    OBVIOUS
  <2>3. PICK X : X = Extend(T, e)
    OBVIOUS
  <2>4. F \in Seq(Seq(Edits)) /\ T \in Seq(Edits)
    BY <1>3, <2>1, <2>2, FrontFacts
  <2>5. /\ X \in Seq(Edits) /\ X # <<>> /\ Len(X) >= Len(T)
        /\ X[Len(X)].kind = e.kind
        /\ e.txt # <<>> => X # T
        /\ T # <<>> /\ T[Len(T)].kind # e.kind => Len(X) > Len(T)
    BY <2>3, <2>4, ExtendFacts
  <2>6. P = Append(F, X)
    BY <1>1, <1>3, <2>1, <2>2, <2>3 DEF Pushed
  <2>7. P \in Seq(Seq(Edits)) /\ P # <<>> /\ P[Len(P)] = X
    <3>1. /\ P \in Seq(Seq(Edits)) /\ Len(P) = Len(F) + 1 /\ P # <<>>
          /\ P[Len(F) + 1] = X
      BY <2>4, <2>5, <2>6, AppendFacts, ZenonT(30)
    <3> QED
      BY <3>1
  <2>8. Last(P) = X
    BY <2>7 DEF Last
  <2>9. e.txt # <<>> => P # L
    BY <2>2, <2>5, <2>8
  <2> QED
    BY <1>1, <2>2, <2>5, <2>7, <2>8, <2>9
<1> QED
  BY <1>2, <1>3

(* Two edits of different kinds never leave the log as it was.              *)
LEMMA PushedTwice ==
  ASSUME NEW L \in Seq(Seq(Edits)), NEW d \in Edits, NEW e \in Edits, d.kind # e.kind
  PROVE  Pushed(Pushed(L, d), e) # L
<1>1. PICK P : P = Pushed(L, d)
  OBVIOUS
<1>2. /\ P \in Seq(Seq(Edits)) /\ P # <<>> /\ Last(P) \in Seq(Edits) /\ Last(P) # <<>>
      /\ Last(P)[Len(Last(P))].kind = d.kind
      /\ L # <<>> => Len(Last(P)) >= Len(Last(L))
  BY <1>1, PushedFacts
<1>3. PICK Q : Q = Pushed(P, e)
  OBVIOUS
<1>4. Q # <<>> /\ Last(Q) \in Seq(Edits) /\ Len(Last(Q)) > Len(Last(P))
  BY <1>2, <1>3, PushedFacts
<1>5. CASE L = <<>>
  BY <1>1, <1>3, <1>4, <1>5
<1>6. CASE L # <<>>
  <2>1. Last(L) \in Seq(Edits)
    BY <1>6, FrontFacts
  <2>2. Len(Last(L)) \in Nat /\ Len(Last(P)) \in Nat /\ Len(Last(Q)) \in Nat
    BY <1>2, <1>4, <2>1
  <2>3. Len(Last(Q)) # Len(Last(L))
    BY <1>2, <1>4, <1>6, <2>2
  <2> QED
    BY <1>1, <1>3, <2>3
<1> QED
  BY <1>5, <1>6

(* The log with an edit pushed does what the log and the edit do.           *)
LEMMA PushedChain ==
  ASSUME OneByte, NEW L \in Seq(Seq(Edits)), NEW t, NEW v, NEW u \in Seq(Char),
         NEW e \in GoodEdits, LogChain(t, L, v), Step(v, e, u)
  PROVE  LogChain(t, Pushed(L, e), u)
<1>1. t \in Seq(Char) /\ v \in Seq(Char)
  BY LogChainTexts
<1>2. CASE L = <<>>
  <2>1. t = v
    BY <1>1, <1>2, LogChainEmpty
  <2>2. PICK N, T : N = <<>> /\ T = <<e>>
    OBVIOUS
  <2>3. N \in Seq(Edits) /\ T = Append(N, e) /\ T \in Seq(Edits)
    BY <2>2 DEF GoodEdits
  <2>4. Chain(v, N, v)
    BY <1>1, <2>2, ChainEmpty
  <2>5. Chain(v, T, u)
    BY <2>3, <2>4, ChainAppend
  <2>6. LogChain(t, Append(L, T), u)
    BY <2>3, <2>5, LogChainAppend
  <2>7. Pushed(L, e) = Append(L, T)
    BY <1>2, <2>2 DEF Pushed
  <2> QED
    BY <2>6, <2>7
<1>3. CASE L # <<>>
  <2>1. PICK n : n = Len(L)
    OBVIOUS
  <2>2. n \in Nat /\ n # 0 /\ n \in 0..Len(L) /\ \A k \in n + 1..Len(L) : L[k] = <<>>
    BY <1>3, <2>1
  <2>3. PICK F : F = Front(L)
    OBVIOUS
  <2>4. PICK T : T = Last(L)
    OBVIOUS
  <2>5. F = SubSeq(L, 1, n - 1) /\ T = L[n] /\ F \in Seq(Seq(Edits)) /\ T \in Seq(Edits)
    BY <1>3, <2>1, <2>3, <2>4, FrontFacts DEF Front
  <2>6. PICK x \in Seq(Char) : LogChain(t, SubSeq(L, 1, n - 1), x) /\ Chain(x, L[n], v)
    BY <2>2, LogChainPrefix
  <2>7. LogChain(t, F, x) /\ Chain(x, T, v)
    BY <2>5, <2>6
  <2>8. PICK X : X = Extend(T, e)
    OBVIOUS
  <2>9. Chain(x, X, u)
    BY <2>5, <2>7, <2>8, ExtendChain
  <2>10. X \in Seq(Edits)
    BY <2>5, <2>8, ExtendFacts DEF GoodEdits
  <2>11. LogChain(t, Append(F, X), u)
    BY <2>5, <2>7, <2>9, <2>10, LogChainAppend
  <2> QED
    BY <1>3, <2>3, <2>4, <2>8, <2>11 DEF Pushed
<1> QED
  BY <1>2, <1>3

(* Recording an edit pushes it, and forgets what was undone, unless the log *)
(* is paused.                                                               *)
LEMMA RecordFacts ==
  ASSUME NEW l \in Logs, NEW e \in Edits, NEW m, m = LogRecord(l, e)
  PROVE  /\ m \in Logs /\ m.paused = l.paused
         /\ l.paused => m = l
         /\ ~l.paused => m.edits = Pushed(l.edits, e) /\ m.undone = <<>>
<1>1. l.edits \in Seq(Seq(Edits)) /\ l.paused \in BOOLEAN
  BY LogFields
<1>2. CASE l.paused
  BY <1>2 DEF LogRecord
<1>3. CASE ~l.paused
  <2>1. m = [l EXCEPT !.undone = <<>>, !.edits = Pushed(l.edits, e)]
    BY <1>3 DEF LogRecord, LogPush, Pushed
  <2>2. Pushed(l.edits, e) \in Seq(Seq(Edits)) /\ <<>> \in Seq(Seq(Edits))
    BY <1>1, PushedFacts
  <2> QED
    BY <1>3, <2>1, <2>2 DEF Logs
<1> QED
  BY <1>1, <1>2, <1>3

(* A new transaction is empty.                                              *)
LEMMA NewTransactionFacts ==
  ASSUME NEW l \in Logs, NEW m, m = NewTransaction(l)
  PROVE  /\ m \in Logs /\ m.paused = l.paused /\ m.undone = l.undone
         /\ \/ m.edits = l.edits
            \/ m.edits = Append(l.edits, <<>>)
<1>1. l.edits \in Seq(Seq(Edits)) /\ Append(l.edits, <<>>) \in Seq(Seq(Edits))
  BY LogFields
<1>2. m = l \/ m = [l EXCEPT !.edits = Append(l.edits, <<>>)]
  BY DEF NewTransaction
<1> QED
  BY <1>1, <1>2 DEF Logs

(* Where popping the transactions without edits stops.                      *)
LEMMA LastNonEmptyFacts ==
  ASSUME NEW L \in Seq(Seq(Edits)), NEW i, i = LastNonEmpty(L)
  PROVE  /\ i \in 0..Len(L)
         /\ i # 0 => L[i] # <<>>
         /\ \A k \in i + 1..Len(L) : L[k] = <<>>
<1> DEFINE I == {k \in 1..Len(L) : L[k] # <<>>}
<1>1. i = IF I # {} THEN Max(I) ELSE 0
  BY DEF LastNonEmpty, SelectLastInSeq
<1>2. CASE I = {}
  BY <1>1, <1>2
<1>3. CASE I # {}
  <2>1. I \subseteq 0..Len(L) /\ Len(L) \in Nat
    OBVIOUS
  <2>2. \E m \in I : \A k \in I : k <= m
    <3> HIDE DEF I
    <3> QED
      BY <1>3, <2>1, LargestExists
  <2>3. \A k \in I : k \in Int
    OBVIOUS
  <2>4. \E m \in I : \A k \in I : m >= k
    BY <2>2, <2>3
  <2>5. i \in I /\ \A k \in I : i >= k
    <3> HIDE DEF I
    <3>1. i = Max(I)
      BY <1>1, <1>3
    <3> QED
      BY <2>4, <3>1 DEF Max
  <2> QED
    BY <2>5
<1> QED
  BY <1>2, <1>3
=============================================================================
