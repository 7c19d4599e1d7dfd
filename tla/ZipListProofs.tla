---------------------------- MODULE ZipListProofs ----------------------------
(***************************************************************************)
(* ZipList implements FocusList, at every length of the list and for every *)
(* set of elements.  A state is z, two halves around a focused element;    *)
(* the list it stands for is Flatten(z), and the focus is at Len(z.up) + 1 *)
(* (the mapping ImplementsFocusList of ZipListOps).  For each operation a  *)
(* lemma says what it does to that list; these are then the steps of       *)
(* FocusList.                                                              *)
(*                                                                         *)
(* remove_where looks for its element in "up", then in "down", then at the *)
(* focus, and takes every one that matches out of a half: FocusList        *)
(* takes one.  So the refinement holds for lists without duplicates, which *)
(* is half of the invariant Inv.                                           *)
(*                                                                         *)
(* First come the lists, as an algebra: what Reverse, InsertAt, RemoveAt,  *)
(* Kept and \o do to lists that are put together from parts.  Each law is  *)
(* shown of sequences, element by element; then Lists, Nil, One and Cat    *)
(* stand for the sequences, and the proofs about the operations of ZipList *)
(* need no element any more.  What is true of every list is shown by       *)
(* induction over lists (ListInduction), stated with sets: a set with Nil  *)
(* in it, and with every list also those that are longer by an element,    *)
(* has all lists in it.                                                    *)
(***************************************************************************)
EXTENDS ZipListOps, DataInduction, SequenceTheorems, TLAPS

-----------------------------------------------------------------------------
(* Sequences, element by element.                                           *)

(* Two sequences with the same elements are equal.                          *)
LEMMA SameSeq ==
  ASSUME NEW V, NEW s \in Seq(V), NEW t \in Seq(V), Len(s) = Len(t),
         \A i \in 1..Len(s) : s[i] = t[i]
  PROVE  s = t
<1>1. PICK n : n = Len(s)
  OBVIOUS
<1>2. s \in [1..n -> V] /\ t \in [1..n -> V]
  BY <1>1
<1>3. \A i \in 1..n : s[i] = t[i]
  BY <1>1
<1>4. s = [i \in 1..n |-> s[i]] /\ t = [i \in 1..n |-> t[i]]
  BY ONLY <1>2
<1> QED
  BY ONLY <1>3, <1>4

(* One after the other.                                                     *)
LEMMA CatFacts ==
  ASSUME NEW V, NEW s \in Seq(V), NEW t \in Seq(V)
  PROVE  /\ s \o t \in Seq(V) /\ Len(s \o t) = Len(s) + Len(t)
         /\ \A i \in 1..Len(s) : (s \o t)[i] = s[i]
         /\ \A i \in 1..Len(t) : (s \o t)[Len(s) + i] = t[i]
<1>1. s \o t \in Seq(V) /\ Len(s \o t) = Len(s) + Len(t)
  OBVIOUS
<1>2. ASSUME NEW i \in 1..Len(t) PROVE (s \o t)[Len(s) + i] = t[i]
  <2>1. Len(s) + i \in 1..Len(s) + Len(t) /\ ~(Len(s) + i <= Len(s)) /\ Len(s) + i - Len(s) = i
    OBVIOUS
  <2> QED
    BY <2>1
<1>3. \A i \in 1..Len(s) : (s \o t)[i] = s[i]
  OBVIOUS
<1> QED
  BY <1>1, <1>2, <1>3

(* An element before a sequence.                                            *)
LEMMA ConsFacts ==
  ASSUME NEW V, NEW s \in Seq(V), NEW e \in V
  PROVE  /\ <<e>> \o s \in Seq(V) /\ Len(<<e>> \o s) = Len(s) + 1 /\ (<<e>> \o s)[1] = e
         /\ \A i \in 1..Len(s) : (<<e>> \o s)[i + 1] = s[i]
<1>1. <<e>> \in Seq(V) /\ Len(<<e>>) = 1 /\ <<e>>[1] = e
  OBVIOUS
<1>2. PICK o : o = <<e>>
  OBVIOUS
<1>3. /\ o \o s \in Seq(V) /\ Len(o \o s) = 1 + Len(s) /\ (o \o s)[1] = e
      /\ \A i \in 1..Len(s) : (o \o s)[1 + i] = s[i]
  BY <1>1, <1>2, CatFacts
<1>4. \A i \in 1..Len(s) : 1 + i = i + 1
  OBVIOUS
<1> QED
  BY <1>2, <1>3, <1>4

(* An element behind a sequence.                                            *)
LEMMA SnocFacts ==
  ASSUME NEW V, NEW s \in Seq(V), NEW e \in V
  PROVE  /\ Append(s, e) \in Seq(V) /\ Len(Append(s, e)) = Len(s) + 1
         /\ Append(s, e)[Len(s) + 1] = e
         /\ \A i \in 1..Len(s) : Append(s, e)[i] = s[i]
OBVIOUS

(* A sequence without its first element.                                    *)
LEMMA TailFacts ==
  ASSUME NEW V, NEW s \in Seq(V), s # <<>>
  PROVE  /\ Tail(s) \in Seq(V) /\ Len(Tail(s)) = Len(s) - 1 /\ Len(s) \in Nat \ {0}
         /\ Head(s) = s[1] /\ Head(s) \in V
         /\ \A i \in 1..Len(s) - 1 : Tail(s)[i] = s[i + 1]
OBVIOUS

(* A sequence without its last element.                                     *)
LEMMA FrontFacts ==
  ASSUME NEW V, NEW s \in Seq(V), s # <<>>
  PROVE  /\ Front(s) \in Seq(V) /\ Len(Front(s)) = Len(s) - 1 /\ Len(s) \in Nat \ {0}
         /\ Last(s) = s[Len(s)] /\ Last(s) \in V
         /\ \A i \in 1..Len(s) - 1 : Front(s)[i] = s[i]
<1>1. Len(s) \in Nat \ {0} /\ Last(s) = s[Len(s)] /\ Last(s) \in V
  BY DEF Last
<1>2. PICK n \in Nat : n + 1 = Len(s)
  BY <1>1
<1>3. Front(s) = SubSeq(s, 1, n)
  BY <1>2 DEF Front
<1>4. Front(s) \in Seq(V) /\ Len(Front(s)) = n /\ \A i \in 1..n : Front(s)[i] = s[i]
  BY <1>2, <1>3
<1> QED
  BY <1>1, <1>2, <1>4

(* A sequence backwards.                                                    *)
LEMMA ReverseFacts ==
  ASSUME NEW V, NEW s \in Seq(V)
  PROVE  /\ Reverse(s) \in Seq(V) /\ Len(Reverse(s)) = Len(s)
         /\ \A i \in 1..Len(s) : Reverse(s)[i] = s[Len(s) + 1 - i]
<1>1. PICK n \in Nat : n = Len(s)
  OBVIOUS
<1>2. Reverse(s) = [i \in 1..n |-> s[(n - i) + 1]]
  BY <1>1 DEF Reverse
<1>3. \A i \in 1..n : (n - i) + 1 \in 1..n /\ (n - i) + 1 = n + 1 - i
  OBVIOUS
<1>4. \A i \in 1..n : s[(n - i) + 1] \in V
  BY <1>1, <1>3
<1>5. Reverse(s) \in [1..n -> V]
  BY <1>2, <1>4
<1>6. Reverse(s) \in Seq(V) /\ Len(Reverse(s)) = n
  BY <1>5
<1>7. \A i \in 1..n : Reverse(s)[i] = s[n + 1 - i]
  BY <1>2, <1>3
<1> QED
  BY <1>1, <1>6, <1>7

(* A part of a sequence.                                                    *)
LEMMA PartFacts ==
  ASSUME NEW V, NEW s \in Seq(V), NEW a \in Nat \ {0}, NEW b \in Nat, b <= Len(s), a <= b + 1
  PROVE  /\ SubSeq(s, a, b) \in Seq(V) /\ Len(SubSeq(s, a, b)) = b + 1 - a
         /\ \A i \in 1..b + 1 - a : SubSeq(s, a, b)[i] = s[a + i - 1]
OBVIOUS

(* Putting sequences together is associative, ...                           *)
LEMMA CatAssoc ==
  ASSUME NEW V, NEW s \in Seq(V), NEW t \in Seq(V), NEW u \in Seq(V)
  PROVE  (s \o t) \o u = s \o (t \o u)
OBVIOUS

(* ... and the empty sequence adds nothing.                                 *)
LEMMA CatEmpty ==
  ASSUME NEW V, NEW s \in Seq(V)
  PROVE  s \o <<>> = s /\ <<>> \o s = s
OBVIOUS

(* The sequence of one element.                                             *)
LEMMA OneFacts ==
  ASSUME NEW V, NEW e \in V
  PROVE  <<e>> \in Seq(V) /\ Len(<<e>>) = 1 /\ <<e>>[1] = e /\ <<e>> # <<>> /\ ToSet(<<e>>) = {e}
BY DEF ToSet

(* A sequence is its first element and the others, ...                      *)
LEMMA HeadTail ==
  ASSUME NEW V, NEW s \in Seq(V), s # <<>>
  PROVE  /\ Head(s) \in V /\ Tail(s) \in Seq(V) /\ s = <<Head(s)>> \o Tail(s)
         /\ Len(s) = Len(Tail(s)) + 1
<1>1. PICK h \in V, t \in Seq(V) : h = Head(s) /\ t = Tail(s)
  BY TailFacts
<1>2. PICK n \in Nat : n + 1 = Len(s)
  BY TailFacts
<1>3. Len(t) = n /\ h = s[1] /\ \A i \in 1..n : t[i] = s[i + 1]
  <2>1. /\ Len(t) = Len(s) - 1 /\ h = s[1]
        /\ \A i \in 1..Len(s) - 1 : t[i] = s[i + 1]
    BY ONLY <1>1, TailFacts, s \in Seq(V), s # <<>>
  <2>2. Len(s) - 1 = n
    BY ONLY <1>2, n \in Nat
  <2> QED
    BY ONLY <2>1, <2>2
<1>4. PICK r : r = <<h>> \o t
  OBVIOUS
<1>5. r \in Seq(V) /\ Len(r) = n + 1 /\ r[1] = h /\ \A i \in 1..n : r[i + 1] = t[i]
  BY <1>3, <1>4, ConsFacts
<1>6. ASSUME NEW i \in 1..n + 1 PROVE r[i] = s[i]
  <2>1. CASE i = 1
    BY <1>3, <1>5, <2>1
  <2>2. CASE i # 1
    <3>1. PICK k \in Int : k = i - 1
      OBVIOUS
    <3>2. k \in 1..n /\ k + 1 = i
      BY <2>2, <3>1
    <3> QED
      BY <1>3, <1>5, <3>2
  <2> QED
    BY <2>1, <2>2
<1>7. r = s
  BY ONLY <1>2, <1>5, <1>6, SameSeq, s \in Seq(V)
<1> QED
  BY <1>1, <1>2, <1>3, <1>4, <1>7

(* ... or all but the last and the last.                                    *)
LEMMA FrontLast ==
  ASSUME NEW V, NEW s \in Seq(V), s # <<>>
  PROVE  /\ Last(s) \in V /\ Front(s) \in Seq(V) /\ s = Front(s) \o <<Last(s)>>
         /\ Len(s) = Len(Front(s)) + 1
<1>1. PICK h \in V, t \in Seq(V) : h = Last(s) /\ t = Front(s)
  BY FrontFacts
<1>2. PICK n \in Nat : n + 1 = Len(s)
  BY FrontFacts
<1>3. Len(t) = n /\ h = s[n + 1] /\ \A i \in 1..n : t[i] = s[i]
  <2>1. /\ Len(t) = Len(s) - 1 /\ h = s[Len(s)]
        /\ \A i \in 1..Len(s) - 1 : t[i] = s[i]
    BY ONLY <1>1, FrontFacts, s \in Seq(V), s # <<>>
  <2>2. Len(s) - 1 = n
    BY ONLY <1>2, n \in Nat
  <2> QED
    BY ONLY <1>2, <2>1, <2>2
<1>4. PICK r : r = t \o <<h>>
  OBVIOUS
<1>5. r \in Seq(V) /\ Len(r) = n + 1 /\ r[n + 1] = h /\ \A i \in 1..n : r[i] = t[i]
  BY ONLY <1>3, <1>4, h \in V, t \in Seq(V), n \in Nat
<1>6. ASSUME NEW i \in 1..n + 1 PROVE r[i] = s[i]
  <2>1. CASE i = n + 1
    BY <1>3, <1>5, <2>1
  <2>2. CASE i \in 1..n
    BY <1>3, <1>5, <2>2
  <2> QED
    BY <2>1, <2>2
<1>7. r = s
  BY ONLY <1>2, <1>5, <1>6, SameSeq, s \in Seq(V)
<1> QED
  BY <1>1, <1>2, <1>3, <1>4, <1>7

(* Backwards the parts change places.                                       *)
LEMMA ReverseCat ==
  ASSUME NEW V, NEW s \in Seq(V), NEW t \in Seq(V)
  PROVE  Reverse(s \o t) = Reverse(t) \o Reverse(s)
<1>1. PICK m \in Nat, n \in Nat : m = Len(s) /\ n = Len(t)
  OBVIOUS
<1>2. PICK c : c = s \o t
  OBVIOUS
<1>3. /\ c \in Seq(V) /\ Len(c) = m + n
      /\ \A i \in 1..m : c[i] = s[i]
      /\ \A i \in 1..n : c[m + i] = t[i]
  BY ONLY <1>1, <1>2, CatFacts, s \in Seq(V), t \in Seq(V)
<1>4. PICK rs, rt, rc : rs = Reverse(s) /\ rt = Reverse(t) /\ rc = Reverse(c)
  OBVIOUS
<1>5. rs \in Seq(V) /\ Len(rs) = m /\ \A i \in 1..m : rs[i] = s[m + 1 - i]
  BY ONLY <1>1, <1>4, ReverseFacts, s \in Seq(V)
<1>6. rt \in Seq(V) /\ Len(rt) = n /\ \A i \in 1..n : rt[i] = t[n + 1 - i]
  BY ONLY <1>1, <1>4, ReverseFacts, t \in Seq(V)
<1>7. rc \in Seq(V) /\ Len(rc) = m + n /\ \A i \in 1..m + n : rc[i] = c[m + n + 1 - i]
  <2>1. PICK k : k = Len(c)
    OBVIOUS
  <2>2. rc \in Seq(V) /\ Len(rc) = k /\ \A i \in 1..k : rc[i] = c[k + 1 - i]
    BY <1>3, <1>4, <2>1, ReverseFacts
  <2>3. k = m + n
    BY <1>3, <2>1
  <2> QED
    BY ONLY <2>2, <2>3
<1>8. PICK r : r = rt \o rs
  OBVIOUS
<1>9. /\ r \in Seq(V) /\ Len(r) = n + m
      /\ \A i \in 1..n : r[i] = rt[i]
      /\ \A i \in 1..m : r[n + i] = rs[i]
  <2>1. /\ r \in Seq(V) /\ Len(r) = Len(rt) + Len(rs)
        /\ \A i \in 1..Len(rt) : r[i] = rt[i]
        /\ \A i \in 1..Len(rs) : r[Len(rt) + i] = rs[i]
    <3>1. rt \in Seq(V) /\ rs \in Seq(V)
      BY <1>5, <1>6
    <3> QED
      BY ONLY <1>8, <3>1, CatFacts
  <2>2. Len(rt) = n /\ Len(rs) = m
    BY <1>5, <1>6
  <2> QED
    BY ONLY <2>1, <2>2
<1>10. ASSUME NEW i \in 1..m + n PROVE rc[i] = r[i]
  <2>1. CASE i \in 1..n
    <3>1. n + 1 - i \in 1..n /\ m + (n + 1 - i) = m + n + 1 - i
      BY <2>1
    <3>2. c[m + (n + 1 - i)] = t[n + 1 - i]
      BY ONLY <1>3, <3>1
    <3> QED
      BY <1>6, <1>7, <1>9, <2>1, <3>1, <3>2
  <2>2. CASE i \in n + 1..m + n
    <3>1. PICK k \in Int : k = i - n
      OBVIOUS
    <3>2. k \in 1..m /\ n + k = i /\ m + n + 1 - i = m + 1 - k /\ m + 1 - k \in 1..m
      BY <2>2, <3>1
    <3>3. rc[i] = c[m + 1 - k] /\ c[m + 1 - k] = s[m + 1 - k]
      BY <1>3, <1>7, <3>2
    <3>4. r[i] = rs[k] /\ rs[k] = s[m + 1 - k]
      BY ONLY <1>5, <1>9, <3>2
    <3> QED
      BY ONLY <3>3, <3>4
  <2> QED
    BY <2>1, <2>2
<1>11. rc = r
  <2>1. Len(rc) = Len(r) /\ Len(rc) = m + n
    BY <1>7, <1>9
  <2> QED
    BY ONLY <1>7, <1>9, <1>10, <2>1, SameSeq
<1> QED
  BY <1>2, <1>4, <1>8, <1>11

(* Twice backwards is forwards.                                             *)
LEMMA ReverseTwice ==
  ASSUME NEW V, NEW s \in Seq(V)
  PROVE  Reverse(Reverse(s)) = s
<1>1. PICK n \in Nat : n = Len(s)
  OBVIOUS
<1>2. PICK r : r = Reverse(s)
  OBVIOUS
<1>3. r \in Seq(V) /\ Len(r) = n /\ \A i \in 1..n : r[i] = s[n + 1 - i]
  BY ONLY <1>1, <1>2, ReverseFacts, s \in Seq(V)
<1>4. PICK q : q = Reverse(r)
  OBVIOUS
<1>5. q \in Seq(V) /\ Len(q) = n /\ \A i \in 1..n : q[i] = r[n + 1 - i]
  BY ONLY <1>3, <1>4, ReverseFacts
<1>6. ASSUME NEW i \in 1..n PROVE q[i] = s[i]
  <2>1. n + 1 - i \in 1..n /\ n + 1 - (n + 1 - i) = i
    OBVIOUS
  <2> QED
    BY <1>3, <1>5, <2>1
<1>7. q = s
  BY ONLY <1>1, <1>5, <1>6, SameSeq, s \in Seq(V)
<1> QED
  BY <1>2, <1>4, <1>7

(* The short ones are the same backwards.                                   *)
LEMMA ReverseShort ==
  ASSUME NEW V, NEW e \in V
  PROVE  Reverse(<<e>>) = <<e>> /\ Reverse(<<>>) = <<>>
<1>1. PICK o \in Seq(V) : o = <<e>> /\ Len(o) = 1
  BY OneFacts
<1>2. PICK r : r = Reverse(o)
  OBVIOUS
<1>3. r \in Seq(V) /\ Len(r) = 1 /\ \A i \in 1..1 : r[i] = o[1 + 1 - i]
  BY ONLY <1>1, <1>2, ReverseFacts
<1>4. \A i \in 1..1 : r[i] = o[i]
  <2>1. \A i \in 1..1 : 1 + 1 - i = i
    OBVIOUS
  <2> QED
    BY <1>3, <2>1
<1>5. r = o
  BY ONLY <1>1, <1>3, <1>4, SameSeq
<1>6. Reverse(<<>>) \in Seq(V) /\ Len(Reverse(<<>>)) = 0
  <2>1. <<>> \in Seq(V) /\ Len(<<>>) = 0
    OBVIOUS
  <2> QED
    BY ONLY <2>1, ReverseFacts
<1> QED
  BY <1>1, <1>2, <1>5, <1>6

(* An element put in between two parts.                                     *)
LEMMA InsertBetween ==
  ASSUME NEW V, NEW s \in Seq(V), NEW t \in Seq(V), NEW e \in V, NEW p, p = Len(s) + 1
  PROVE  InsertAt(s \o t, p, e) = s \o <<e>> \o t
<1>1. PICK c : c = s \o t
  OBVIOUS
<1>2. SubSeq(c, 1, p - 1) = s /\ SubSeq(c, p, Len(c)) = t
  BY <1>1
<1> QED
  BY <1>1, <1>2 DEF InsertAt

(* An element taken out from between two parts.                             *)
LEMMA RemoveBetween ==
  ASSUME NEW V, NEW s \in Seq(V), NEW t \in Seq(V), NEW e \in V, NEW p, p = Len(s) + 1
  PROVE  RemoveAt(s \o <<e>> \o t, p) = s \o t
<1>1. PICK c : c = s \o <<e>> \o t
  OBVIOUS
<1>2. SubSeq(c, 1, p - 1) = s /\ SubSeq(c, p + 1, Len(c)) = t
  BY <1>1
<1> QED
  BY <1>1, <1>2 DEF RemoveAt

-----------------------------------------------------------------------------
(* The list that a zipper stands for.                                       *)

Zips == [up : Seq(Elem), focus : Elem, down : Seq(Elem)]

(* The parts of a zipper.                                                   *)
LEMMA ZipFields ==
  ASSUME NEW x \in Zips
  PROVE  x.up \in Seq(Elem) /\ x.focus \in Elem /\ x.down \in Seq(Elem)
BY DEF Zips

(* A zipper of its parts.                                                   *)
LEMMA ZipMade ==
  ASSUME NEW u \in Seq(Elem), NEW e \in Elem, NEW d \in Seq(Elem)
  PROVE  Z(u, e, d) \in Zips /\ Z(u, e, d).up = u /\ Z(u, e, d).focus = e /\ Z(u, e, d).down = d
BY DEF Z, Zips

(* The operations on sequences, as an algebra: the provers need not know    *)
(* here what a sequence is.                                                 *)
Lists == Seq(Elem)
Nil == <<>>
One(e) == <<e>>
Cat(s, t) == s \o t

(* The empty list.                                                          *)
LEMMA NilLaws == Nil \in Lists /\ Len(Nil) = 0 /\ \A s \in Lists : Cat(s, Nil) = s /\ Cat(Nil, s) = s
<1>1. \A s \in Seq(Elem) : s \o <<>> = s /\ <<>> \o s = s
  BY CatEmpty
<1> QED
  BY <1>1 DEF Lists, Nil, Cat

(* The list of one element.                                                 *)
LEMMA OneLaws == \A e \in Elem : One(e) \in Lists /\ Len(One(e)) = 1
BY OneFacts DEF Lists, One

(* A list put behind another one.                                           *)
LEMMA CatLaws ==
  \A s, t \in Lists : Cat(s, t) \in Lists /\ Len(Cat(s, t)) = Len(s) + Len(t) /\ Len(s) \in Nat
BY CatFacts DEF Lists, Cat

(* Putting lists together is associative.                                   *)
LEMMA AssocLaw == \A s, t, u \in Lists : Cat(Cat(s, t), u) = Cat(s, Cat(t, u))
BY CatAssoc DEF Lists, Cat

(* A list backwards.                                                        *)
LEMMA ReverseLaws ==
  /\ Reverse(Nil) = Nil
  /\ \A e \in Elem : Reverse(One(e)) = One(e)
  /\ \A s \in Lists : Reverse(s) \in Lists /\ Len(Reverse(s)) = Len(s) /\ Reverse(Reverse(s)) = s
  /\ \A s, t \in Lists : Reverse(Cat(s, t)) = Cat(Reverse(t), Reverse(s))
<1>1. Reverse(Nil) = Nil
  <2>1. Reverse(<<>>) \in Seq(Elem) /\ Len(Reverse(<<>>)) = 0
    <3>1. <<>> \in Seq(Elem) /\ Len(<<>>) = 0
      OBVIOUS
    <3> QED
      BY ONLY <3>1, ReverseFacts
  <2> QED
    BY <2>1 DEF Nil
<1>2. \A e \in Elem : Reverse(One(e)) = One(e)
  BY ReverseShort DEF One
<1>3. \A s \in Lists : Reverse(s) \in Lists /\ Len(Reverse(s)) = Len(s) /\ Reverse(Reverse(s)) = s
  BY ReverseFacts, ReverseTwice DEF Lists
<1>4. \A s, t \in Lists : Reverse(Cat(s, t)) = Cat(Reverse(t), Reverse(s))
  BY ReverseCat DEF Lists, Cat
<1> QED
  BY <1>1, <1>2, <1>3, <1>4

(* What is not empty has a first and a last element.                        *)
LEMMA HeadLaw ==
  ASSUME NEW s \in Lists, s # Nil
  PROVE  Head(s) \in Elem /\ Tail(s) \in Lists /\ s = Cat(One(Head(s)), Tail(s))
BY HeadTail DEF Lists, Nil, Cat, One

(* ... and a last one.                                                      *)
LEMMA LastLaw ==
  ASSUME NEW s \in Lists, s # Nil
  PROVE  Last(s) \in Elem /\ Front(s) \in Lists /\ s = Cat(Front(s), One(Last(s)))
BY FrontLast DEF Lists, Nil, Cat, One

(* Elements that are put in and taken out.                                  *)
LEMMA InsertLaw ==
  \A s, t \in Lists, e \in Elem : InsertAt(Cat(s, t), Len(s) + 1, e) = Cat(s, Cat(One(e), t))
<1>1. ASSUME NEW s \in Seq(Elem), NEW t \in Seq(Elem), NEW e \in Elem
      PROVE  InsertAt(s \o t, Len(s) + 1, e) = s \o (<<e>> \o t)
  <2>1. InsertAt(s \o t, Len(s) + 1, e) = s \o <<e>> \o t
    BY InsertBetween
  <2>2. (s \o <<e>>) \o t = s \o (<<e>> \o t)
    OBVIOUS
  <2> QED
    BY <2>1, <2>2
<1> QED
  BY <1>1 DEF Lists, Cat, One

(* ... and taken out.                                                       *)
LEMMA RemoveLaw ==
  \A s, t \in Lists, e \in Elem : RemoveAt(Cat(s, Cat(One(e), t)), Len(s) + 1) = Cat(s, t)
<1>1. ASSUME NEW s \in Seq(Elem), NEW t \in Seq(Elem), NEW e \in Elem
      PROVE  RemoveAt(s \o (<<e>> \o t), Len(s) + 1) = s \o t
  <2>1. RemoveAt(s \o <<e>> \o t, Len(s) + 1) = s \o t
    BY RemoveBetween
  <2>2. (s \o <<e>>) \o t = s \o (<<e>> \o t)
    OBVIOUS
  <2> QED
    BY <2>1, <2>2
<1> QED
  BY <1>1 DEF Lists, Cat, One

(* The element in between.                                                  *)
LEMMA AtLaw ==
  \A s, t \in Lists, e \in Elem : Cat(s, Cat(One(e), t))[Len(s) + 1] = e
<1>1. ASSUME NEW s \in Seq(Elem), NEW t \in Seq(Elem), NEW e \in Elem
      PROVE  (s \o (<<e>> \o t))[Len(s) + 1] = e
  <2>1. PICK o \in Seq(Elem) : o = <<e>> \o t /\ Len(o) = Len(t) + 1 /\ o[1] = e
    BY ConsFacts
  <2>2. 1 \in 1..Len(o)
    BY <2>1
  <2> QED
    BY <2>1, <2>2, CatFacts
<1> QED
  BY <1>1 DEF Lists, Cat, One

(* The list of a zipper.                                                    *)
LEMMA FlattenMade ==
  \A u, d \in Lists, f \in Elem :
     /\ Z(u, f, d) \in Zips /\ Z(u, f, d).up = u
     /\ Flatten(Z(u, f, d)) = Cat(Reverse(u), Cat(One(f), d))
     /\ Flatten(Z(u, f, d)) \in Lists
     /\ Len(Flatten(Z(u, f, d))) = Len(u) + Len(d) + 1
<1>1. SUFFICES ASSUME NEW u \in Lists, NEW d \in Lists, NEW f \in Elem
      PROVE  /\ Z(u, f, d) \in Zips /\ Z(u, f, d).up = u
             /\ Flatten(Z(u, f, d)) = Cat(Reverse(u), Cat(One(f), d))
             /\ Flatten(Z(u, f, d)) \in Lists
             /\ Len(Flatten(Z(u, f, d))) = Len(u) + Len(d) + 1
  OBVIOUS
<1>2. PICK x : x = Z(u, f, d)
  OBVIOUS
<1>3. x \in Zips /\ x.up = u /\ x.focus = f /\ x.down = d
  BY <1>2, ZipMade DEF Lists
<1>4. PICK r, o : r = Reverse(u) /\ o = One(f)
  OBVIOUS
<1>5. r \in Lists /\ Len(r) = Len(u) /\ o \in Lists /\ Len(o) = 1
  BY <1>4, ReverseLaws, OneLaws
<1>6. Flatten(x) = Cat(Cat(r, o), d)
  BY <1>3, <1>4 DEF Flatten, Cat, One
<1>7. Flatten(x) = Cat(r, Cat(o, d))
  BY ONLY <1>5, <1>6, AssocLaw, d \in Lists
<1>8. PICK c \in Lists : c = Cat(o, d) /\ Len(c) = Len(o) + Len(d)
  BY ONLY <1>5, CatLaws, d \in Lists
<1>9. Flatten(x) \in Lists /\ Len(Flatten(x)) = Len(r) + Len(c)
  <2>1. Cat(r, c) \in Lists /\ Len(Cat(r, c)) = Len(r) + Len(c)
    BY ONLY <1>5, CatLaws, c \in Lists
  <2> QED
    BY ONLY <1>7, <1>8, <2>1
<1>10. Len(u) \in Nat /\ Len(d) \in Nat
  BY CatLaws
<1>11. Len(Flatten(x)) = Len(u) + Len(d) + 1
  BY ONLY <1>5, <1>8, <1>9, <1>10
<1> QED
  BY ONLY <1>2, <1>3, <1>4, <1>7, <1>9, <1>11

(* Every zipper is made of its parts.                                       *)
LEMMA ZipIs ==
  ASSUME NEW x \in Zips
  PROVE  x = Z(x.up, x.focus, x.down)
BY DEF Zips, Z

(* Positions on a ring of n places.                                         *)
LEMMA Remainders ==
  ASSUME NEW n \in Nat \ {0}, NEW x \in Int
  PROVE  /\ x \in 0..n - 1 => x % n = x
         /\ x \in n..2 * n - 1 => x % n = x - n
         /\ x \in -n..-1 => x % n = x + n
         /\ x % n \in 0..n - 1
<1>1. ASSUME 0 <= x, x < n PROVE x % n = x
  BY <1>1
<1>2. ASSUME n <= x, x < 2 * n PROVE x % n = x - n
  BY <1>2
<1>3. ASSUME -n <= x, x < 0 PROVE x % n = x + n
  BY <1>3
<1>4. x % n \in 0..n - 1
  OBVIOUS
<1> QED
  BY <1>1, <1>2, <1>3, <1>4

Ring(n, i) == ((i - 1) % n) + 1

(* The places of a ring are those from 1 to n.                              *)
LEMMA RingFacts ==
  ASSUME NEW n \in Nat \ {0}, NEW i \in Int
  PROVE  /\ i \in 1..n => Ring(n, i) = i
         /\ i \in n + 1..2 * n => Ring(n, i) = i - n
         /\ i \in 1 - n..0 => Ring(n, i) = i + n
         /\ Ring(n, i) \in 1..n
<1>1. PICK x \in Int : x = i - 1
  OBVIOUS
<1>2. PICK m : m = x % n
  OBVIOUS
<1>3. /\ x \in 0..n - 1 => m = x
      /\ x \in n..2 * n - 1 => m = x - n
      /\ x \in -n..-1 => m = x + n
      /\ m \in 0..n - 1
  BY <1>2, Remainders
<1>4. Ring(n, i) = m + 1
  BY <1>1, <1>2 DEF Ring
<1> QED
  BY ONLY <1>1, <1>3, <1>4, n \in Nat \ {0}, i \in Int

(* A list, taken apart at its i-th element.                                 *)
LEMMA SplitAt ==
  ASSUME NEW s \in Lists, NEW i \in 1..Len(s)
  PROVE  \E p, q \in Lists :
            /\ p = SubSeq(s, 1, i - 1) /\ q = SubSeq(s, i + 1, Len(s))
            /\ Len(p) = i - 1 /\ s[i] \in Elem /\ s = Cat(p, Cat(One(s[i]), q))
<1>2. s \in Seq(Elem)
  BY DEF Lists
<1>3. PICK n \in Nat : n = Len(s)
  BY <1>2
<1>4. i \in 1..n
  BY <1>3
<1>5. PICK p, q : p = SubSeq(s, 1, i - 1) /\ q = SubSeq(s, i + 1, n)
  OBVIOUS
<1>6. p \in Seq(Elem) /\ Len(p) = i - 1 /\ q \in Seq(Elem) /\ Len(q) = n - i
  <2>1. 1 \in Nat \ {0} /\ i - 1 \in Nat /\ i - 1 <= n /\ 1 <= i - 1 + 1 /\ i - 1 + 1 - 1 = i - 1
    BY <1>4
  <2>2. i + 1 \in Nat \ {0} /\ n <= n /\ i + 1 <= n + 1 /\ n + 1 - (i + 1) = n - i
    BY <1>4
  <2>3. p \in Seq(Elem) /\ Len(p) = i - 1 + 1 - 1
    BY ONLY <1>2, <1>3, <1>5, <2>1, PartFacts
  <2>4. q \in Seq(Elem) /\ Len(q) = n + 1 - (i + 1)
    BY ONLY <1>2, <1>3, <1>5, <2>2, PartFacts
  <2> QED
    BY <2>1, <2>2, <2>3, <2>4
<1>7. s[i] \in Elem
  BY <1>2, <1>3, <1>4
<1>8. PICK e \in Elem : e = s[i]
  BY <1>7
<1>9. s = p \o (<<e>> \o q)
  <2>1. \A k \in 1..i - 1 : p[k] = s[k]
    BY ONLY <1>2, <1>3, <1>4, <1>5
  <2>2. \A k \in 1..n - i : q[k] = s[i + k]
    BY ONLY <1>2, <1>3, <1>4, <1>5
  <2>3. PICK o : o = <<e>> \o q
    OBVIOUS
  <2>4. o \in Seq(Elem) /\ Len(o) = n - i + 1 /\ o[1] = e /\ \A k \in 1..n - i : o[k + 1] = q[k]
    <3>1. /\ <<e>> \o q \in Seq(Elem) /\ Len(<<e>> \o q) = Len(q) + 1 /\ (<<e>> \o q)[1] = e
          /\ \A k \in 1..Len(q) : (<<e>> \o q)[k + 1] = q[k]
      <4>1. q \in Seq(Elem)
        BY <1>6
      <4> QED
        BY ONLY <4>1, ConsFacts, e \in Elem
    <3>2. Len(q) = n - i
      BY <1>6
    <3> QED
      BY ONLY <2>3, <3>1, <3>2
  <2>5. PICK r : r = p \o o
    OBVIOUS
  <2>6. /\ r \in Seq(Elem) /\ Len(r) = Len(p) + Len(o)
        /\ \A k \in 1..Len(p) : r[k] = p[k]
        /\ \A k \in 1..Len(o) : r[Len(p) + k] = o[k]
    <3>1. p \in Seq(Elem) /\ o \in Seq(Elem)
      BY <1>6, <2>4
    <3> QED
      BY ONLY <2>5, <3>1, CatFacts
  <2>7. Len(p) = i - 1 /\ Len(o) = n - i + 1 /\ Len(p) + Len(o) = n
    BY ONLY <1>4, <1>6, <2>4, n \in Nat
  <2>8. ASSUME NEW k \in 1..n PROVE r[k] = s[k]
    <3>1. CASE k \in 1..i - 1
      BY <2>1, <2>6, <2>7, <3>1
    <3>2. CASE k = i
      <4>1. 1 \in 1..n - i + 1 /\ i - 1 + 1 = i
        BY <1>4
      <4>2. r[i - 1 + 1] = o[1]
        BY ONLY <2>6, <2>7, <4>1
      <4> QED
        BY <1>8, <2>4, <3>2, <4>1, <4>2
    <3>3. CASE k \in i + 1..n
      <4>1. PICK j \in Int : j = k - i
        OBVIOUS
      <4>2. j \in 1..n - i /\ j + 1 \in 1..n - i + 1 /\ i - 1 + (j + 1) = k /\ i + j = k
        BY ONLY <1>4, <3>3, <4>1, n \in Nat, j \in Int
      <4>3. r[i - 1 + (j + 1)] = o[j + 1]
        BY ONLY <2>6, <2>7, <4>2
      <4> QED
        BY <2>2, <2>4, <4>2, <4>3
    <3> QED
      BY <1>4, <3>1, <3>2, <3>3
  <2>9. Len(r) = n
    BY <2>6, <2>7
  <2>10. r = s
    BY ONLY <1>2, <1>3, <2>6, <2>8, <2>9, SameSeq
  <2> QED
    BY <2>3, <2>5, <2>10
<1>10. p \in Lists /\ q \in Lists
  BY <1>6 DEF Lists
<1>11. s = Cat(p, Cat(One(e), q))
  BY <1>9 DEF Cat, One
<1> QED
  BY ONLY <1>3, <1>5, <1>6, <1>8, <1>10, <1>11, e \in Elem

-----------------------------------------------------------------------------
(* Induction over lists, and what it shows of Kept.                         *)

(* A set that holds the empty list, and with a list the longer ones, holds  *)
(* all of them.                                                             *)
LEMMA ListInduction ==
  ASSUME NEW P, Nil \in P,
         \A s \in Lists, e \in Elem : s \in P => Cat(s, One(e)) \in P
  PROVE  Lists \subseteq P
<1> DEFINE S == {n \in Nat : \A s \in Lists : Len(s) = n => s \in P}
<1>1. 0 \in S
  <2>1. \A s \in Lists : Len(s) = 0 => s = Nil
    BY DEF Lists, Nil
  <2> QED
    BY <2>1
<1>2. ASSUME NEW n \in Nat, n \in S PROVE n + 1 \in S
  <2>1. SUFFICES ASSUME NEW s \in Lists, Len(s) = n + 1 PROVE s \in P
    OBVIOUS
  <2>2. Len(Nil) = 0 /\ n + 1 # 0
    BY NilLaws
  <2>3. s # Nil
    BY ONLY <2>1, <2>2
  <2>4. PICK e \in Elem, t \in Lists : s = Cat(t, One(e))
    BY <2>3, LastLaw
  <2>5. PICK m \in Nat : m = Len(t)
    BY CatLaws
  <2>6. n + 1 = m + 1
    <3>1. One(e) \in Lists /\ Len(One(e)) = 1
      BY OneLaws
    <3>2. Len(Cat(t, One(e))) = Len(t) + Len(One(e))
      BY ONLY <3>1, CatLaws, t \in Lists
    <3> QED
      BY ONLY <2>1, <2>4, <2>5, <3>1, <3>2
  <2>7. Len(t) = n
    BY ONLY <2>5, <2>6, m \in Nat, n \in Nat
  <2> QED
    BY <1>2, <2>4, <2>7
<1>3. Nat \subseteq S
  <2> HIDE DEF S
  <2> QED
    BY <1>1, <1>2, SetInduction
<1>4. ASSUME NEW s \in Lists PROVE s \in P
  <2>1. Len(s) \in Nat
    BY CatLaws
  <2>2. Len(s) \in S
    BY ONLY <2>1, <1>3
  <2> QED
    BY <2>2
<1> QED
  BY <1>4

(* The recursion that defines Kept has a solution ...                       *)
UpTo(s, S) ==
  CHOOSE f : f = [i \in 0..Len(s) |-> IF i = 0 THEN <<>>
                     ELSE IF s[i] \in S THEN Append(f[i - 1], s[i]) ELSE f[i - 1]]

(* ... step by step ...                                                     *)
LEMMA UpToFacts ==
  ASSUME NEW s \in Lists, NEW S, NEW n \in Nat, n = Len(s)
  PROVE  /\ UpTo(s, S)[0] = <<>>
         /\ \A i \in 1..n : UpTo(s, S)[i] = IF s[i] \in S THEN Append(UpTo(s, S)[i - 1], s[i])
                                                         ELSE UpTo(s, S)[i - 1]
<1> DEFINE D(f) == [i \in 0..n |-> IF i = 0 THEN <<>>
                     ELSE IF s[i] \in S THEN Append(f[i - 1], s[i]) ELSE f[i - 1]]
           F == [i \in 1..n |-> [x \in Lists |-> IF s[i] \in S THEN Append(x, s[i]) ELSE x]]
<1>1. \A i \in 1..n : s[i] \in Elem
  BY DEF Lists
<1>2. \A x \in Lists, e \in Elem : Append(x, e) \in Lists
  BY DEF Lists
<1>3. F \in [1..n -> [Lists -> Lists]]
  BY ONLY <1>1, <1>2
<1>4. PICK g \in [0..n -> Lists] : g[0] = Nil /\ \A k \in 1..n : g[k] = F[k][g[k - 1]]
  <2> HIDE DEF F
  <2>1. PICK V, v : V = Lists /\ v = Nil
    OBVIOUS
  <2>2. v \in V /\ F \in [1..n -> [V -> V]]
    BY ONLY <1>3, <2>1, NilLaws
  <2>3. \E f \in [0..n -> V] : f[0] = v /\ \A k \in 1..n : f[k] = F[k][f[k - 1]]
    BY ONLY <2>2, n \in Nat, RecursionExists, SMTT(30)
  <2> QED
    BY ONLY <2>1, <2>3
<1>5. ASSUME NEW k \in 1..n PROVE g[k] = IF s[k] \in S THEN Append(g[k - 1], s[k]) ELSE g[k - 1]
  <2>1. k - 1 \in 0..n /\ g[k - 1] \in Lists
    BY k \in 1..n
  <2>2. F[k][g[k - 1]] = IF s[k] \in S THEN Append(g[k - 1], s[k]) ELSE g[k - 1]
    BY <2>1
  <2> QED
    BY <1>4, <2>2
<1>6. g = D(g)
  <2>1. \A k \in 0..n : g[k] = IF k = 0 THEN <<>>
             ELSE IF s[k] \in S THEN Append(g[k - 1], s[k]) ELSE g[k - 1]
    <3>1. g[0] = <<>>
      BY <1>4 DEF Nil
    <3>2. \A k \in 0..n : k # 0 => k \in 1..n
      OBVIOUS
    <3> QED
      BY ONLY <1>5, <3>1, <3>2
  <2>2. g = [k \in 0..n |-> g[k]]
    OBVIOUS
  <2> QED
    BY ONLY <2>1, <2>2
<1> DEFINE h == CHOOSE f : f = D(f)
<1>7. h = D(h)
  BY <1>6, Zenon
<1>8. UpTo(s, S) = h
  BY DEF UpTo
<1> HIDE DEF h
<1>9. /\ h[0] = <<>>
      /\ \A i \in 1..n : h[i] = IF s[i] \in S THEN Append(h[i - 1], s[i]) ELSE h[i - 1]
  <2>1. \A i \in 0..n : h[i] = D(h)[i]
    BY ONLY <1>7
  <2>2. 0 \in 0..n /\ \A i \in 1..n : i \in 0..n /\ i # 0
    OBVIOUS
  <2>3. h[0] = <<>>
    BY ONLY <2>1, <2>2
  <2>4. ASSUME NEW i \in 1..n
        PROVE  h[i] = IF s[i] \in S THEN Append(h[i - 1], s[i]) ELSE h[i - 1]
    BY ONLY <2>1, <2>2, i \in 1..n
  <2> QED
    BY ONLY <2>3, <2>4
<1> QED
  BY ONLY <1>8, <1>9

(* ... which is what Kept returns the end of.                               *)
LEMMA KeptIs == \A s, S : Kept(s, S) = UpTo(s, S)[Len(s)]
BY DEF Kept, UpTo

(* Kept of the empty list, ...                                              *)
LEMMA KeptNil == \A S : Kept(Nil, S) = Nil
<1> SUFFICES ASSUME NEW S PROVE Kept(Nil, S) = Nil
  OBVIOUS
<1>1. Nil \in Lists /\ Len(Nil) = 0
  BY NilLaws
<1>2. UpTo(Nil, S)[0] = <<>>
  BY <1>1, UpToFacts
<1> QED
  BY ONLY <1>1, <1>2, KeptIs DEF Nil

(* ... and of a list that is longer by an element.                          *)
LEMMA KeptStep ==
  ASSUME NEW s \in Lists, NEW e \in Elem, NEW S
  PROVE  Kept(Cat(s, One(e)), S) = IF e \in S THEN Append(Kept(s, S), e) ELSE Kept(s, S)
<1>1. PICK n \in Nat : n = Len(s)
  BY CatLaws
<1>2. PICK c \in Lists : c = Cat(s, One(e)) /\ Len(c) = n + 1
  <2>1. One(e) \in Lists /\ Len(One(e)) = 1
    BY OneLaws
  <2>2. Cat(s, One(e)) \in Lists /\ Len(Cat(s, One(e))) = Len(s) + Len(One(e))
    BY ONLY <2>1, CatLaws, s \in Lists
  <2> QED
    BY ONLY <1>1, <2>1, <2>2
<1>3. c[n + 1] = e /\ \A i \in 1..n : c[i] = s[i]
  <2>1. s \in Seq(Elem)
    BY DEF Lists
  <2>2. c = Append(s, e)
    BY <1>2, <2>1 DEF Cat, One
  <2>3. Append(s, e)[Len(s) + 1] = e /\ \A i \in 1..Len(s) : Append(s, e)[i] = s[i]
    BY ONLY <2>1, e \in Elem, SnocFacts
  <2> QED
    BY ONLY <1>1, <2>2, <2>3
<1>4. PICK f, g : f = UpTo(s, S) /\ g = UpTo(c, S)
  OBVIOUS
<1>5. /\ f[0] = <<>>
      /\ \A i \in 1..n : f[i] = IF s[i] \in S THEN Append(f[i - 1], s[i]) ELSE f[i - 1]
  BY ONLY <1>1, <1>4, UpToFacts, s \in Lists, n \in Nat
<1>6. /\ g[0] = <<>>
      /\ \A i \in 1..n + 1 : g[i] = IF c[i] \in S THEN Append(g[i - 1], c[i]) ELSE g[i - 1]
  <2>1. n + 1 \in Nat
    OBVIOUS
  <2> QED
    BY ONLY <1>2, <1>4, <2>1, UpToFacts, c \in Lists
<1> DEFINE Q == {k \in 0..n : f[k] = g[k]}
<1>7. 0 \in Q
  BY ONLY <1>5, <1>6, n \in Nat
<1>8. ASSUME NEW k \in 0..n-1, k \in Q PROVE k + 1 \in Q
  <2>1. k + 1 \in 1..n /\ k + 1 \in 1..n + 1 /\ k + 1 - 1 = k /\ k + 1 \in 0..n
    BY ONLY k \in 0..n-1, n \in Nat
  <2>2. PICK j : j = k + 1
    OBVIOUS
  <2>3. f[j] = IF s[j] \in S THEN Append(f[k], s[j]) ELSE f[k]
    BY ONLY <1>5, <2>1, <2>2
  <2>4. g[j] = IF c[j] \in S THEN Append(g[k], c[j]) ELSE g[k]
    BY ONLY <1>6, <2>1, <2>2
  <2>5. c[j] = s[j]
    BY ONLY <1>3, <2>1, <2>2
  <2>6. f[j] = g[j]
    BY ONLY <1>8, <2>3, <2>4, <2>5
  <2> QED
    BY ONLY <2>1, <2>2, <2>6
<1>9. 0..n \subseteq Q
  <2> HIDE DEF Q
  <2> QED
    BY <1>7, <1>8, BoundedInduction
<1>10. f[n] = g[n]
  <2>1. n \in 0..n
    OBVIOUS
  <2> QED
    BY ONLY <1>9, <2>1
<1>11. g[n + 1] = IF e \in S THEN Append(g[n], e) ELSE g[n]
  <2>1. n + 1 \in 1..n + 1 /\ n + 1 - 1 = n
    OBVIOUS
  <2> QED
    BY ONLY <1>3, <1>6, <2>1
<1>12. Kept(s, S) = f[n] /\ Kept(c, S) = g[n + 1]
  BY ONLY KeptIs, <1>1, <1>2, <1>4
<1> QED
  BY ONLY <1>2, <1>10, <1>11, <1>12

(* What is kept of a list of one element, ...                               *)
LEMMA KeptOne == \A S : \A e \in Elem : Kept(One(e), S) = IF e \in S THEN One(e) ELSE Nil
<1> SUFFICES ASSUME NEW e \in Elem, NEW S PROVE Kept(One(e), S) = IF e \in S THEN One(e) ELSE Nil
  OBVIOUS
<1>1. Cat(Nil, One(e)) = One(e) /\ Nil \in Lists
  BY NilLaws, OneLaws
<1>2. Kept(Cat(Nil, One(e)), S) = IF e \in S THEN Append(Kept(Nil, S), e) ELSE Kept(Nil, S)
  BY ONLY <1>1, KeptStep, e \in Elem
<1>3. Append(Nil, e) = One(e)
  BY DEF Nil, One
<1> QED
  BY ONLY <1>1, <1>2, <1>3, KeptNil

(* Append, in the terms of the algebra.                                     *)
LEMMA AppendLaw == \A s \in Lists, e \in Elem : Append(s, e) = Cat(s, One(e))
BY DEF Lists, Cat, One

(* ... of one that is longer, ...                                           *)
LEMMA KeptSnoc ==
  \A S : \A s \in Lists, e \in Elem :
     Kept(s, S) \in Lists => Kept(Cat(s, One(e)), S) = IF e \in S THEN Cat(Kept(s, S), One(e)) ELSE Kept(s, S)
BY KeptStep, AppendLaw, ZenonT(60)

(* What is kept of a list is a list.                                        *)
LEMMA KeptLists == \A S : \A s \in Lists : Kept(s, S) \in Lists
<1> SUFFICES ASSUME NEW S PROVE \A s \in Lists : Kept(s, S) \in Lists
  OBVIOUS
<1> DEFINE P == {s \in Lists : Kept(s, S) \in Lists}
<1>1. Nil \in P
  BY NilLaws, KeptNil
<1>2. ASSUME NEW s \in Lists, NEW e \in Elem, s \in P PROVE Cat(s, One(e)) \in P
  <2>1. Kept(s, S) \in Lists
    BY <1>2
  <2>2. One(e) \in Lists /\ Cat(s, One(e)) \in Lists /\ Cat(Kept(s, S), One(e)) \in Lists
    BY <2>1, OneLaws, CatLaws
  <2>3. Kept(Cat(s, One(e)), S) = IF e \in S THEN Cat(Kept(s, S), One(e)) ELSE Kept(s, S)
    BY ONLY <2>1, KeptSnoc, s \in Lists, e \in Elem
  <2> QED
    BY <2>1, <2>2, <2>3
<1>3. Lists \subseteq P
  <2> HIDE DEF P
  <2> QED
    BY ONLY <1>1, <1>2, ListInduction
<1> QED
  BY <1>3

(* ... and of one that is put together.                                     *)
LEMMA KeptCat == \A S : \A s, t \in Lists : Kept(Cat(s, t), S) = Cat(Kept(s, S), Kept(t, S))
<1> SUFFICES ASSUME NEW s \in Lists, NEW S PROVE \A t \in Lists : Kept(Cat(s, t), S) = Cat(Kept(s, S), Kept(t, S))
  OBVIOUS
<1> DEFINE P == {t \in Lists : Kept(Cat(s, t), S) = Cat(Kept(s, S), Kept(t, S))}
<1>1. Nil \in P
  <2>1. Cat(s, Nil) = s /\ Nil \in Lists
    BY NilLaws
  <2>2. Kept(Nil, S) = Nil /\ Kept(s, S) \in Lists
    BY KeptNil, KeptLists
  <2>3. Cat(Kept(s, S), Nil) = Kept(s, S)
    BY <2>2, NilLaws
  <2> QED
    BY <2>1, <2>2, <2>3
<1>2. ASSUME NEW t \in Lists, NEW e \in Elem, t \in P PROVE Cat(t, One(e)) \in P
  <2>1. PICK o \in Lists : o = One(e)
    BY OneLaws
  <2>2. PICK c \in Lists, w \in Lists : c = Cat(s, t) /\ w = Cat(t, o)
    BY CatLaws
  <2>3. PICK ks \in Lists, kt \in Lists, kc \in Lists : ks = Kept(s, S) /\ kt = Kept(t, S) /\ kc = Kept(c, S)
    BY KeptLists
  <2>4. kc = Cat(ks, kt)
    BY <1>2, <2>2, <2>3
  <2>5. Cat(s, w) = Cat(c, o)
    BY ONLY <2>2, AssocLaw, s \in Lists, t \in Lists, o \in Lists
  <2>6. Kept(Cat(c, o), S) = IF e \in S THEN Cat(kc, o) ELSE kc
    BY ONLY <2>1, <2>3, KeptSnoc, c \in Lists, e \in Elem, kc \in Lists
  <2>7. Kept(w, S) = IF e \in S THEN Cat(kt, o) ELSE kt
    BY ONLY <2>1, <2>2, <2>3, KeptSnoc, t \in Lists, e \in Elem, kt \in Lists
  <2>8. Cat(kc, o) = Cat(ks, Cat(kt, o))
    BY ONLY <2>4, AssocLaw, ks \in Lists, kt \in Lists, o \in Lists
  <2>9. Kept(Cat(s, w), S) = Cat(ks, Kept(w, S))
    BY ONLY <2>4, <2>5, <2>6, <2>7, <2>8
  <2> QED
    BY <2>1, <2>2, <2>3, <2>9
<1>3. Lists \subseteq P
  <2> HIDE DEF P
  <2> QED
    BY ONLY <1>1, <1>2, ListInduction
<1> QED
  BY <1>3

(* Keeping and reversing commute.                                           *)
LEMMA KeptReverse == \A S : \A s \in Lists : Kept(Reverse(s), S) = Reverse(Kept(s, S))
<1> SUFFICES ASSUME NEW S PROVE \A s \in Lists : Kept(Reverse(s), S) = Reverse(Kept(s, S))
  OBVIOUS
<1> DEFINE P == {s \in Lists : Kept(Reverse(s), S) = Reverse(Kept(s, S))}
<1>1. Nil \in P
  BY NilLaws, KeptNil, ReverseLaws
<1>2. ASSUME NEW s \in Lists, NEW e \in Elem, s \in P PROVE Cat(s, One(e)) \in P
  <2>1. PICK o \in Lists : o = One(e) /\ Reverse(o) = o
    BY OneLaws, ReverseLaws
  <2>2. PICK r \in Lists, w \in Lists : r = Reverse(s) /\ w = Cat(s, o)
    BY CatLaws, ReverseLaws
  <2>3. Reverse(w) = Cat(o, r)
    BY ONLY <2>1, <2>2, ReverseLaws, s \in Lists, o \in Lists
  <2>4. PICK ks \in Lists, kr \in Lists, ko \in Lists : ks = Kept(s, S) /\ kr = Kept(r, S) /\ ko = Kept(o, S)
    BY KeptLists
  <2>5. kr = Reverse(ks)
    BY <1>2, <2>2, <2>4
  <2>6. ko = IF e \in S THEN o ELSE Nil
    BY ONLY <2>1, <2>4, KeptOne, e \in Elem
  <2>7. Kept(Reverse(w), S) = Cat(ko, kr) /\ Kept(w, S) = Cat(ks, ko)
    BY ONLY <2>2, <2>3, <2>4, KeptCat, s \in Lists, o \in Lists, r \in Lists
  <2>8. Reverse(Cat(ks, ko)) = Cat(Reverse(ko), kr)
    BY ONLY <2>5, ReverseLaws, ks \in Lists, ko \in Lists
  <2>9. Reverse(ko) = ko
    BY ONLY <2>1, <2>6, ReverseLaws
  <2> QED
    BY <2>1, <2>2, <2>7, <2>8, <2>9
<1>3. Lists \subseteq P
  <2> HIDE DEF P
  <2> QED
    BY ONLY <1>1, <1>2, ListInduction
<1> QED
  BY <1>3

-----------------------------------------------------------------------------
(* The elements of a list.                                                  *)

(* The empty list has none.                                                 *)
LEMMA SetNil == ToSet(Nil) = {}
BY DEF Nil, ToSet

(* The list of one element has that one.                                    *)
LEMMA SetOne == \A e \in Elem : ToSet(One(e)) = {e}
BY OneFacts DEF One

(* Lists put together have those of both.                                   *)
LEMMA SetCat == \A s, t \in Lists : ToSet(Cat(s, t)) = ToSet(s) \cup ToSet(t)
<1> SUFFICES ASSUME NEW s \in Seq(Elem), NEW t \in Seq(Elem) PROVE ToSet(s \o t) = ToSet(s) \cup ToSet(t)
  BY DEF Lists, Cat
<1>1. PICK m \in Nat, n \in Nat : m = Len(s) /\ n = Len(t)
  OBVIOUS
<1>2. PICK c : c = s \o t
  OBVIOUS
<1>3. c \in Seq(Elem) /\ Len(c) = m + n /\ (\A i \in 1..m : c[i] = s[i]) /\ \A i \in 1..n : c[m + i] = t[i]
  BY ONLY <1>1, <1>2, CatFacts, s \in Seq(Elem), t \in Seq(Elem)
<1>4. /\ ToSet(c) = {c[i] : i \in 1..m + n} /\ ToSet(s) = {s[i] : i \in 1..m}
      /\ ToSet(t) = {t[i] : i \in 1..n}
  <2>1. DOMAIN c = 1..m + n /\ DOMAIN s = 1..m /\ DOMAIN t = 1..n
    BY <1>1, <1>3
  <2> QED
    BY ONLY <2>1, Zenon DEF ToSet
<1>5. ASSUME NEW i \in 1..m + n PROVE c[i] \in ToSet(s) \cup ToSet(t)
  <2>1. CASE i \in 1..m
    BY ONLY <1>3, <1>4, <2>1
  <2>2. CASE i \notin 1..m
    <3>1. PICK j \in 1..n : m + j = i
      <4>1. i - m \in 1..n /\ m + (i - m) = i
        BY ONLY <2>2, i \in 1..m + n, m \in Nat, n \in Nat
      <4> QED
        BY ONLY <4>1
    <3>2. c[i] = t[j]
      BY ONLY <1>3, <3>1, j \in 1..n
    <3> QED
      BY ONLY <1>4, <3>2, j \in 1..n
  <2> QED
    BY <2>1, <2>2
<1>6. ASSUME NEW i \in 1..m PROVE s[i] \in ToSet(c)
  <2>1. i \in 1..m + n /\ c[i] = s[i]
    BY ONLY <1>3, i \in 1..m, m \in Nat, n \in Nat
  <2> QED
    BY ONLY <1>4, <2>1
<1>7. ASSUME NEW i \in 1..n PROVE t[i] \in ToSet(c)
  <2>1. m + i \in 1..m + n /\ c[m + i] = t[i]
    BY ONLY <1>3, i \in 1..n, m \in Nat, n \in Nat
  <2> QED
    BY ONLY <1>4, <2>1
<1> QED
  BY ONLY <1>2, <1>4, <1>5, <1>6, <1>7, ZenonT(60)

(* The same ones backwards.                                                 *)
LEMMA SetReverse == \A s \in Lists : ToSet(Reverse(s)) = ToSet(s)
<1> DEFINE P == {s \in Lists : ToSet(Reverse(s)) = ToSet(s)}
<1>1. Nil \in P
  BY NilLaws, ReverseLaws
<1>2. ASSUME NEW s \in Lists, NEW e \in Elem, s \in P PROVE Cat(s, One(e)) \in P
  <2>1. PICK o \in Lists : o = One(e) /\ Reverse(o) = o
    BY OneLaws, ReverseLaws
  <2>2. PICK r \in Lists : r = Reverse(s) /\ ToSet(r) = ToSet(s)
    BY <1>2, ReverseLaws
  <2>3. Reverse(Cat(s, o)) = Cat(o, r) /\ Cat(s, o) \in Lists
    BY ONLY <2>1, <2>2, ReverseLaws, CatLaws, s \in Lists, o \in Lists
  <2>4. ToSet(Cat(s, o)) = ToSet(s) \cup ToSet(o) /\ ToSet(Cat(o, r)) = ToSet(o) \cup ToSet(r)
    BY ONLY SetCat, s \in Lists, o \in Lists, r \in Lists
  <2>5. ToSet(Reverse(Cat(s, o))) = ToSet(Cat(s, o))
    BY ONLY <2>2, <2>3, <2>4
  <2> QED
    BY <2>1, <2>3, <2>5
<1>3. Lists \subseteq P
  <2> HIDE DEF P
  <2> QED
    BY ONLY <1>1, <1>2, ListInduction
<1> QED
  BY <1>3

(* Those that are kept are those of the set.                                *)
LEMMA SetKept == \A S : \A s \in Lists : ToSet(Kept(s, S)) = ToSet(s) \cap S
<1> SUFFICES ASSUME NEW S PROVE \A s \in Lists : ToSet(Kept(s, S)) = ToSet(s) \cap S
  OBVIOUS
<1> DEFINE P == {s \in Lists : ToSet(Kept(s, S)) = ToSet(s) \cap S}
<1>1. Nil \in P
  BY NilLaws, SetNil, KeptNil
<1>2. ASSUME NEW s \in Lists, NEW e \in Elem, s \in P PROVE Cat(s, One(e)) \in P
  <2>1. PICK o \in Lists : o = One(e) /\ ToSet(o) = {e}
    BY OneLaws, SetOne
  <2>2. PICK ks \in Lists, ko \in Lists : ks = Kept(s, S) /\ ko = Kept(o, S) /\ ToSet(ks) = ToSet(s) \cap S
    BY <1>2, KeptLists
  <2>3. ToSet(ko) = {e} \cap S
    <3>1. ko = IF e \in S THEN o ELSE Nil
      BY ONLY <2>1, <2>2, KeptOne, e \in Elem
    <3> QED
      BY ONLY <2>1, <3>1, SetNil
  <2>4. Kept(Cat(s, o), S) = Cat(ks, ko) /\ Cat(s, o) \in Lists
    BY ONLY <2>2, KeptCat, CatLaws, s \in Lists, o \in Lists
  <2>5. ToSet(Cat(s, o)) = ToSet(s) \cup ToSet(o) /\ ToSet(Cat(ks, ko)) = ToSet(ks) \cup ToSet(ko)
    BY ONLY SetCat, s \in Lists, o \in Lists, ks \in Lists, ko \in Lists
  <2>6. ToSet(Kept(Cat(s, o), S)) = ToSet(Cat(s, o)) \cap S
    BY ONLY <2>1, <2>2, <2>3, <2>4, <2>5
  <2> QED
    BY <2>1, <2>4, <2>6
<1>3. Lists \subseteq P
  <2> HIDE DEF P
  <2> QED
    BY ONLY <1>1, <1>2, ListInduction
<1> QED
  BY <1>3

(* A list is kept whole when all of its elements are.                       *)
LEMMA KeptAll == \A S : \A s \in Lists : ToSet(s) \subseteq S => Kept(s, S) = s
<1> SUFFICES ASSUME NEW S PROVE \A s \in Lists : ToSet(s) \subseteq S => Kept(s, S) = s
  OBVIOUS
<1> DEFINE P == {s \in Lists : ToSet(s) \subseteq S => Kept(s, S) = s}
<1>1. Nil \in P
  BY NilLaws, KeptNil
<1>2. ASSUME NEW s \in Lists, NEW e \in Elem, s \in P PROVE Cat(s, One(e)) \in P
  <2>1. PICK o \in Lists : o = One(e) /\ ToSet(o) = {e}
    BY OneLaws, SetOne
  <2>2. PICK c \in Lists : c = Cat(s, o) /\ ToSet(c) = ToSet(s) \cup ToSet(o)
    BY SetCat, CatLaws
  <2>3. ASSUME ToSet(c) \subseteq S PROVE Kept(c, S) = c
    <3>1. e \in S /\ Kept(s, S) = s
      BY <1>2, <2>1, <2>2, <2>3
    <3>2. Kept(c, S) = IF e \in S THEN Cat(Kept(s, S), o) ELSE Kept(s, S)
      BY ONLY <2>1, <2>2, <3>1, KeptSnoc, s \in Lists, e \in Elem
    <3> QED
      BY ONLY <2>2, <3>1, <3>2
  <2> QED
    BY <2>1, <2>2, <2>3
<1>3. Lists \subseteq P
  <2> HIDE DEF P
  <2> QED
    BY ONLY <1>1, <1>2, ListInduction
<1> QED
  BY <1>3

(* A list keeps something when it has an element to keep.                   *)
LEMMA KeptSome == \A S : \A s \in Lists : ToSet(s) \cap S # {} => Kept(s, S) # Nil
BY SetKept, SetNil

(* The first part of a list that is put together.                           *)
LEMMA PartLaw == \A s, t \in Lists : SubSeq(Cat(s, t), 1, Len(s) + 1 - 1) = s
<1>1. ASSUME NEW s \in Seq(Elem), NEW t \in Seq(Elem) PROVE SubSeq(s \o t, 1, Len(s) + 1 - 1) = s
  <2>1. PICK c, p : c = s \o t /\ p = Len(s) + 1
    OBVIOUS
  <2>2. SubSeq(c, 1, p - 1) = s
    BY <2>1
  <2> QED
    BY ONLY <2>1, <2>2
<1> QED
  BY <1>1 DEF Lists, Cat

-----------------------------------------------------------------------------
(* Lists without duplicates.                                                *)

Distinct(s) == \A i, j \in 1..Len(s) : s[i] = s[j] => i = j

(* The empty list has no duplicates, ...                                    *)
LEMMA DistinctNil == Distinct(Nil)
BY DEF Nil, Distinct

(* ... nor has a list of one element.                                       *)
LEMMA DistinctOne == \A e \in Elem : Distinct(One(e))
BY DEF One, Distinct

(* The parts of a list without duplicates have none, and share none.        *)
LEMMA DistinctCat ==
  \A s, t \in Lists :
     Distinct(Cat(s, t)) <=> Distinct(s) /\ Distinct(t) /\ ToSet(s) \cap ToSet(t) = {}
<1> SUFFICES ASSUME NEW s \in Seq(Elem), NEW t \in Seq(Elem)
    PROVE  Distinct(s \o t) <=> Distinct(s) /\ Distinct(t) /\ ToSet(s) \cap ToSet(t) = {}
  BY DEF Lists, Cat
<1>1. PICK m \in Nat, n \in Nat : m = Len(s) /\ n = Len(t)
  OBVIOUS
<1>2. PICK c : c = s \o t
  OBVIOUS
<1>3. c \in Seq(Elem) /\ Len(c) = m + n /\ (\A i \in 1..m : c[i] = s[i]) /\ \A i \in 1..n : c[m + i] = t[i]
  BY ONLY <1>1, <1>2, CatFacts, s \in Seq(Elem), t \in Seq(Elem)
<1>4. ToSet(s) = {s[i] : i \in 1..m} /\ ToSet(t) = {t[i] : i \in 1..n}
  <2>1. DOMAIN s = 1..m /\ DOMAIN t = 1..n
    BY <1>1
  <2> QED
    BY ONLY <2>1, Zenon DEF ToSet
<1>5. /\ Distinct(c) <=> \A i, j \in 1..m + n : c[i] = c[j] => i = j
      /\ Distinct(s) <=> \A i, j \in 1..m : s[i] = s[j] => i = j
      /\ Distinct(t) <=> \A i, j \in 1..n : t[i] = t[j] => i = j
  BY ONLY <1>1, <1>3 DEF Distinct
<1>6. /\ \A i \in 1..m : i \in 1..m + n
      /\ \A i \in 1..n : m + i \in 1..m + n
      /\ \A i \in 1..m : \A j \in 1..n : i # m + j
      /\ \A i, j \in 1..n : m + i = m + j => i = j
  OBVIOUS
<1>7. \A i \in 1..m + n : i \in 1..m \/ \E j \in 1..n : i = m + j
  <2>1. ASSUME NEW i \in 1..m + n, i \notin 1..m PROVE i - m \in 1..n /\ i = m + (i - m)
    BY <2>1
  <2> QED
    BY <2>1
<1>8. ASSUME Distinct(c) PROVE Distinct(s) /\ Distinct(t) /\ ToSet(s) \cap ToSet(t) = {}
  <2>0. \A i, j \in 1..m + n : c[i] = c[j] => i = j
    BY ONLY <1>5, <1>8
  <2>1. ASSUME NEW i \in 1..m, NEW j \in 1..m, s[i] = s[j] PROVE i = j
    BY ONLY <1>3, <1>6, <2>0, <2>1, i \in 1..m, j \in 1..m
  <2>2. ASSUME NEW i \in 1..n, NEW j \in 1..n, t[i] = t[j] PROVE i = j
    <3>1. c[m + i] = c[m + j]
      BY ONLY <1>3, <2>2, i \in 1..n, j \in 1..n
    <3>2. m + i = m + j
      BY ONLY <1>6, <2>0, <3>1, i \in 1..n, j \in 1..n
    <3> QED
      BY ONLY <1>6, <3>2, i \in 1..n, j \in 1..n
  <2>3. ASSUME NEW i \in 1..m, NEW j \in 1..n PROVE s[i] # t[j]
    <3>1. c[i] = s[i] /\ c[m + j] = t[j] /\ i \in 1..m + n /\ m + j \in 1..m + n /\ i # m + j
      BY ONLY <1>3, <1>6, i \in 1..m, j \in 1..n
    <3> QED
      BY ONLY <2>0, <3>1
  <2> QED
    BY ONLY <1>4, <1>5, <2>1, <2>2, <2>3
<1>9. ASSUME Distinct(s), Distinct(t), ToSet(s) \cap ToSet(t) = {} PROVE Distinct(c)
  <2>1. ASSUME NEW i \in 1..m, NEW j \in 1..n PROVE s[i] # t[j]
    <3>1. s[i] \in ToSet(s) /\ t[j] \in ToSet(t)
      BY ONLY <1>4, i \in 1..m, j \in 1..n
    <3> QED
      BY ONLY <1>9, <3>1
  <2>2. ASSUME NEW i \in 1..m, NEW j \in 1..m, c[i] = c[j] PROVE i = j
    BY ONLY <1>3, <1>5, <1>9, <2>2, i \in 1..m, j \in 1..m
  <2>3. ASSUME NEW i \in 1..n, NEW j \in 1..n, c[m + i] = c[m + j] PROVE i = j
    <3>1. c[m + i] = t[i] /\ c[m + j] = t[j]
      BY ONLY <1>3, i \in 1..n, j \in 1..n
    <3>2. t[i] = t[j]
      BY ONLY <2>3, <3>1
    <3> QED
      BY ONLY <1>5, <1>9, <3>2, i \in 1..n, j \in 1..n
  <2>4. ASSUME NEW i \in 1..m, NEW j \in 1..n PROVE c[i] # c[m + j]
    BY ONLY <1>3, <2>1, i \in 1..m, j \in 1..n
  <2>5. ASSUME NEW i \in 1..m + n, NEW j \in 1..m + n, c[i] = c[j] PROVE i = j
    <3>1. CASE i \in 1..m /\ j \in 1..m
      BY ONLY <2>2, <2>5, <3>1
    <3>2. CASE i \in 1..m /\ j \notin 1..m
      <4>1. PICK k \in 1..n : j = m + k
        BY ONLY <1>7, <3>2, j \in 1..m + n
      <4> QED
        BY ONLY <2>4, <2>5, <3>2, <4>1, k \in 1..n
    <3>3. CASE i \notin 1..m /\ j \in 1..m
      <4>1. PICK k \in 1..n : i = m + k
        BY ONLY <1>7, <3>3, i \in 1..m + n
      <4>2. c[j] # c[m + k]
        BY ONLY <2>4, <3>3, k \in 1..n
      <4> QED
        BY ONLY <2>5, <4>1, <4>2
    <3>4. CASE i \notin 1..m /\ j \notin 1..m
      <4>1. PICK k \in 1..n : i = m + k
        BY ONLY <1>7, <3>4, i \in 1..m + n
      <4>2. PICK l \in 1..n : j = m + l
        BY ONLY <1>7, <3>4, j \in 1..m + n
      <4> QED
        BY ONLY <2>3, <2>5, <4>1, <4>2, k \in 1..n, l \in 1..n
    <3> QED
      BY <3>1, <3>2, <3>3, <3>4
  <2> QED
    BY ONLY <1>5, <2>5
<1> QED
  BY ONLY <1>2, <1>8, <1>9

(* A list has no duplicates when it has none backwards.                     *)
LEMMA DistinctReverse == \A s \in Lists : Distinct(s) => Distinct(Reverse(s))
<1> DEFINE P == {s \in Lists : Distinct(s) => Distinct(Reverse(s))}
<1>1. Nil \in P
  BY NilLaws, ReverseLaws
<1>2. ASSUME NEW s \in Lists, NEW e \in Elem, s \in P PROVE Cat(s, One(e)) \in P
  <2>1. PICK o \in Lists : o = One(e) /\ Reverse(o) = o
    BY OneLaws, ReverseLaws
  <2>2. PICK r \in Lists : r = Reverse(s) /\ ToSet(r) = ToSet(s) /\ (Distinct(s) => Distinct(r))
    BY <1>2, ReverseLaws, SetReverse
  <2>3. Reverse(Cat(s, o)) = Cat(o, r) /\ Cat(s, o) \in Lists
    BY ONLY <2>1, <2>2, ReverseLaws, CatLaws, s \in Lists, o \in Lists
  <2>4. Distinct(Cat(s, o)) => Distinct(Cat(o, r))
    BY ONLY <2>2, DistinctCat, s \in Lists, o \in Lists, r \in Lists
  <2> QED
    BY <2>1, <2>3, <2>4
<1>3. Lists \subseteq P
  <2> HIDE DEF P
  <2> QED
    BY ONLY <1>1, <1>2, ListInduction
<1> QED
  BY <1>3

(* What is kept of a list without duplicates has none.                      *)
LEMMA DistinctKept == \A S : \A s \in Lists : Distinct(s) => Distinct(Kept(s, S))
<1> SUFFICES ASSUME NEW S PROVE \A s \in Lists : Distinct(s) => Distinct(Kept(s, S))
  OBVIOUS
<1> DEFINE P == {s \in Lists : Distinct(s) => Distinct(Kept(s, S))}
<1>1. Nil \in P
  BY NilLaws, KeptNil
<1>2. ASSUME NEW s \in Lists, NEW e \in Elem, s \in P PROVE Cat(s, One(e)) \in P
  <2>1. PICK o \in Lists : o = One(e)
    BY OneLaws
  <2>2. PICK ks \in Lists, ko \in Lists :
          /\ ks = Kept(s, S) /\ ko = Kept(o, S)
          /\ ToSet(ks) = ToSet(s) \cap S /\ ToSet(ko) = ToSet(o) \cap S
          /\ Distinct(s) => Distinct(ks)
    BY <1>2, KeptLists, SetKept
  <2>3. Distinct(ko)
    BY ONLY <2>1, <2>2, KeptOne, DistinctOne, DistinctNil, e \in Elem
  <2>4. Kept(Cat(s, o), S) = Cat(ks, ko) /\ Cat(s, o) \in Lists
    BY ONLY <2>2, KeptCat, CatLaws, s \in Lists, o \in Lists
  <2>5. Distinct(Cat(s, o)) => Distinct(s) /\ ToSet(s) \cap ToSet(o) = {}
    BY ONLY DistinctCat, s \in Lists, o \in Lists
  <2>6. Distinct(ks) /\ ToSet(ks) \cap ToSet(ko) = {} => Distinct(Cat(ks, ko))
    BY ONLY <2>3, DistinctCat, ks \in Lists, ko \in Lists
  <2> QED
    BY <2>1, <2>2, <2>4, <2>5, <2>6
<1>3. Lists \subseteq P
  <2> HIDE DEF P
  <2> QED
    BY ONLY <1>1, <1>2, ListInduction
<1> QED
  BY <1>3

(* Two parts that change places have no more duplicates than before.        *)
LEMMA DistinctTurn == \A s, t \in Lists : Distinct(Cat(s, t)) => Distinct(Cat(t, s))
BY DistinctCat

(* An element between two parts.                                            *)
LEMMA DistinctBetween ==
  \A s, t \in Lists, e \in Elem :
     Distinct(Cat(s, Cat(One(e), t))) <=> Distinct(Cat(s, t)) /\ e \notin ToSet(Cat(s, t))
<1> SUFFICES ASSUME NEW s \in Lists, NEW t \in Lists, NEW e \in Elem
    PROVE  Distinct(Cat(s, Cat(One(e), t))) <=> Distinct(Cat(s, t)) /\ e \notin ToSet(Cat(s, t))
  OBVIOUS
<1>1. PICK o \in Lists : o = One(e) /\ ToSet(o) = {e} /\ Distinct(o)
  BY OneLaws, SetOne, DistinctOne
<1>2. PICK c \in Lists : c = Cat(o, t) /\ ToSet(c) = ToSet(o) \cup ToSet(t)
  BY CatLaws, SetCat
<1>3. Distinct(c) <=> Distinct(o) /\ Distinct(t) /\ ToSet(o) \cap ToSet(t) = {}
  BY ONLY <1>2, DistinctCat, o \in Lists, t \in Lists
<1>4. Distinct(Cat(s, c)) <=> Distinct(s) /\ Distinct(c) /\ ToSet(s) \cap ToSet(c) = {}
  BY ONLY DistinctCat, s \in Lists, c \in Lists
<1>5. /\ Distinct(Cat(s, t)) <=> Distinct(s) /\ Distinct(t) /\ ToSet(s) \cap ToSet(t) = {}
      /\ ToSet(Cat(s, t)) = ToSet(s) \cup ToSet(t)
  BY ONLY DistinctCat, SetCat, s \in Lists, t \in Lists
<1>6. Distinct(Cat(s, c)) <=> Distinct(Cat(s, t)) /\ e \notin ToSet(Cat(s, t))
  BY ONLY <1>1, <1>2, <1>3, <1>4, <1>5
<1> QED
  BY ONLY <1>1, <1>2, <1>6


-----------------------------------------------------------------------------
(* Moving the focus does not change the list.                               *)

(* A step up, ...                                                           *)
LEMMA StepUp ==
  ASSUME NEW u \in Lists, NEW f \in Elem, NEW d \in Lists, u # Nil
  PROVE  /\ Z(Tail(u), Head(u), Cat(One(f), d)) \in Zips
         /\ Flatten(Z(Tail(u), Head(u), Cat(One(f), d))) = Flatten(Z(u, f, d))
         /\ Len(Z(Tail(u), Head(u), Cat(One(f), d)).up) = Len(u) - 1
<1>1. PICK h \in Elem, t \in Lists : h = Head(u) /\ t = Tail(u) /\ u = Cat(One(h), t)
  BY HeadLaw
<1>2. PICK e \in Lists : e = Cat(One(f), d)
  BY OneLaws, CatLaws
<1>3. PICK o \in Lists, r \in Lists : o = One(h) /\ r = Reverse(t)
  BY OneLaws, ReverseLaws
<1>4. Reverse(u) = Cat(r, o)
  <2>1. u = Cat(o, t) /\ Reverse(o) = o
    BY <1>1, <1>3, ReverseLaws
  <2>2. Reverse(Cat(o, t)) = Cat(Reverse(t), Reverse(o))
    BY ReverseLaws
  <2> QED
    BY <1>3, <2>1, <2>2
<1>5. Flatten(Z(u, f, d)) = Cat(Cat(r, o), e)
  BY <1>2, <1>4, FlattenMade
<1>6. Z(t, h, e) \in Zips /\ Z(t, h, e).up = t /\ Flatten(Z(t, h, e)) = Cat(r, Cat(o, e))
  BY <1>3, FlattenMade
<1>7. Cat(Cat(r, o), e) = Cat(r, Cat(o, e))
  BY AssocLaw
<1>8. Len(t) = Len(u) - 1
  <2>1. Len(Cat(o, t)) = Len(o) + Len(t) /\ Len(t) \in Nat
    BY CatLaws
  <2>2. u = Cat(o, t) /\ Len(o) = 1
    BY <1>1, <1>3, OneLaws
  <2> QED
    BY <2>1, <2>2
<1> QED
  BY <1>1, <1>2, <1>5, <1>6, <1>7, <1>8

(* ... a step down, ...                                                     *)
LEMMA StepDown ==
  ASSUME NEW u \in Lists, NEW f \in Elem, NEW d \in Lists, d # Nil
  PROVE  /\ Z(Cat(One(f), u), Head(d), Tail(d)) \in Zips
         /\ Flatten(Z(Cat(One(f), u), Head(d), Tail(d))) = Flatten(Z(u, f, d))
         /\ Len(Z(Cat(One(f), u), Head(d), Tail(d)).up) = Len(u) + 1
<1>1. PICK h \in Elem, t \in Lists : h = Head(d) /\ t = Tail(d) /\ d = Cat(One(h), t)
  BY HeadLaw
<1>2. PICK o \in Lists, q \in Lists, r \in Lists : o = One(h) /\ q = One(f) /\ r = Reverse(u)
  BY OneLaws, ReverseLaws
<1>3. PICK e \in Lists : e = Cat(q, u)
  BY CatLaws
<1>4. Reverse(e) = Cat(r, q)
  BY <1>2, <1>3, ReverseLaws
<1>5. PICK m \in Lists : m = Cat(o, t)
  BY CatLaws
<1>6. Flatten(Z(u, f, d)) = Cat(r, Cat(q, m))
  BY <1>1, <1>2, <1>5, FlattenMade
<1>7. Z(e, h, t) \in Zips /\ Z(e, h, t).up = e /\ Flatten(Z(e, h, t)) = Cat(Cat(r, q), m)
  BY <1>2, <1>4, <1>5, FlattenMade
<1>8. Cat(Cat(r, q), m) = Cat(r, Cat(q, m))
  BY AssocLaw
<1>9. Len(e) = Len(u) + 1
  <2>1. Len(e) = Len(q) + Len(u) /\ Len(q) = 1 /\ Len(u) \in Nat
    BY <1>2, <1>3, CatLaws, OneLaws
  <2> QED
    BY <2>1
<1> QED
  BY <1>1, <1>2, <1>3, <1>6, <1>7, <1>8, <1>9

(* ... up to the first element, ...                                         *)
LEMMA StepToHead ==
  ASSUME NEW u \in Lists, NEW f \in Elem, NEW d \in Lists, u # Nil,
         NEW e, e = Cat(Cat(Reverse(Front(u)), One(f)), d)
  PROVE  /\ Z(Nil, Last(u), e) \in Zips
         /\ Flatten(Z(Nil, Last(u), e)) = Flatten(Z(u, f, d))
         /\ Len(Z(Nil, Last(u), e).up) = 0
<1>1. PICK l \in Elem, t \in Lists : l = Last(u) /\ t = Front(u) /\ u = Cat(t, One(l))
  BY LastLaw
<1>2. PICK o \in Lists, q \in Lists, r \in Lists : o = One(l) /\ q = One(f) /\ r = Reverse(t)
  BY OneLaws, ReverseLaws
<1>3. Reverse(u) = Cat(o, r)
  <2>1. u = Cat(t, o) /\ Reverse(o) = o
    BY <1>1, <1>2, ReverseLaws
  <2>2. Reverse(Cat(t, o)) = Cat(Reverse(o), Reverse(t))
    BY ReverseLaws
  <2> QED
    BY <1>2, <2>1, <2>2
<1>4. PICK m \in Lists : m = Cat(q, d)
  BY CatLaws
<1>5. e = Cat(r, m)
  <2>1. e = Cat(Cat(r, q), d)
    BY <1>1, <1>2
  <2>2. Cat(Cat(r, q), d) = Cat(r, Cat(q, d))
    BY AssocLaw
  <2> QED
    BY <1>4, <2>1, <2>2
<1>6. e \in Lists
  BY <1>5, CatLaws
<1>7. Flatten(Z(u, f, d)) = Cat(Cat(o, r), m)
  BY <1>2, <1>3, <1>4, FlattenMade
<1>8. Cat(Cat(o, r), m) = Cat(o, e)
  BY <1>5, AssocLaw
<1>9. Z(Nil, l, e) \in Zips /\ Z(Nil, l, e).up = Nil /\ Flatten(Z(Nil, l, e)) = Cat(Reverse(Nil), Cat(o, e))
  BY <1>2, <1>6, NilLaws, FlattenMade
<1>10. Cat(Reverse(Nil), Cat(o, e)) = Cat(o, e)
  BY <1>6, NilLaws, CatLaws, ReverseLaws
<1> QED
  BY <1>1, <1>7, <1>8, <1>9, <1>10, NilLaws

(* ... and down to the last.                                                *)
LEMMA StepToTail ==
  ASSUME NEW u \in Lists, NEW f \in Elem, NEW d \in Lists, d # Nil,
         NEW e, e = Cat(Cat(Reverse(Front(d)), One(f)), u)
  PROVE  /\ Z(e, Last(d), Nil) \in Zips
         /\ Flatten(Z(e, Last(d), Nil)) = Flatten(Z(u, f, d))
         /\ Len(Z(e, Last(d), Nil).up) = Len(u) + Len(d)
<1>1. PICK l \in Elem, t \in Lists : l = Last(d) /\ t = Front(d) /\ d = Cat(t, One(l))
  BY LastLaw
<1>2. PICK o \in Lists, q \in Lists, r \in Lists, v \in Lists :
        o = One(l) /\ q = One(f) /\ r = Reverse(t) /\ v = Reverse(u)
  BY OneLaws, ReverseLaws
<1>3. PICK m \in Lists : m = Cat(r, q)
  BY CatLaws
<1>4. e = Cat(m, u)
  BY <1>1, <1>2, <1>3
<1>5. e \in Lists
  BY <1>4, CatLaws
<1>6. Reverse(m) = Cat(q, t)
  <2>1. Reverse(m) = Cat(Reverse(q), Reverse(r))
    BY <1>3, ReverseLaws
  <2>2. Reverse(q) = q /\ Reverse(r) = t
    BY <1>2, ReverseLaws
  <2> QED
    BY <2>1, <2>2
<1>7. PICK w \in Lists : w = Cat(q, t)
  BY CatLaws
<1>8. Reverse(e) = Cat(v, w)
  BY <1>2, <1>4, <1>6, <1>7, ReverseLaws
<1>9. Flatten(Z(u, f, d)) = Cat(v, Cat(q, Cat(t, o)))
  <2>1. d = Cat(t, o)
    BY <1>1, <1>2
  <2>2. Flatten(Z(u, f, d)) = Cat(Reverse(u), Cat(One(f), d))
    BY FlattenMade
  <2> QED
    BY <1>2, <2>1, <2>2
<1>10. Cat(q, Cat(t, o)) = Cat(w, o)
  BY <1>7, AssocLaw
<1>11. Cat(v, Cat(w, o)) = Cat(Cat(v, w), o)
  BY AssocLaw
<1>12. Z(e, l, Nil) \in Zips /\ Z(e, l, Nil).up = e /\ Flatten(Z(e, l, Nil)) = Cat(Cat(v, w), Cat(o, Nil))
  <2>1. Nil \in Lists
    BY NilLaws
  <2>2. /\ Z(e, l, Nil) \in Zips /\ Z(e, l, Nil).up = e
        /\ Flatten(Z(e, l, Nil)) = Cat(Reverse(e), Cat(One(l), Nil))
    BY ONLY <1>5, <2>1, FlattenMade, l \in Elem
  <2> QED
    BY ONLY <1>1, <1>2, <1>8, <2>2
<1>13. Cat(o, Nil) = o
  BY NilLaws
<1>14. Len(e) = Len(u) + Len(d)
  <2>1. Len(e) = Len(m) + Len(u) /\ Len(m) = Len(r) + Len(q)
    BY <1>3, <1>4, CatLaws
  <2>2. Len(r) = Len(t) /\ Len(q) = 1 /\ Len(o) = 1
    BY <1>2, OneLaws, ReverseLaws
  <2>3. d = Cat(t, o)
    BY <1>1, <1>2
  <2>4. Len(d) = Len(t) + Len(o) /\ Len(t) \in Nat /\ Len(u) \in Nat
    BY <2>3, CatLaws
  <2> QED
    BY <2>1, <2>2, <2>4
<1> QED
  BY <1>1, <1>9, <1>10, <1>11, <1>12, <1>13, <1>14

(* The parts of a zipper, named.                                            *)
LEMMA ZipParts ==
  ASSUME NEW x \in Zips
  PROVE  \E u \in Lists, f \in Elem, d \in Lists :
            /\ x = Z(u, f, d) /\ u = x.up /\ f = x.focus /\ d = x.down
            /\ Len(u) \in Nat /\ Len(d) \in Nat
            /\ (u = Nil <=> Len(u) = 0) /\ (d = Nil <=> Len(d) = 0)
<1>1. x.up \in Lists /\ x.focus \in Elem /\ x.down \in Lists
  BY ZipFields DEF Lists
<1>2. x = Z(x.up, x.focus, x.down)
  BY DEF Zips, Z
<1>3. \A s \in Lists : Len(s) \in Nat /\ (s = Nil <=> Len(s) = 0)
  BY DEF Lists, Nil
<1> QED
  BY <1>1, <1>2, <1>3

(* focus_up, ...                                                            *)
LEMMA FocusUpFacts ==
  ASSUME NEW x \in Zips
  PROVE  /\ FocusUp(x) \in Zips /\ Flatten(FocusUp(x)) = Flatten(x)
         /\ Len(FocusUp(x).up) + 1 = Ring(Len(Flatten(x)), Len(x.up) + 1 - 1)
<1>1. PICK u \in Lists, f \in Elem, d \in Lists :
            /\ x = Z(u, f, d) /\ u = x.up /\ f = x.focus /\ d = x.down
            /\ Len(u) \in Nat /\ Len(d) \in Nat
            /\ (u = Nil <=> Len(u) = 0) /\ (d = Nil <=> Len(d) = 0)
  BY ZipParts
<1>2. PICK y : y = FocusUp(x)
  OBVIOUS
<1>3. PICK n \in Nat \ {0} : n = Len(Flatten(x)) /\ n = Len(u) + Len(d) + 1
  <2>1. Len(Flatten(x)) = Len(u) + Len(d) + 1
    BY <1>1, FlattenMade
  <2>2. Len(u) + Len(d) + 1 \in Nat \ {0}
    <3>1. PICK i \in Nat, j \in Nat : i = Len(u) /\ j = Len(d)
      BY <1>1
    <3>2. i + j + 1 \in Nat \ {0}
      OBVIOUS
    <3> QED
      BY <3>1, <3>2
  <2> QED
    BY <2>1, <2>2
<1>4. PICK a \in Nat, b \in Nat : a = Len(u) /\ b = Len(d)
  BY <1>1, Zenon
<1>a. n = a + b + 1 /\ (u = Nil <=> a = 0) /\ (d = Nil <=> b = 0) /\ a = Len(x.up)
  BY <1>1, <1>3, <1>4
<1>b. SUFFICES y \in Zips /\ Flatten(y) = Flatten(x) /\ Len(y.up) + 1 = Ring(n, a + 1 - 1)
  BY <1>2, <1>3, <1>a
<1>5. CASE u # Nil
  <2>1. y = Z(Tail(u), Head(u), Cat(One(f), d))
    BY <1>1, <1>2, <1>5 DEF FocusUp, Nil, Cat, One
  <2>2. y \in Zips /\ Flatten(y) = Flatten(x) /\ Len(y.up) = a - 1
    BY <1>1, <1>4, <1>5, <2>1, StepUp
  <2>3. a \in 1..n /\ a + 1 - 1 = a /\ a - 1 + 1 = a
    BY ONLY <1>a, <1>5, a \in Nat, b \in Nat, n \in Nat
  <2>4. Ring(n, a) = a
    BY <2>3, RingFacts
  <2> QED
    BY ONLY <2>2, <2>3, <2>4
<1>6. CASE u = Nil /\ d # Nil
  <2>1. y = Z(Reverse(Cat(One(f), Front(d))), Last(d), Nil)
    BY <1>1, <1>2, <1>6 DEF FocusUp, Nil, Cat, One
  <2>2. PICK e : e = Cat(Cat(Reverse(Front(d)), One(f)), u)
    OBVIOUS
  <2>3. Z(e, Last(d), Nil) \in Zips /\ Flatten(Z(e, Last(d), Nil)) = Flatten(x) /\ Len(Z(e, Last(d), Nil).up) = a + b
    BY ONLY <1>1, <1>4, <1>6, <2>2, StepToTail, ZenonT(60)
  <2>4. PICK t \in Lists, o \in Lists : t = Front(d) /\ o = One(f)
    BY <1>6, LastLaw, OneLaws
  <2>5. Reverse(Cat(o, t)) = Cat(Reverse(t), Reverse(o)) /\ Reverse(o) = o /\ Reverse(t) \in Lists
    BY <2>4, ReverseLaws
  <2>6. Cat(Cat(Reverse(t), o), Nil) = Cat(Reverse(t), o)
    BY <2>5, CatLaws, NilLaws
  <2>7. y = Z(e, Last(d), Nil)
    BY <1>6, <2>1, <2>2, <2>4, <2>5, <2>6
  <2>8. a = 0 /\ a + b + 1 = n /\ a + 1 - 1 = 0
    BY ONLY <1>a, <1>6, a \in Nat, b \in Nat, n \in Nat
  <2>9. Ring(n, 0) = n
    <3>1. 0 \in 1 - n..0 /\ 0 + n = n /\ 0 \in Int
      OBVIOUS
    <3> QED
      BY <3>1, RingFacts
  <2> QED
    BY ONLY <2>3, <2>7, <2>8, <2>9, Zenon
<1>7. CASE u = Nil /\ d = Nil
  <2>1. y = x
    BY <1>1, <1>2, <1>7 DEF FocusUp, Nil
  <2>2. a = 0 /\ n = 1 /\ a + 1 - 1 = 0
    BY ONLY <1>a, <1>7, a \in Nat, b \in Nat, n \in Nat
  <2>3. Ring(1, 0) = 1
    <3>1. 0 \in 1 - 1..0 /\ 0 + 1 = 1 /\ 0 \in Int /\ 1 \in Nat \ {0}
      OBVIOUS
    <3> QED
      BY <3>1, RingFacts
  <2> QED
    BY ONLY <1>a, <2>1, <2>2, <2>3, x \in Zips
<1> QED
  BY <1>5, <1>6, <1>7

(* ... focus_down, ...                                                      *)
LEMMA FocusDownFacts ==
  ASSUME NEW x \in Zips
  PROVE  /\ FocusDown(x) \in Zips /\ Flatten(FocusDown(x)) = Flatten(x)
         /\ Len(FocusDown(x).up) + 1 = Ring(Len(Flatten(x)), Len(x.up) + 1 + 1)
<1>1. PICK u \in Lists, f \in Elem, d \in Lists :
            /\ x = Z(u, f, d) /\ u = x.up /\ f = x.focus /\ d = x.down
            /\ Len(u) \in Nat /\ Len(d) \in Nat
            /\ (u = Nil <=> Len(u) = 0) /\ (d = Nil <=> Len(d) = 0)
  BY ZipParts
<1>2. PICK y : y = FocusDown(x)
  OBVIOUS
<1>3. PICK n \in Nat \ {0} : n = Len(Flatten(x)) /\ n = Len(u) + Len(d) + 1
  <2>1. Len(Flatten(x)) = Len(u) + Len(d) + 1
    BY <1>1, FlattenMade
  <2>2. Len(u) + Len(d) + 1 \in Nat \ {0}
    <3>1. PICK i \in Nat, j \in Nat : i = Len(u) /\ j = Len(d)
      BY <1>1
    <3>2. i + j + 1 \in Nat \ {0}
      OBVIOUS
    <3> QED
      BY <3>1, <3>2
  <2> QED
    BY <2>1, <2>2
<1>4. PICK a \in Nat, b \in Nat : a = Len(u) /\ b = Len(d)
  BY <1>1
<1>a. n = a + b + 1 /\ (u = Nil <=> a = 0) /\ (d = Nil <=> b = 0) /\ a = Len(x.up)
  BY <1>1, <1>3, <1>4
<1>b. SUFFICES y \in Zips /\ Flatten(y) = Flatten(x) /\ Len(y.up) + 1 = Ring(n, a + 1 + 1)
  BY <1>2, <1>3, <1>a
<1>5. CASE d # Nil
  <2>1. y = Z(Cat(One(f), u), Head(d), Tail(d))
    BY <1>1, <1>2, <1>5 DEF FocusDown, Nil, Cat, One
  <2>2. y \in Zips /\ Flatten(y) = Flatten(x) /\ Len(y.up) = a + 1
    BY <1>1, <1>4, <1>5, <2>1, StepDown
  <2>3. a + 1 + 1 \in 1..n
    BY ONLY <1>a, <1>5, a \in Nat, b \in Nat, n \in Nat
  <2>4. Ring(n, a + 1 + 1) = a + 1 + 1
    BY <2>3, RingFacts
  <2> QED
    BY ONLY <2>2, <2>3, <2>4, Zenon
<1>6. CASE u # Nil /\ d = Nil
  <2>1. y = Z(Nil, Last(u), Reverse(Cat(One(f), Front(u))))
    BY <1>1, <1>2, <1>6 DEF FocusDown, Nil, Cat, One
  <2>2. PICK e : e = Cat(Cat(Reverse(Front(u)), One(f)), d)
    OBVIOUS
  <2>3. Z(Nil, Last(u), e) \in Zips /\ Flatten(Z(Nil, Last(u), e)) = Flatten(x) /\ Len(Z(Nil, Last(u), e).up) = 0
    BY <1>1, <1>4, <1>6, <2>2, StepToHead, ZenonT(60)
  <2>4. PICK t \in Lists, o \in Lists : t = Front(u) /\ o = One(f)
    BY <1>6, LastLaw, OneLaws
  <2>5. Reverse(Cat(o, t)) = Cat(Reverse(t), Reverse(o)) /\ Reverse(o) = o /\ Reverse(t) \in Lists
    BY <2>4, ReverseLaws
  <2>6. Cat(Cat(Reverse(t), o), Nil) = Cat(Reverse(t), o)
    BY <2>5, CatLaws, NilLaws
  <2>7. y = Z(Nil, Last(u), e)
    BY <1>6, <2>1, <2>2, <2>4, <2>5, <2>6
  <2>8. a + 1 + 1 \in n + 1..2 * n /\ a + 1 + 1 - n = 1
    BY ONLY <1>a, <1>6, a \in Nat, b \in Nat, n \in Nat
  <2>9. Ring(n, a + 1 + 1) = 1
    BY <2>8, RingFacts
  <2> QED
    BY ONLY <2>3, <2>7, <2>9
<1>7. CASE u = Nil /\ d = Nil
  <2>1. y = x
    BY <1>1, <1>2, <1>7 DEF FocusDown, Nil
  <2>2. a = 0 /\ n = 1 /\ a + 1 + 1 = 2
    BY ONLY <1>a, <1>7, a \in Nat, b \in Nat, n \in Nat
  <2>3. Ring(1, 2) = 1
    <3>1. 2 \in 1 + 1..2 * 1 /\ 2 - 1 = 1 /\ 2 \in Int /\ 1 \in Nat \ {0}
      OBVIOUS
    <3> QED
      BY <3>1, RingFacts
  <2> QED
    BY ONLY <1>a, <2>1, <2>2, <2>3, x \in Zips
<1> QED
  BY <1>5, <1>6, <1>7

(* ... focus_head, ...                                                      *)
LEMMA FocusHeadFacts ==
  ASSUME NEW x \in Zips
  PROVE  FocusHead(x) \in Zips /\ Flatten(FocusHead(x)) = Flatten(x) /\ Len(FocusHead(x).up) + 1 = 1
<1>1. PICK u \in Lists, f \in Elem, d \in Lists :
            /\ x = Z(u, f, d) /\ u = x.up /\ f = x.focus /\ d = x.down
            /\ Len(u) \in Nat /\ Len(d) \in Nat
            /\ (u = Nil <=> Len(u) = 0) /\ (d = Nil <=> Len(d) = 0)
  BY ZipParts
<1>2. CASE u = Nil
  <2>1. FocusHead(x) = x
    BY <1>1, <1>2 DEF FocusHead, Nil
  <2>2. Len(x.up) = 0
    BY <1>1, <1>2
  <2> QED
    BY ONLY <2>1, <2>2, x \in Zips, SMTT(40)
<1>3. CASE u # Nil
  <2>1. PICK e : e = Cat(Cat(Reverse(Front(u)), One(f)), d)
    OBVIOUS
  <2>2. FocusHead(x) = Z(Nil, Last(u), e)
    BY <1>1, <1>3, <2>1, Zenon DEF FocusHead, Nil, Cat, One
  <2>3. Z(Nil, Last(u), e) \in Zips /\ Flatten(Z(Nil, Last(u), e)) = Flatten(x) /\ Len(Z(Nil, Last(u), e).up) = 0
    BY <1>1, <1>3, <2>1, StepToHead
  <2> QED
    BY <2>2, <2>3
<1> QED
  BY <1>2, <1>3

(* ... and focus_tail.                                                      *)
LEMMA FocusTailFacts ==
  ASSUME NEW x \in Zips
  PROVE  /\ FocusTail(x) \in Zips /\ Flatten(FocusTail(x)) = Flatten(x)
         /\ Len(FocusTail(x).up) + 1 = Len(Flatten(x))
<1>1. PICK u \in Lists, f \in Elem, d \in Lists :
            /\ x = Z(u, f, d) /\ u = x.up /\ f = x.focus /\ d = x.down
            /\ Len(u) \in Nat /\ Len(d) \in Nat
            /\ (u = Nil <=> Len(u) = 0) /\ (d = Nil <=> Len(d) = 0)
  BY ZipParts
<1>a. Len(Flatten(x)) = Len(u) + Len(d) + 1
  BY <1>1, FlattenMade
<1>2. CASE d = Nil
  <2>1. FocusTail(x) = x
    BY <1>1, <1>2 DEF FocusTail, Nil
  <2> QED
    BY <1>1, <1>a, <1>2, <2>1
<1>3. CASE d # Nil
  <2>1. PICK e : e = Cat(Cat(Reverse(Front(d)), One(f)), u)
    OBVIOUS
  <2>2. FocusTail(x) = Z(e, Last(d), Nil)
    BY <1>1, <1>3, <2>1 DEF FocusTail, Nil, Cat, One
  <2>3. /\ Z(e, Last(d), Nil) \in Zips /\ Flatten(Z(e, Last(d), Nil)) = Flatten(x)
        /\ Len(Z(e, Last(d), Nil).up) = Len(u) + Len(d)
    BY <1>1, <1>3, <2>1, StepToTail
  <2> QED
    BY <1>a, <2>2, <2>3
<1> QED
  BY <1>2, <1>3

(* A list with the focus on its i-th element.                               *)
LEMMA FocusedAtFacts ==
  ASSUME NEW x \in Zips, NEW i \in 1..Len(Flatten(x))
  PROVE  /\ FocusedAt(x, i) \in Zips /\ Flatten(FocusedAt(x, i)) = Flatten(x)
         /\ Len(FocusedAt(x, i).up) + 1 = i
<1>1. PICK s \in Lists : s = Flatten(x)
  BY ZipParts, FlattenMade
<1>2. i \in 1..Len(s)
  BY <1>1
<1>3. PICK p \in Lists, q \in Lists :
            /\ p = SubSeq(s, 1, i - 1) /\ q = SubSeq(s, i + 1, Len(s))
            /\ Len(p) = i - 1 /\ s[i] \in Elem /\ s = Cat(p, Cat(One(s[i]), q))
  BY ONLY <1>2, SplitAt, s \in Lists
<1>4. PICK e \in Elem : e = s[i]
  BY <1>3
<1>5. FocusedAt(x, i) = Z(Reverse(p), e, q)
  BY <1>1, <1>3, <1>4 DEF FocusedAt
<1>6. PICK r \in Lists : r = Reverse(p) /\ Reverse(r) = p /\ Len(r) = Len(p)
  BY ReverseLaws
<1>7. Z(r, e, q) \in Zips /\ Z(r, e, q).up = r /\ Flatten(Z(r, e, q)) = Cat(Reverse(r), Cat(One(e), q))
  BY ONLY FlattenMade, r \in Lists, e \in Elem, q \in Lists
<1>8. Flatten(FocusedAt(x, i)) = Flatten(x)
  BY ONLY <1>1, <1>3, <1>4, <1>5, <1>6, <1>7
<1>9. Len(r) + 1 = i
  BY ONLY <1>2, <1>3, <1>6
<1> QED
  BY ONLY <1>5, <1>6, <1>7, <1>8, <1>9

-----------------------------------------------------------------------------
(* Finding an element.                                                      *)

(* A set of natural numbers has a least one.                                *)
LEMMA MinFacts ==
  ASSUME NEW S, S \subseteq Nat, S # {}
  PROVE  Min(S) \in S
<1>1. PICK x \in S : \A y \in S : ~(<<y, x>> \in Below)
  BY BelowWellFounded, WFMin
<1>2. \A y \in S : x <= y
  <2>1. ASSUME NEW y \in S PROVE x <= y
    <3>1. x \in Nat /\ y \in Nat
      OBVIOUS
    <3>2. ~(y < x)
      BY <1>1, <3>1, BelowIsLess
    <3> QED
      BY <3>1, <3>2
  <2> QED
    BY <2>1
<1>3. \E m \in S : \A y \in S : m <= y
  BY <1>2
<1> QED
  BY <1>3 DEF Min

(* The smaller of two.                                                      *)
LEMMA MinOfTwo ==
  ASSUME NEW i \in Int, NEW j \in Int
  PROVE  Min({i, j}) = IF i <= j THEN i ELSE j
<1>1. \E m \in {i, j} : \A y \in {i, j} : m <= y
  OBVIOUS
<1>2. Min({i, j}) \in {i, j} /\ \A y \in {i, j} : Min({i, j}) <= y
  BY <1>1 DEF Min
<1> QED
  BY <1>2

(* focus_element_by.                                                        *)
Hits(x, e) ==
  {k \in 0..Len(Flatten(x)) - 1 : Flatten(x)[Ring(Len(Flatten(x)), Len(x.up) + 1 + k)] = e}

(* focus_element_by goes to the first hit, in ring order from the focus.    *)
LEMMA FocusByFacts ==
  ASSUME NEW x \in Zips, NEW e
  PROVE  /\ FocusBy(x, {e}) \in Zips /\ Flatten(FocusBy(x, {e})) = Flatten(x)
         /\ Len(FocusBy(x, {e}).up) + 1 =
               IF Hits(x, e) = {} THEN Len(x.up) + 1
               ELSE Ring(Len(Flatten(x)), Len(x.up) + 1 + Min(Hits(x, e)))
<1>a. PICK a, n, s, H : a = Len(x.up) /\ s = Flatten(x) /\ n = Len(Flatten(x)) /\ H = Hits(x, e)
  OBVIOUS
<1>b. a = Len(x.up) /\ s = Flatten(x) /\ n = Len(s) /\ H = {k \in 0..n - 1 : s[Ring(n, a + 1 + k)] = e}
  BY ONLY <1>a DEF Hits
<1>c. SUFFICES ASSUME a = Len(x.up), s = Flatten(x), n = Len(s),
                      H = {k \in 0..n - 1 : s[Ring(n, a + 1 + k)] = e}
      PROVE  /\ FocusBy(x, {e}) \in Zips /\ Flatten(FocusBy(x, {e})) = s
             /\ Len(FocusBy(x, {e}).up) + 1 = IF H = {} THEN a + 1 ELSE Ring(n, a + 1 + Min(H))
  BY <1>a, <1>b, Zenon
<1> USE <1>c
<1>1. PICK u \in Lists, f \in Elem, d \in Lists :
            /\ x = Z(u, f, d) /\ u = x.up /\ f = x.focus /\ d = x.down
            /\ Len(u) \in Nat /\ Len(d) \in Nat
            /\ (u = Nil <=> Len(u) = 0) /\ (d = Nil <=> Len(d) = 0)
  BY ZipParts
<1>2. n = Len(u) + Len(d) + 1 /\ ZLen(x) = n
  <2>1. Len(Flatten(x)) = Len(u) + Len(d) + 1
    BY <1>1, FlattenMade
  <2>2. ZLen(x) = Len(u) + Len(d) + 1
    BY <1>1 DEF ZLen
  <2> QED
    BY <2>1, <2>2, Zenon
<1>3. a \in Nat /\ n \in Nat \ {0}
  <2>1. PICK b \in Nat : b = Len(d)
    BY <1>1, Zenon
  <2>2. a \in Nat /\ a = Len(u)
    BY <1>1
  <2>3. n = a + b + 1
    BY <1>2, <2>1, <2>2
  <2> QED
    BY ONLY <2>2, <2>3, b \in Nat, SMTT(40)
<1>4. \A k \in Int : ((a + k) % n) + 1 = Ring(n, a + 1 + k)
  <2>1. ASSUME NEW k \in Int PROVE ((a + k) % n) + 1 = Ring(n, a + 1 + k)
    <3>1. PICK m, w : m = a + k /\ w = a + 1 + k
      OBVIOUS
    <3>2. w - 1 = m
      BY ONLY <3>1, <1>3, k \in Int
    <3>3. Ring(n, w) = ((w - 1) % n) + 1
      BY ONLY Zenon DEF Ring
    <3> QED
      BY ONLY <3>1, <3>2, <3>3, Zenon
  <2> QED
    BY <2>1
<1>5. DEFINE A(k) == ((a + k) % n) + 1
             G == {k \in 0..n - 1 : s[A(k)] \in {e}}
<1>6. FocusBy(x, {e}) = IF G = {} THEN x ELSE FocusedAt(x, A(Min(G)))
  BY <1>2 DEF FocusBy
<1>7. G = H
  <2>1. \A k \in 0..n - 1 : A(k) = Ring(n, a + 1 + k)
    BY ONLY <1>3, <1>4
  <2> QED
    BY ONLY <2>1, H = {k \in 0..n - 1 : s[Ring(n, a + 1 + k)] = e}
<1>8. CASE H = {}
  BY <1>6, <1>7, <1>8
<1>9. CASE H # {}
  <2>1. Min(H) \in 0..n - 1
    <3>1. H \subseteq Nat /\ H \subseteq 0..n - 1
      BY <1>3
    <3> QED
      BY <1>9, <3>1, MinFacts
  <2>2. PICK k \in Int : k = Min(H)
    BY ONLY <1>3, <2>1
  <2>3. A(k) = Ring(n, a + 1 + k)
    BY <1>4
  <2>4. PICK i : i = Ring(n, a + 1 + k)
    OBVIOUS
  <2>5. i \in 1..n
    <3>1. a + 1 + k \in Int
      BY <1>3
    <3> QED
      BY <1>3, <2>4, <3>1, RingFacts
  <2>6. FocusBy(x, {e}) = FocusedAt(x, i)
    BY <1>6, <1>7, <1>9, <2>2, <2>3, <2>4
  <2>7. /\ FocusedAt(x, i) \in Zips /\ Flatten(FocusedAt(x, i)) = Flatten(x)
        /\ Len(FocusedAt(x, i).up) + 1 = i
    BY <2>5, FocusedAtFacts
  <2> QED
    BY <1>9, <2>2, <2>4, <2>6, <2>7
<1> QED
  BY <1>8, <1>9

-----------------------------------------------------------------------------
(* Elements that come and go.                                               *)

(* What is known of a zipper.                                               *)
Parts(x, u, d, r, s, f, a, b) ==
  /\ x = Z(u, f, d) /\ u = x.up /\ f = x.focus /\ d = x.down
  /\ a = Len(u) /\ b = Len(d) /\ (u = Nil <=> a = 0) /\ (d = Nil <=> b = 0)
  /\ r = Reverse(u) /\ Len(r) = a
  /\ s = Flatten(x) /\ s = Cat(r, Cat(One(f), d)) /\ Len(s) = a + b + 1

(* Every zipper has them.                                                   *)
LEMMA ZipSplit ==
  ASSUME NEW x \in Zips
  PROVE  \E u \in Lists, d \in Lists, r \in Lists, s \in Lists, f \in Elem, a \in Nat, b \in Nat :
            Parts(x, u, d, r, s, f, a, b)
<1>1. PICK u \in Lists, f \in Elem, d \in Lists :
            /\ x = Z(u, f, d) /\ u = x.up /\ f = x.focus /\ d = x.down
            /\ Len(u) \in Nat /\ Len(d) \in Nat
            /\ (u = Nil <=> Len(u) = 0) /\ (d = Nil <=> Len(d) = 0)
  BY ZipParts
<1>2. Reverse(u) \in Lists /\ Len(Reverse(u)) = Len(u)
  BY ReverseLaws
<1>3. /\ Flatten(Z(u, f, d)) \in Lists /\ Flatten(Z(u, f, d)) = Cat(Reverse(u), Cat(One(f), d))
      /\ Len(Flatten(Z(u, f, d))) = Len(u) + Len(d) + 1
  BY FlattenMade, Zenon
<1>4. PICK r \in Lists, s \in Lists, a \in Nat, b \in Nat :
            r = Reverse(u) /\ s = Flatten(x) /\ a = Len(u) /\ b = Len(d)
  BY <1>1, <1>2, <1>3, Zenon
<1>5. Len(r) = a /\ s = Cat(r, Cat(One(f), d)) /\ Len(s) = a + b + 1
  BY ONLY <1>1, <1>2, <1>3, <1>4
<1>6. /\ x = Z(u, f, d) /\ u = x.up /\ f = x.focus /\ d = x.down
      /\ a = Len(u) /\ b = Len(d) /\ (u = Nil <=> a = 0) /\ (d = Nil <=> b = 0)
      /\ r = Reverse(u) /\ Len(r) = a
      /\ s = Flatten(x) /\ s = Cat(r, Cat(One(f), d)) /\ Len(s) = a + b + 1
  BY ONLY <1>1, <1>4, <1>5
<1>7. Parts(x, u, d, r, s, f, a, b)
  BY ONLY <1>6 DEF Parts
<1> QED
  BY <1>7

(* insert_at, at each of the five positions.                                *)
LEMMA InsertAtFocus ==
  ASSUME NEW x \in Zips, NEW t \in Elem, NEW y, y = InsertAtPos(x, "Focus", t)
  PROVE  /\ y \in Zips /\ Flatten(y) = InsertAt(Flatten(x), Len(x.up) + 1, t)
         /\ Len(y.up) = Len(x.up)
<1>1. PICK u \in Lists, d \in Lists, r \in Lists, s \in Lists, f \in Elem, a \in Nat, b \in Nat :
            /\ x = Z(u, f, d) /\ u = x.up /\ f = x.focus /\ d = x.down
            /\ a = Len(u) /\ b = Len(d) /\ (u = Nil <=> a = 0) /\ (d = Nil <=> b = 0)
            /\ r = Reverse(u) /\ Len(r) = a
            /\ s = Flatten(x) /\ s = Cat(r, Cat(One(f), d)) /\ Len(s) = a + b + 1
  BY ZipSplit DEF Parts
<1>2. PICK c \in Lists : c = Cat(One(f), d)
  BY ONLY OneLaws, CatLaws, f \in Elem, d \in Lists, Zenon
<1>3. y = Z(u, t, c)
  BY <1>1, <1>2, Zenon DEF InsertAtPos, Cat, One
<1>4. /\ Z(u, t, c) \in Zips /\ Z(u, t, c).up = u
      /\ Flatten(Z(u, t, c)) = Cat(Reverse(u), Cat(One(t), c))
  BY ONLY FlattenMade, u \in Lists, t \in Elem, c \in Lists
<1>5. InsertAt(Cat(r, c), Len(r) + 1, t) = Cat(r, Cat(One(t), c))
  BY ONLY InsertLaw, r \in Lists, t \in Elem, c \in Lists
<1> QED
  BY ONLY <1>1, <1>2, <1>3, <1>4, <1>5

(* ... before the focused element, which keeps the focus, ...               *)
LEMMA InsertAtBefore ==
  ASSUME NEW x \in Zips, NEW t \in Elem, NEW y, y = InsertAtPos(x, "Before", t)
  PROVE  /\ y \in Zips /\ Flatten(y) = InsertAt(Flatten(x), Len(x.up) + 1, t)
         /\ Len(y.up) = Len(x.up) + 1
<1>1. PICK u \in Lists, d \in Lists, r \in Lists, s \in Lists, f \in Elem, a \in Nat, b \in Nat :
            /\ x = Z(u, f, d) /\ u = x.up /\ f = x.focus /\ d = x.down
            /\ a = Len(u) /\ b = Len(d) /\ (u = Nil <=> a = 0) /\ (d = Nil <=> b = 0)
            /\ r = Reverse(u) /\ Len(r) = a
            /\ s = Flatten(x) /\ s = Cat(r, Cat(One(f), d)) /\ Len(s) = a + b + 1
  BY ZipSplit DEF Parts
<1>2. PICK q \in Lists : q = One(t) /\ Len(q) = 1 /\ Reverse(q) = q
  BY ONLY OneLaws, ReverseLaws, t \in Elem
<1>3. PICK c \in Lists : c = Cat(One(f), d)
  BY ONLY OneLaws, CatLaws, f \in Elem, d \in Lists
<1>4. PICK w \in Lists : w = Cat(q, u) /\ Len(w) = Len(q) + Len(u)
  BY ONLY CatLaws, q \in Lists, u \in Lists, Zenon
<1>5. y = Z(w, f, d)
  BY <1>1, <1>2, <1>4, Zenon DEF InsertAtPos, Cat, One
<1>6. Reverse(Cat(q, u)) = Cat(Reverse(u), Reverse(q))
  BY ONLY ReverseLaws, q \in Lists, u \in Lists
<1>7. /\ Z(w, f, d) \in Zips /\ Z(w, f, d).up = w
      /\ Flatten(Z(w, f, d)) = Cat(Reverse(w), Cat(One(f), d))
  BY ONLY FlattenMade, w \in Lists, f \in Elem, d \in Lists
<1>8. Cat(Cat(r, q), c) = Cat(r, Cat(q, c))
  BY ONLY AssocLaw, r \in Lists, q \in Lists, c \in Lists
<1>9. InsertAt(Cat(r, c), Len(r) + 1, t) = Cat(r, Cat(One(t), c))
  BY ONLY InsertLaw, r \in Lists, t \in Elem, c \in Lists, Zenon
<1>10. Flatten(y) = InsertAt(Flatten(x), Len(x.up) + 1, t)
  BY ONLY <1>1, <1>2, <1>3, <1>4, <1>5, <1>6, <1>7, <1>8, <1>9
<1>11. Len(y.up) = Len(x.up) + 1
  BY ONLY <1>1, <1>2, <1>4, <1>5, <1>7, a \in Nat
<1> QED
  BY ONLY <1>5, <1>7, <1>10, <1>11

(* ... behind the focused element, ...                                      *)
LEMMA InsertAtAfter ==
  ASSUME NEW x \in Zips, NEW t \in Elem, NEW y, y = InsertAtPos(x, "After", t)
  PROVE  /\ y \in Zips /\ Flatten(y) = InsertAt(Flatten(x), Len(x.up) + 1 + 1, t)
         /\ Len(y.up) = Len(x.up)
<1>1. PICK u \in Lists, d \in Lists, r \in Lists, s \in Lists, f \in Elem, a \in Nat, b \in Nat :
            /\ x = Z(u, f, d) /\ u = x.up /\ f = x.focus /\ d = x.down
            /\ a = Len(u) /\ b = Len(d) /\ (u = Nil <=> a = 0) /\ (d = Nil <=> b = 0)
            /\ r = Reverse(u) /\ Len(r) = a
            /\ s = Flatten(x) /\ s = Cat(r, Cat(One(f), d)) /\ Len(s) = a + b + 1
  BY ZipSplit DEF Parts
<1>2. PICK q \in Lists, o \in Lists : q = One(t) /\ o = One(f) /\ Len(o) = 1
  BY ONLY OneLaws, t \in Elem, f \in Elem
<1>3. PICK w \in Lists : w = Cat(q, d)
  BY ONLY CatLaws, q \in Lists, d \in Lists
<1>4. PICK v \in Lists : v = Cat(r, o) /\ Len(v) = Len(r) + Len(o)
  BY ONLY CatLaws, r \in Lists, o \in Lists, Zenon
<1>5. y = Z(u, f, w)
  BY <1>1, <1>2, <1>3, Zenon DEF InsertAtPos, Cat, One
<1>6. /\ Z(u, f, w) \in Zips /\ Z(u, f, w).up = u
      /\ Flatten(Z(u, f, w)) = Cat(Reverse(u), Cat(One(f), w))
  BY ONLY FlattenMade, u \in Lists, f \in Elem, w \in Lists
<1>7. Cat(Cat(r, o), w) = Cat(r, Cat(o, w)) /\ Cat(Cat(r, o), d) = Cat(r, Cat(o, d))
  BY ONLY AssocLaw, r \in Lists, o \in Lists, w \in Lists, d \in Lists
<1>8. InsertAt(Cat(v, d), Len(v) + 1, t) = Cat(v, Cat(One(t), d))
  BY ONLY InsertLaw, v \in Lists, t \in Elem, d \in Lists, Zenon
<1>9. Len(v) = Len(x.up) + 1
  BY ONLY <1>1, <1>2, <1>4
<1> QED
  BY ONLY <1>1, <1>2, <1>3, <1>4, <1>5, <1>6, <1>7, <1>8, <1>9

(* ... at the head ...                                                      *)
LEMMA InsertAtHead ==
  ASSUME NEW x \in Zips, NEW t \in Elem, NEW y, y = InsertAtPos(x, "Head", t)
  PROVE  /\ y \in Zips /\ Flatten(y) = InsertAt(Flatten(x), 1, t)
         /\ Len(y.up) = Len(x.up) + 1
<1>1. PICK u \in Lists, d \in Lists, r \in Lists, s \in Lists, f \in Elem, a \in Nat, b \in Nat :
            /\ x = Z(u, f, d) /\ u = x.up /\ f = x.focus /\ d = x.down
            /\ a = Len(u) /\ b = Len(d) /\ (u = Nil <=> a = 0) /\ (d = Nil <=> b = 0)
            /\ r = Reverse(u) /\ Len(r) = a
            /\ s = Flatten(x) /\ s = Cat(r, Cat(One(f), d)) /\ Len(s) = a + b + 1
  BY ZipSplit DEF Parts
<1>2. PICK q \in Lists : q = One(t) /\ Len(q) = 1 /\ Reverse(q) = q
  BY ONLY OneLaws, ReverseLaws, t \in Elem
<1>3. PICK c \in Lists : c = Cat(One(f), d)
  BY ONLY OneLaws, CatLaws, f \in Elem, d \in Lists
<1>4. PICK w \in Lists : w = Cat(u, q) /\ Len(w) = Len(u) + Len(q)
  BY ONLY CatLaws, q \in Lists, u \in Lists
<1>5. y = Z(w, f, d)
  <2>1. Append(u, t) = w
    BY ONLY <1>2, <1>4, AppendLaw, u \in Lists, t \in Elem
  <2>2. y = Z(Append(u, t), f, d)
    BY <1>1 DEF InsertAtPos
  <2> QED
    BY <2>1, <2>2
<1>6. Reverse(Cat(u, q)) = Cat(Reverse(q), Reverse(u))
  BY ONLY ReverseLaws, q \in Lists, u \in Lists
<1>7. /\ Z(w, f, d) \in Zips /\ Z(w, f, d).up = w
      /\ Flatten(Z(w, f, d)) = Cat(Reverse(w), Cat(One(f), d))
  BY ONLY FlattenMade, w \in Lists, f \in Elem, d \in Lists
<1>8. Cat(Cat(q, r), c) = Cat(q, Cat(r, c))
  BY ONLY AssocLaw, r \in Lists, q \in Lists, c \in Lists
<1>9. InsertAt(s, 1, t) = Cat(q, s)
  <2>1. Len(Nil) = 0 /\ Cat(Nil, s) = s /\ Nil \in Lists
    BY ONLY NilLaws, s \in Lists
  <2>2. InsertAt(Cat(Nil, s), Len(Nil) + 1, t) = Cat(Nil, Cat(One(t), s))
    BY ONLY <2>1, InsertLaw, s \in Lists, t \in Elem
  <2>3. Cat(q, s) \in Lists
    BY ONLY CatLaws, q \in Lists, s \in Lists
  <2>4. Cat(Nil, Cat(q, s)) = Cat(q, s)
    BY ONLY <2>3, NilLaws
  <2>5. Len(Nil) + 1 = 1
    BY <2>1, SMTT(40)
  <2> QED
    BY ONLY <1>2, <2>1, <2>2, <2>4, <2>5
<1>10. Flatten(y) = InsertAt(Flatten(x), 1, t)
  BY ONLY <1>1, <1>2, <1>3, <1>4, <1>5, <1>6, <1>7, <1>8, <1>9
<1>11. Len(y.up) = Len(x.up) + 1
  BY ONLY <1>1, <1>2, <1>4, <1>5, <1>7, a \in Nat
<1> QED
  BY ONLY <1>5, <1>7, <1>10, <1>11

(* ... and at the tail.                                                     *)
LEMMA InsertAtTail ==
  ASSUME NEW x \in Zips, NEW t \in Elem, NEW y, y = InsertAtPos(x, "Tail", t)
  PROVE  /\ y \in Zips /\ Flatten(y) = InsertAt(Flatten(x), Len(Flatten(x)) + 1, t)
         /\ Len(y.up) = Len(x.up)
<1>1. PICK u \in Lists, d \in Lists, r \in Lists, s \in Lists, f \in Elem, a \in Nat, b \in Nat :
            /\ x = Z(u, f, d) /\ u = x.up /\ f = x.focus /\ d = x.down
            /\ a = Len(u) /\ b = Len(d) /\ (u = Nil <=> a = 0) /\ (d = Nil <=> b = 0)
            /\ r = Reverse(u) /\ Len(r) = a
            /\ s = Flatten(x) /\ s = Cat(r, Cat(One(f), d)) /\ Len(s) = a + b + 1
  BY ZipSplit DEF Parts
<1>2. PICK q \in Lists, o \in Lists : q = One(t) /\ o = One(f)
  BY ONLY OneLaws, t \in Elem, f \in Elem
<1>3. PICK c \in Lists, w \in Lists : c = Cat(o, d) /\ w = Cat(d, q)
  BY ONLY CatLaws, o \in Lists, d \in Lists, q \in Lists
<1>5. y = Z(u, f, w)
  <2>1. Append(d, t) = w
    BY ONLY <1>2, <1>3, AppendLaw, d \in Lists, t \in Elem
  <2>2. y = Z(u, f, Append(d, t))
    BY <1>1 DEF InsertAtPos
  <2> QED
    BY <2>1, <2>2
<1>6. /\ Z(u, f, w) \in Zips /\ Z(u, f, w).up = u
      /\ Flatten(Z(u, f, w)) = Cat(Reverse(u), Cat(One(f), w))
  BY ONLY FlattenMade, u \in Lists, f \in Elem, w \in Lists, Zenon
<1>7. Cat(r, Cat(o, w)) = Cat(s, q)
  <2>1. Cat(Cat(o, d), q) = Cat(o, Cat(d, q))
    BY ONLY AssocLaw, o \in Lists, d \in Lists, q \in Lists
  <2>2. Cat(Cat(r, c), q) = Cat(r, Cat(c, q))
    BY ONLY AssocLaw, r \in Lists, c \in Lists, q \in Lists
  <2> QED
    BY ONLY <1>1, <1>2, <1>3, <2>1, <2>2
<1>9. InsertAt(s, Len(s) + 1, t) = Cat(s, q)
  <2>1. Cat(q, Nil) = q /\ Cat(s, Nil) = s /\ Nil \in Lists
    BY ONLY NilLaws, s \in Lists, q \in Lists
  <2>2. InsertAt(Cat(s, Nil), Len(s) + 1, t) = Cat(s, Cat(One(t), Nil))
    BY ONLY <2>1, InsertLaw, s \in Lists, t \in Elem
  <2> QED
    BY ONLY <1>2, <2>1, <2>2
<1> QED
  BY ONLY <1>1, <1>2, <1>5, <1>6, <1>7, <1>9

(* remove_focused_unchecked.                                                *)
LEMMA RemoveFocusedFacts ==
  ASSUME NEW x \in Zips, Len(Flatten(x)) > 1, NEW y, y = RemoveFocused(x)
  PROVE  /\ y \in Zips /\ Flatten(y) = RemoveAt(Flatten(x), Len(x.up) + 1)
         /\ Len(y.up) + 1 = Min({Len(x.up) + 1, Len(Flatten(x)) - 1})
<1>1. PICK u \in Lists, d \in Lists, r \in Lists, s \in Lists, f \in Elem, a \in Nat, b \in Nat :
            /\ x = Z(u, f, d) /\ u = x.up /\ f = x.focus /\ d = x.down
            /\ a = Len(u) /\ b = Len(d) /\ (u = Nil <=> a = 0) /\ (d = Nil <=> b = 0)
            /\ r = Reverse(u) /\ Len(r) = a
            /\ s = Flatten(x) /\ s = Cat(r, Cat(One(f), d)) /\ Len(s) = a + b + 1
  BY ZipSplit, Zenon DEF Parts
<1>2. RemoveAt(Cat(r, Cat(One(f), d)), Len(r) + 1) = Cat(r, d)
  BY ONLY RemoveLaw, r \in Lists, f \in Elem, d \in Lists
<1>3. RemoveAt(s, a + 1) = Cat(r, d)
  BY ONLY <1>1, <1>2
<1>4. Len(x.up) = a /\ Flatten(x) = s /\ Len(s) = a + b + 1
  BY ONLY <1>1
<1>b. PICK p, q : p = Len(x.up) + 1 /\ q = Len(Flatten(x)) - 1
  OBVIOUS
<1>c. p = a + 1 /\ q = a + b + 1 - 1
  BY ONLY <1>4, <1>b
<1>d. Min({Len(x.up) + 1, Len(Flatten(x)) - 1}) = Min({a + 1, a + b + 1 - 1})
  BY ONLY <1>b, <1>c, Zenon
<1>e. RemoveAt(Flatten(x), Len(x.up) + 1) = Cat(r, d)
  BY ONLY <1>3, <1>4, Zenon
<1>a. SUFFICES y \in Zips /\ Flatten(y) = Cat(r, d) /\ Len(y.up) + 1 = Min({a + 1, a + b + 1 - 1})
  BY <1>d, <1>e, Zenon
<1>5. a + b + 1 > 1
  BY <1>1, Zenon
<1>8. CASE d # Nil
  <2>1. PICK h \in Elem, t \in Lists : h = Head(d) /\ t = Tail(d) /\ d = Cat(One(h), t)
    BY ONLY <1>8, HeadLaw, d \in Lists, Zenon
  <2>2. y = Z(u, h, t)
    BY <1>1, <1>8, <2>1, Zenon DEF RemoveFocused, Nil
  <2>3. /\ Z(u, h, t) \in Zips /\ Z(u, h, t).up = u
        /\ Flatten(Z(u, h, t)) = Cat(Reverse(u), Cat(One(h), t))
    BY ONLY FlattenMade, u \in Lists, h \in Elem, t \in Lists
  <2>4. Min({a + 1, a + b + 1 - 1}) = a + 1
    <3>1. b # 0
      BY ONLY <1>1, <1>8
    <3>2. a + 1 \in Int /\ a + b + 1 - 1 \in Int /\ a + 1 <= a + b + 1 - 1
      BY ONLY <3>1, a \in Nat, b \in Nat, SMTT(40)
    <3> QED
      BY ONLY <3>2, MinOfTwo
  <2> QED
    BY ONLY <1>1, <2>1, <2>2, <2>3, <2>4, Zenon
<1>9. CASE d = Nil
  <2>0. b = 0
    BY ONLY <1>1, <1>9
  <2>a. a # 0
    BY ONLY <1>5, <2>0, a \in Nat
  <2>1. u # Nil
    BY ONLY <1>1, <2>a
  <2>2. PICK h \in Elem, t \in Lists : h = Head(u) /\ t = Tail(u) /\ u = Cat(One(h), t)
    BY ONLY <2>1, HeadLaw, u \in Lists
  <2>3. PICK v \in Lists, g \in Lists : v = Reverse(t) /\ g = One(h) /\ Len(g) = 1 /\ Reverse(g) = g
    BY ONLY ReverseLaws, OneLaws, t \in Lists, h \in Elem
  <2>4. y = Z(t, h, Nil)
    BY <1>1, <1>9, <2>2 DEF RemoveFocused, Nil
  <2>5. /\ Z(t, h, Nil) \in Zips /\ Z(t, h, Nil).up = t
        /\ Flatten(Z(t, h, Nil)) = Cat(Reverse(t), Cat(One(h), Nil))
    BY ONLY FlattenMade, t \in Lists, h \in Elem, NilLaws
  <2>6. Len(Cat(g, t)) = Len(g) + Len(t) /\ Len(t) \in Nat
    BY ONLY CatLaws, g \in Lists, t \in Lists
  <2>7. Reverse(Cat(g, t)) = Cat(Reverse(t), Reverse(g))
    BY ONLY ReverseLaws, g \in Lists, t \in Lists
  <2>8. Cat(g, Nil) = g /\ Cat(r, d) = r
    BY ONLY <1>9, NilLaws, g \in Lists, r \in Lists
  <2>9. Min({a + 1, a + b + 1 - 1}) = a
    <3>1. a + 1 \in Int /\ a + b + 1 - 1 \in Int /\ ~(a + 1 <= a + b + 1 - 1) /\ a + b + 1 - 1 = a
      BY ONLY <2>0, a \in Nat, b \in Nat
    <3> QED
      BY ONLY <3>1, MinOfTwo
  <2>10. Len(t) + 1 = a
    <3>1. a = Len(u) /\ u = Cat(g, t) /\ Len(g) = 1
      BY ONLY <1>1, <2>2, <2>3
    <3> QED
      BY ONLY <3>1, <2>6, a \in Nat, SMTT(40)
  <2> QED
    BY ONLY <1>1, <2>2, <2>3, <2>4, <2>5, <2>7, <2>8, <2>9, <2>10, Zenon
<1> QED
  BY <1>8, <1>9

-----------------------------------------------------------------------------
(* The focused element moves to another place, the others stay in order.    *)

Moved(x, y, i) ==
  /\ y \in Zips
  /\ Flatten(y) = InsertAt(RemoveAt(Flatten(x), Len(x.up) + 1), i, Flatten(x)[Len(x.up) + 1])
  /\ Len(y.up) + 1 = i
  /\ Distinct(Flatten(x)) => Distinct(Flatten(y))

(* It does when the parts around it put together are what they were.        *)
LEMMA MovedFacts ==
  ASSUME NEW x \in Zips, NEW u \in Lists, NEW d \in Lists, NEW f \in Elem, x = Z(u, f, d),
         NEW v \in Lists, NEW e \in Lists, Cat(Reverse(v), e) = Cat(Reverse(u), d)
  PROVE  Moved(x, Z(v, f, e), Len(v) + 1)
<1>1. PICK r \in Lists, q \in Lists : r = Reverse(u) /\ q = Reverse(v) /\ Len(r) = Len(u) /\ Len(q) = Len(v)
  BY ReverseLaws
<1>2. PICK s \in Lists : s = Flatten(x) /\ s = Cat(r, Cat(One(f), d)) /\ Len(x.up) = Len(r)
  <2>1. /\ Z(u, f, d).up = u /\ Flatten(Z(u, f, d)) \in Lists
        /\ Flatten(Z(u, f, d)) = Cat(Reverse(u), Cat(One(f), d))
    BY ONLY FlattenMade, u \in Lists, f \in Elem, d \in Lists
  <2> QED
    BY ONLY <1>1, <2>1, x = Z(u, f, d)
<1>3. PICK y : y = Z(v, f, e)
  OBVIOUS
<1>4. y \in Zips /\ y.up = v /\ Flatten(y) = Cat(q, Cat(One(f), e))
  <2>1. /\ Z(v, f, e) \in Zips /\ Z(v, f, e).up = v
        /\ Flatten(Z(v, f, e)) = Cat(Reverse(v), Cat(One(f), e))
    BY ONLY FlattenMade, v \in Lists, f \in Elem, e \in Lists
  <2> QED
    BY ONLY <1>1, <1>3, <2>1
<1>5. PICK w \in Lists : w = Cat(r, d) /\ w = Cat(q, e)
  BY <1>1, CatLaws
<1>6. RemoveAt(s, Len(r) + 1) = w /\ s[Len(r) + 1] = f
  <2>1. RemoveAt(Cat(r, Cat(One(f), d)), Len(r) + 1) = Cat(r, d)
    BY ONLY RemoveLaw, r \in Lists, f \in Elem, d \in Lists
  <2>2. Cat(r, Cat(One(f), d))[Len(r) + 1] = f
    BY ONLY AtLaw, r \in Lists, f \in Elem, d \in Lists
  <2> QED
    BY ONLY <1>2, <1>5, <2>1, <2>2
<1>7. InsertAt(w, Len(q) + 1, f) = Cat(q, Cat(One(f), e))
  BY ONLY <1>5, InsertLaw, q \in Lists, f \in Elem, e \in Lists
<1>8. Flatten(y) = InsertAt(RemoveAt(Flatten(x), Len(x.up) + 1), Len(v) + 1, Flatten(x)[Len(x.up) + 1])
  BY ONLY <1>1, <1>2, <1>4, <1>6, <1>7
<1>9. Distinct(s) => Distinct(Flatten(y))
  <2>1. Distinct(Cat(r, Cat(One(f), d))) <=> Distinct(Cat(r, d)) /\ f \notin ToSet(Cat(r, d))
    BY ONLY DistinctBetween, r \in Lists, f \in Elem, d \in Lists
  <2>2. Distinct(Cat(q, Cat(One(f), e))) <=> Distinct(Cat(q, e)) /\ f \notin ToSet(Cat(q, e))
    BY ONLY DistinctBetween, q \in Lists, f \in Elem, e \in Lists
  <2> QED
    BY ONLY <1>2, <1>4, <1>5, <2>1, <2>2
<1> QED
  BY ONLY <1>2, <1>3, <1>4, <1>8, <1>9 DEF Moved

(* swap_up ...                                                              *)
LEMMA SwapUpFacts ==
  ASSUME NEW x \in Zips
  PROVE  Moved(x, SwapUp(x), Ring(Len(Flatten(x)), Len(x.up) + 1 - 1))
<1>1. PICK u \in Lists, d \in Lists, r \in Lists, s \in Lists, f \in Elem, a \in Nat, b \in Nat :
            /\ x = Z(u, f, d) /\ u = x.up /\ f = x.focus /\ d = x.down
            /\ a = Len(u) /\ b = Len(d) /\ (u = Nil <=> a = 0) /\ (d = Nil <=> b = 0)
            /\ r = Reverse(u) /\ Len(r) = a
            /\ s = Flatten(x) /\ s = Cat(r, Cat(One(f), d)) /\ Len(s) = a + b + 1
  BY ZipSplit, Zenon DEF Parts
<1>2. PICK n \in Nat \ {0} : n = a + b + 1
  OBVIOUS
<1>3. Len(Flatten(x)) = n /\ Len(x.up) = a
  BY ONLY <1>1, <1>2
<1>4. SUFFICES Moved(x, SwapUp(x), Ring(n, a + 1 - 1))
  BY <1>3, Zenon
<1>5. CASE u # Nil
  <2>1. PICK h \in Elem, t \in Lists : h = Head(u) /\ t = Tail(u) /\ u = Cat(One(h), t)
    BY ONLY <1>5, HeadLaw, u \in Lists
  <2>2. PICK o \in Lists, v \in Lists : o = One(h) /\ v = Reverse(t) /\ Reverse(o) = o /\ Len(o) = 1
    BY OneLaws, ReverseLaws
  <2>3. PICK e \in Lists : e = Cat(o, d)
    BY CatLaws
  <2>4. Reverse(Cat(o, t)) = Cat(v, o)
    BY ONLY <2>2, ReverseLaws, o \in Lists, t \in Lists
  <2>5. Cat(Cat(v, o), d) = Cat(v, Cat(o, d))
    BY ONLY AssocLaw, v \in Lists, o \in Lists, d \in Lists
  <2>6. Cat(Reverse(t), e) = Cat(Reverse(u), d)
    BY ONLY <2>1, <2>2, <2>3, <2>4, <2>5
  <2>7. Moved(x, Z(t, f, e), Len(t) + 1)
    BY ONLY <1>1, <2>6, MovedFacts, x \in Zips, u \in Lists, d \in Lists, f \in Elem, t \in Lists, e \in Lists, Zenon
  <2>8. SwapUp(x) = Z(t, f, e)
    BY <1>1, <1>5, <2>1, <2>2, <2>3, Zenon DEF SwapUp, Nil, Cat, One
  <2>9. Len(t) + 1 = a
    <3>1. Len(Cat(o, t)) = Len(o) + Len(t) /\ Len(t) \in Nat
      BY ONLY CatLaws, o \in Lists, t \in Lists, Zenon
    <3>2. a = Len(Cat(o, t)) /\ Len(o) = 1
      BY ONLY <1>1, <2>1, <2>2
    <3> QED
      BY ONLY <3>1, <3>2
  <2>10. Ring(n, a + 1 - 1) = a
    <3>1. a # 0
      BY ONLY <1>1, <1>5
    <3>2. a \in 1..n /\ a + 1 - 1 = a
      BY ONLY <1>2, <3>1, a \in Nat, b \in Nat
    <3> QED
      BY <3>2, RingFacts
  <2> QED
    BY ONLY <2>7, <2>8, <2>9, <2>10
<1>6. CASE u = Nil
  <2>1. PICK v \in Lists : v = Reverse(d) /\ Reverse(v) = d /\ Len(v) = b
    BY ONLY <1>1, ReverseLaws, d \in Lists
  <2>2. Cat(Reverse(v), Nil) = Cat(Reverse(u), d)
    <3>1. Cat(d, Nil) = d /\ Cat(Nil, d) = d /\ Reverse(Nil) = Nil
      BY NilLaws, ReverseLaws, Zenon
    <3> QED
      BY ONLY <1>6, <2>1, <3>1
  <2>3. Moved(x, Z(v, f, Nil), Len(v) + 1)
    BY ONLY <1>1, <2>2, MovedFacts, NilLaws, x \in Zips, u \in Lists, d \in Lists, f \in Elem, v \in Lists, Zenon
  <2>4. SwapUp(x) = Z(v, f, Nil)
    BY <1>1, <1>6, <2>1 DEF SwapUp, Nil
  <2>5. a = 0 /\ b + 1 = n /\ a + 1 - 1 = 0
    <3>1. a = 0
      BY ONLY <1>1, <1>6
    <3> QED
      BY ONLY <1>2, <3>1, b \in Nat, SMTT(40)
  <2>6. Ring(n, 0) = n
    <3>1. 0 \in 1 - n..0 /\ 0 + n = n /\ 0 \in Int
      OBVIOUS
    <3> QED
      BY <3>1, RingFacts
  <2> QED
    BY ONLY <2>1, <2>3, <2>4, <2>5, <2>6, Zenon
<1> QED
  BY <1>5, <1>6

(* ... and swap_down.                                                       *)
LEMMA SwapDownFacts ==
  ASSUME NEW x \in Zips
  PROVE  Moved(x, SwapDown(x), Ring(Len(Flatten(x)), Len(x.up) + 1 + 1))
<1>1. PICK u \in Lists, d \in Lists, r \in Lists, s \in Lists, f \in Elem, a \in Nat, b \in Nat :
            /\ x = Z(u, f, d) /\ u = x.up /\ f = x.focus /\ d = x.down
            /\ a = Len(u) /\ b = Len(d) /\ (u = Nil <=> a = 0) /\ (d = Nil <=> b = 0)
            /\ r = Reverse(u) /\ Len(r) = a
            /\ s = Flatten(x) /\ s = Cat(r, Cat(One(f), d)) /\ Len(s) = a + b + 1
  BY ZipSplit DEF Parts
<1>2. PICK n \in Nat \ {0} : n = a + b + 1
  OBVIOUS
<1>3. Len(Flatten(x)) = n /\ Len(x.up) = a
  BY ONLY <1>1, <1>2
<1>4. SUFFICES Moved(x, SwapDown(x), Ring(n, a + 1 + 1))
  BY <1>3, Zenon
<1>5. CASE d # Nil
  <2>1. PICK h \in Elem, t \in Lists : h = Head(d) /\ t = Tail(d) /\ d = Cat(One(h), t)
    BY ONLY <1>5, HeadLaw, d \in Lists
  <2>2. PICK o \in Lists : o = One(h) /\ Reverse(o) = o /\ Len(o) = 1
    BY OneLaws, ReverseLaws
  <2>3. PICK v \in Lists : v = Cat(o, u)
    BY CatLaws
  <2>4. Reverse(Cat(o, u)) = Cat(r, o)
    <3>1. Reverse(Cat(o, u)) = Cat(Reverse(u), Reverse(o))
      BY ONLY ReverseLaws, o \in Lists, u \in Lists
    <3> QED
      BY ONLY <1>1, <2>2, <3>1
  <2>5. Cat(Cat(r, o), t) = Cat(r, Cat(o, t))
    BY ONLY AssocLaw, r \in Lists, o \in Lists, t \in Lists
  <2>6. Cat(Reverse(v), t) = Cat(Reverse(u), d)
    BY ONLY <1>1, <2>1, <2>2, <2>3, <2>4, <2>5, Zenon
  <2>7. Moved(x, Z(v, f, t), Len(v) + 1)
    BY ONLY <1>1, <2>6, MovedFacts, x \in Zips, u \in Lists, d \in Lists, f \in Elem, t \in Lists, v \in Lists, Zenon
  <2>8. SwapDown(x) = Z(v, f, t)
    BY <1>1, <1>5, <2>1, <2>2, <2>3, Zenon DEF SwapDown, Nil, Cat, One
  <2>9. Len(v) = a + 1
    <3>1. Len(Cat(o, u)) = Len(o) + Len(u)
      BY ONLY CatLaws, o \in Lists, u \in Lists
    <3> QED
      BY ONLY <1>1, <2>2, <2>3, <3>1, a \in Nat
  <2>10. Ring(n, a + 1 + 1) = a + 1 + 1
    <3>1. b # 0
      BY ONLY <1>1, <1>5
    <3>2. a + 1 + 1 \in 1..n
      BY ONLY <1>2, <3>1, a \in Nat, b \in Nat
    <3> QED
      BY <3>2, RingFacts
  <2> QED
    BY ONLY <2>7, <2>8, <2>9, <2>10
<1>6. CASE d = Nil
  <2>1. Cat(Reverse(Nil), r) = Cat(Reverse(u), d) /\ Nil \in Lists /\ Len(Nil) = 0
    <3>1. Cat(r, Nil) = r /\ Cat(Nil, r) = r /\ Reverse(Nil) = Nil /\ Nil \in Lists /\ Len(Nil) = 0
      BY NilLaws, ReverseLaws
    <3> QED
      BY ONLY <1>1, <1>6, <3>1
  <2>2. Moved(x, Z(Nil, f, r), Len(Nil) + 1)
    BY ONLY <1>1, <2>1, MovedFacts, x \in Zips, u \in Lists, d \in Lists, f \in Elem, r \in Lists
  <2>3. SwapDown(x) = Z(Nil, f, r)
    BY <1>1, <1>6 DEF SwapDown, Nil
  <2>4. a + 1 + 1 \in n + 1..2 * n /\ a + 1 + 1 - n = 1
    <3>1. b = 0
      BY ONLY <1>1, <1>6
    <3> QED
      BY ONLY <1>2, <3>1, a \in Nat
  <2>5. Ring(n, a + 1 + 1) = 1
    BY <2>4, RingFacts
  <2>6. Len(Nil) + 1 = 1
    BY ONLY <2>1
  <2> QED
    BY ONLY <2>2, <2>3, <2>5, <2>6
<1> QED
  BY <1>5, <1>6

-----------------------------------------------------------------------------
(* The whole list turns.                                                    *)

TurnOf(s, n, by) == [i \in 1..n |-> s[Ring(n, i + by)]]

(* Turning by the length of a part moves that part to the other end.        *)
LEMMA TurnCat ==
  ASSUME NEW p \in Lists, NEW q \in Lists, NEW k \in Nat, NEW n \in Nat \ {0}, NEW by \in Int,
         k = Len(p), n = Len(Cat(p, q)), by = k \/ by = k - n
  PROVE  TurnOf(Cat(p, q), n, by) = Cat(q, p)
<1>1. p \in Seq(Elem) /\ q \in Seq(Elem)
  BY DEF Lists
<1>2. PICK m \in Nat : m = Len(q)
  BY <1>1
<1>3. PICK s, c : s = p \o q /\ c = q \o p
  OBVIOUS
<1>4. s \in Seq(Elem) /\ Len(s) = k + m /\ (\A i \in 1..k : s[i] = p[i]) /\ \A i \in 1..m : s[k + i] = q[i]
  BY ONLY <1>1, <1>2, <1>3, CatFacts, k = Len(p)
<1>5. c \in Seq(Elem) /\ Len(c) = m + k /\ (\A i \in 1..m : c[i] = q[i]) /\ \A i \in 1..k : c[m + i] = p[i]
  BY ONLY <1>1, <1>2, <1>3, CatFacts, k = Len(p)
<1>6. n = k + m
  BY ONLY <1>3, <1>4, n = Len(Cat(p, q)) DEF Cat
<1>7. PICK w : w = [i \in 1..n |-> s[Ring(n, i + by)]]
  OBVIOUS
<1>8. ASSUME NEW i \in 1..n PROVE w[i] = c[i]
  <2>1. w[i] = s[Ring(n, i + by)]
    BY ONLY <1>7, i \in 1..n
  <2>2. CASE i \in 1..m
    <3>1. c[i] = q[i] /\ s[k + i] = q[i]
      BY ONLY <1>4, <1>5, <2>2
    <3>2. Ring(n, i + by) = k + i
      <4>1. CASE by = k
        <5>1. i + k \in Int /\ i + k \in 1..n /\ i + k = k + i
          BY ONLY <1>6, <2>2, k \in Nat, m \in Nat
        <5>2. Ring(n, i + k) = i + k
          BY ONLY <5>1, RingFacts, n \in Nat \ {0}
        <5> QED
          BY ONLY <4>1, <5>1, <5>2
      <4>2. CASE by = k - n
        <5>1. PICK j \in Int : j = i + by
          BY ONLY <2>2, m \in Nat, by \in Int
        <5>2. j \in 1 - n..0 /\ j + n = k + i
          BY ONLY <1>6, <2>2, <4>2, <5>1, k \in Nat, m \in Nat, n \in Nat \ {0}
        <5>3. Ring(n, j) = j + n
          BY ONLY <5>2, RingFacts, n \in Nat \ {0}, j \in Int
        <5> QED
          BY ONLY <5>1, <5>2, <5>3
      <4> QED
        BY <4>1, <4>2
    <3> QED
      BY ONLY <2>1, <3>1, <3>2
  <2>3. CASE i \notin 1..m
    <3>1. PICK j \in 1..k : m + j = i
      <4>1. i - m \in 1..k /\ m + (i - m) = i
        BY ONLY <1>6, <2>3, i \in 1..n, k \in Nat, m \in Nat
      <4> QED
        BY ONLY <4>1
    <3>2. c[i] = p[j] /\ s[j] = p[j]
      BY ONLY <1>4, <1>5, <3>1, j \in 1..k
    <3>3. Ring(n, i + by) = j
      <4>1. CASE by = k
        <5>1. PICK h \in Int : h = i + by
          BY ONLY <1>6, k \in Nat, m \in Nat, i \in 1..n, by \in Int
        <5>2. h \in n + 1..2 * n /\ h - n = j
          BY ONLY <1>6, <3>1, <4>1, <5>1, k \in Nat, m \in Nat, n \in Nat \ {0}, j \in 1..k
        <5>3. Ring(n, h) = h - n
          BY ONLY <5>2, RingFacts, n \in Nat \ {0}, h \in Int
        <5> QED
          BY ONLY <5>1, <5>2, <5>3
      <4>2. CASE by = k - n
        <5>1. i + by = j /\ j \in 1..n /\ j \in Int
          BY ONLY <1>6, <3>1, <4>2, k \in Nat, m \in Nat, n \in Nat \ {0}, j \in 1..k
        <5>2. Ring(n, j) = j
          BY ONLY <5>1, RingFacts, n \in Nat \ {0}
        <5> QED
          BY ONLY <5>1, <5>2
      <4> QED
        BY <4>1, <4>2
    <3> QED
      BY ONLY <2>1, <3>2, <3>3
  <2> QED
    BY <2>2, <2>3
<1>9. w = c
  <2>1. PICK g : g = [i \in 1..n |-> c[i]]
    OBVIOUS
  <2>2. g = c
    BY ONLY <1>5, <1>6, <2>1, k \in Nat, m \in Nat
  <2>3. w = g
    BY ONLY <1>7, <1>8, <2>1
  <2> QED
    BY ONLY <2>2, <2>3
<1> QED
  BY ONLY <1>3, <1>7, <1>9 DEF TurnOf, Cat

Turned(x, y, by) ==
  /\ y \in Zips
  /\ Flatten(y) = TurnOf(Flatten(x), Len(Flatten(x)), by)
  /\ Len(y.up) + 1 = Ring(Len(Flatten(x)), Len(x.up) + 1 - by)
  /\ Distinct(Flatten(x)) => Distinct(Flatten(y))

(* The list turns when two parts of it change places.                       *)
LEMMA TurnedFacts ==
  ASSUME NEW x \in Zips, NEW y \in Zips, NEW p \in Lists, NEW q \in Lists, NEW by \in Int,
         NEW n \in Nat \ {0}, n = Len(Flatten(x)),
         Flatten(x) = Cat(p, q), Flatten(y) = Cat(q, p),
         by = Len(p) \/ by = Len(p) - n,
         Len(y.up) + 1 = Ring(n, Len(x.up) + 1 - by)
  PROVE  Turned(x, y, by)
<1>1. Distinct(Cat(p, q)) => Distinct(Cat(q, p))
  BY ONLY DistinctTurn, p \in Lists, q \in Lists
<1>2. PICK k \in Nat : k = Len(p)
  BY CatLaws
<1>3. n = Len(Cat(p, q)) /\ (by = k \/ by = k - n)
  BY <1>2
<1>4. TurnOf(Cat(p, q), n, by) = Cat(q, p)
  BY ONLY <1>2, <1>3, TurnCat, p \in Lists, q \in Lists, k \in Nat, n \in Nat \ {0}, by \in Int
<1>5. Flatten(y) = TurnOf(Flatten(x), Len(Flatten(x)), by)
  BY ONLY <1>4, n = Len(Flatten(x)), Flatten(x) = Cat(p, q), Flatten(y) = Cat(q, p)
<1>6. Len(y.up) + 1 = Ring(Len(Flatten(x)), Len(x.up) + 1 - by)
  BY ONLY n = Len(Flatten(x)), Len(y.up) + 1 = Ring(n, Len(x.up) + 1 - by)
<1>7. Distinct(Flatten(x)) => Distinct(Flatten(y))
  BY ONLY <1>1, Flatten(x) = Cat(p, q), Flatten(y) = Cat(q, p)
<1> QED
  BY ONLY <1>5, <1>6, <1>7, y \in Zips DEF Turned

(* rotate_up, ...                                                           *)
LEMMA RotateUpFacts ==
  ASSUME NEW x \in Zips
  PROVE  Turned(x, RotateUp(x), 1)
<1>1. PICK u \in Lists, d \in Lists, r \in Lists, s \in Lists, f \in Elem, a \in Nat, b \in Nat :
            /\ x = Z(u, f, d) /\ u = x.up /\ f = x.focus /\ d = x.down
            /\ a = Len(u) /\ b = Len(d) /\ (u = Nil <=> a = 0) /\ (d = Nil <=> b = 0)
            /\ r = Reverse(u) /\ Len(r) = a
            /\ s = Flatten(x) /\ s = Cat(r, Cat(One(f), d)) /\ Len(s) = a + b + 1
  BY ZipSplit DEF Parts
<1>2. PICK n \in Nat \ {0} : n = a + b + 1
  OBVIOUS
<1>3. n = Len(Flatten(x)) /\ Len(x.up) = a
  BY ONLY <1>1, <1>2
<1>4. PICK g \in Lists : g = One(f) /\ Len(g) = 1
  BY OneLaws
<1>5. CASE u # Nil
  <2>1. PICK h \in Elem, t \in Lists : h = Last(u) /\ t = Front(u) /\ u = Cat(t, One(h))
    BY ONLY <1>5, LastLaw, u \in Lists
  <2>2. PICK o \in Lists, v \in Lists : o = One(h) /\ v = Reverse(t) /\ Reverse(o) = o /\ Len(o) = 1
    BY OneLaws, ReverseLaws
  <2>3. PICK e \in Lists, c \in Lists : e = Cat(d, o) /\ c = Cat(g, d)
    BY CatLaws
  <2>4. PICK w \in Lists : w = Cat(v, c)
    BY CatLaws, Zenon
  <2>5. r = Cat(o, v)
    <3>1. Reverse(Cat(t, o)) = Cat(Reverse(o), Reverse(t))
      BY ONLY ReverseLaws, o \in Lists, t \in Lists
    <3> QED
      BY ONLY <1>1, <2>1, <2>2, <3>1
  <2>6. Flatten(x) = Cat(o, w)
    <3>1. Cat(Cat(o, v), c) = Cat(o, Cat(v, c))
      BY ONLY AssocLaw, o \in Lists, v \in Lists, c \in Lists
    <3> QED
      BY ONLY <1>1, <1>4, <2>3, <2>4, <2>5, <3>1
  <2>7. Z(t, f, e) \in Zips /\ Z(t, f, e).up = t /\ Flatten(Z(t, f, e)) = Cat(v, Cat(g, e))
    BY ONLY <1>4, <2>2, FlattenMade, t \in Lists, f \in Elem, e \in Lists
  <2>8. Cat(v, Cat(g, e)) = Cat(w, o)
    <3>1. Cat(g, Cat(d, o)) = Cat(Cat(g, d), o)
      BY ONLY AssocLaw, g \in Lists, d \in Lists, o \in Lists
    <3>2. Cat(v, Cat(c, o)) = Cat(Cat(v, c), o)
      BY ONLY AssocLaw, v \in Lists, c \in Lists, o \in Lists, SMTT(40)
    <3> QED
      BY ONLY <2>3, <2>4, <3>1, <3>2
  <2>9. RotateUp(x) = Z(t, f, e)
    <3>1. Append(d, h) = e
      BY ONLY <2>2, <2>3, AppendLaw, d \in Lists, h \in Elem
    <3> QED
      BY <1>1, <1>5, <2>1, <3>1 DEF RotateUp, Nil
  <2>10. Len(t) + 1 = a
    <3>1. Len(Cat(t, o)) = Len(t) + Len(o) /\ Len(t) \in Nat
      BY ONLY CatLaws, o \in Lists, t \in Lists, Zenon
    <3>2. a = Len(Cat(t, o)) /\ Len(o) = 1
      BY ONLY <1>1, <2>1, <2>2
    <3> QED
      BY ONLY <3>1, <3>2
  <2>11. Ring(n, a + 1 - 1) = a
    <3>1. a # 0
      BY ONLY <1>1, <1>5
    <3>2. a \in 1..n /\ a + 1 - 1 = a
      BY ONLY <1>2, <3>1, a \in Nat, b \in Nat
    <3> QED
      BY <3>2, RingFacts
  <2>12. PICK y \in Zips : y = RotateUp(x) /\ Flatten(y) = Cat(w, o) /\ Len(y.up) + 1 = Ring(n, Len(x.up) + 1 - 1)
    BY ONLY <1>3, <2>7, <2>8, <2>9, <2>10, <2>11
  <2>13. 1 = Len(o) \/ 1 = Len(o) - n
    BY ONLY <2>2
  <2> QED
    BY ONLY <1>3, <2>6, <2>12, <2>13, TurnedFacts, 1 \in Int, x \in Zips, y \in Zips, o \in Lists, w \in Lists, n \in Nat \ {0}
<1>6. CASE u = Nil
  <2>1. PICK v \in Lists : v = Reverse(d) /\ Reverse(v) = d /\ Len(v) = b
    BY ONLY <1>1, ReverseLaws, d \in Lists, Zenon
  <2>2. Cat(g, Nil) = g /\ Nil \in Lists /\ r = Nil
    BY <1>1, <1>6, NilLaws, ReverseLaws
  <2>3. Z(v, f, Nil) \in Zips /\ Z(v, f, Nil).up = v /\ Flatten(Z(v, f, Nil)) = Cat(d, g)
    <3>1. Z(v, f, Nil) \in Zips /\ Z(v, f, Nil).up = v /\ Flatten(Z(v, f, Nil)) = Cat(Reverse(v), Cat(One(f), Nil))
      BY ONLY <2>2, FlattenMade, v \in Lists, f \in Elem
    <3> QED
      BY ONLY <1>4, <2>1, <2>2, <3>1
  <2>4. Flatten(x) = Cat(g, d)
    <3>1. Cat(g, d) \in Lists
      BY ONLY CatLaws, g \in Lists, d \in Lists
    <3>2. Cat(Nil, Cat(g, d)) = Cat(g, d)
      BY ONLY <3>1, NilLaws
    <3> QED
      BY ONLY <1>1, <1>4, <2>2, <3>2
  <2>5. RotateUp(x) = Z(v, f, Nil)
    BY <1>1, <1>6, <2>1 DEF RotateUp, Nil
  <2>6. a = 0 /\ b + 1 = n /\ a + 1 - 1 = 0
    <3>1. a = 0
      BY ONLY <1>1, <1>6
    <3> QED
      BY ONLY <1>2, <3>1, b \in Nat
  <2>7. Ring(n, 0) = n
    <3>1. 0 \in 1 - n..0 /\ 0 + n = n /\ 0 \in Int
      OBVIOUS
    <3> QED
      BY <3>1, RingFacts
  <2>8. PICK y \in Zips : y = RotateUp(x) /\ Flatten(y) = Cat(d, g) /\ Len(y.up) + 1 = Ring(n, Len(x.up) + 1 - 1)
    BY ONLY <1>3, <2>1, <2>3, <2>5, <2>6, <2>7
  <2>9. 1 = Len(g) \/ 1 = Len(g) - n
    BY ONLY <1>4
  <2> QED
    BY ONLY <1>3, <2>4, <2>8, <2>9, TurnedFacts, 1 \in Int, x \in Zips, y \in Zips, g \in Lists, d \in Lists, n \in Nat \ {0}
<1> QED
  BY <1>5, <1>6

(* ... rotate_down, ...                                                     *)
LEMMA RotateDownFacts ==
  ASSUME NEW x \in Zips
  PROVE  Turned(x, RotateDown(x), -1)
<1>1. PICK u \in Lists, d \in Lists, r \in Lists, s \in Lists, f \in Elem, a \in Nat, b \in Nat :
            /\ x = Z(u, f, d) /\ u = x.up /\ f = x.focus /\ d = x.down
            /\ a = Len(u) /\ b = Len(d) /\ (u = Nil <=> a = 0) /\ (d = Nil <=> b = 0)
            /\ r = Reverse(u) /\ Len(r) = a
            /\ s = Flatten(x) /\ s = Cat(r, Cat(One(f), d)) /\ Len(s) = a + b + 1
  BY ZipSplit DEF Parts
<1>2. PICK n \in Nat \ {0} : n = a + b + 1
  OBVIOUS
<1>3. n = Len(Flatten(x)) /\ Len(x.up) = a
  BY ONLY <1>1, <1>2
<1>4. PICK g \in Lists : g = One(f) /\ Len(g) = 1
  BY OneLaws
<1>5. CASE d # Nil
  <2>1. PICK h \in Elem, t \in Lists : h = Last(d) /\ t = Front(d) /\ d = Cat(t, One(h))
    BY ONLY <1>5, LastLaw, d \in Lists
  <2>2. PICK o \in Lists : o = One(h) /\ Reverse(o) = o /\ Len(o) = 1
    BY OneLaws, ReverseLaws
  <2>3. PICK v \in Lists, c \in Lists : v = Cat(u, o) /\ c = Cat(g, t)
    BY CatLaws
  <2>4. PICK w \in Lists : w = Cat(r, c) /\ Len(w) = Len(r) + Len(c)
    BY CatLaws
  <2>5. Reverse(v) = Cat(o, r)
    <3>1. Reverse(Cat(u, o)) = Cat(Reverse(o), Reverse(u))
      BY ONLY ReverseLaws, o \in Lists, u \in Lists, Zenon
    <3> QED
      BY ONLY <1>1, <2>2, <2>3, <3>1
  <2>6. Flatten(x) = Cat(w, o)
    <3>1. Cat(g, Cat(t, o)) = Cat(Cat(g, t), o)
      BY ONLY AssocLaw, g \in Lists, t \in Lists, o \in Lists
    <3>2. Cat(r, Cat(c, o)) = Cat(Cat(r, c), o)
      BY ONLY AssocLaw, r \in Lists, c \in Lists, o \in Lists
    <3> QED
      BY ONLY <1>1, <1>4, <2>1, <2>2, <2>3, <2>4, <3>1, <3>2
  <2>7. Z(v, f, t) \in Zips /\ Z(v, f, t).up = v /\ Flatten(Z(v, f, t)) = Cat(Cat(o, r), c)
    <3>1. Z(v, f, t) \in Zips /\ Z(v, f, t).up = v /\ Flatten(Z(v, f, t)) = Cat(Reverse(v), Cat(One(f), t))
      BY ONLY FlattenMade, v \in Lists, f \in Elem, t \in Lists
    <3> QED
      BY ONLY <1>4, <2>3, <2>5, <3>1
  <2>8. Cat(Cat(o, r), c) = Cat(o, w)
    <3>1. Cat(Cat(o, r), c) = Cat(o, Cat(r, c))
      BY ONLY AssocLaw, o \in Lists, r \in Lists, c \in Lists, SMTT(40)
    <3> QED
      BY ONLY <2>4, <3>1
  <2>9. RotateDown(x) = Z(v, f, t)
    <3>1. Append(u, h) = v
      BY ONLY <2>2, <2>3, AppendLaw, u \in Lists, h \in Elem, Zenon
    <3> QED
      BY <1>1, <1>5, <2>1, <3>1, Zenon DEF RotateDown, Nil
  <2>10. Len(v) = a + 1
    <3>1. Len(Cat(u, o)) = Len(u) + Len(o)
      BY ONLY CatLaws, o \in Lists, u \in Lists
    <3> QED
      BY ONLY <1>1, <2>2, <2>3, <3>1
  <2>11. Ring(n, a + 1 - (-1)) = a + 1 + 1
    <3>1. b # 0
      BY ONLY <1>1, <1>5
    <3>2. a + 1 - (-1) = a + 1 + 1 /\ a + 1 + 1 \in 1..n
      BY ONLY <1>2, <3>1, a \in Nat, b \in Nat
    <3>3. Ring(n, a + 1 + 1) = a + 1 + 1
      BY <3>2, RingFacts
    <3> QED
      BY ONLY <3>2, <3>3
  <2>12. PICK y \in Zips : y = RotateDown(x) /\ Flatten(y) = Cat(o, w) /\ Len(y.up) + 1 = Ring(n, Len(x.up) + 1 - (-1))
    BY ONLY <1>3, <2>7, <2>8, <2>9, <2>10, <2>11
  <2>13. Len(w) = n - 1
    <3>1. Len(Cat(g, t)) = Len(g) + Len(t) /\ Len(Cat(t, o)) = Len(t) + Len(o) /\ Len(t) \in Nat
      BY ONLY CatLaws, g \in Lists, t \in Lists, o \in Lists, Zenon
    <3>2. b = Len(Cat(t, o))
      BY ONLY <1>1, <2>1, <2>2
    <3>3. Len(w) = a + (1 + Len(t)) /\ b = Len(t) + 1
      BY ONLY <1>1, <1>4, <2>2, <2>3, <2>4, <3>1, <3>2
    <3>4. PICK l \in Nat : l = Len(t)
      BY ONLY <3>1
    <3> QED
      BY ONLY <1>2, <3>3, <3>4, a \in Nat
  <2>14. -1 = Len(w) \/ -1 = Len(w) - n
    BY ONLY <2>13, n \in Nat \ {0}
  <2>15. PICK by \in Int : by = -1
    OBVIOUS
  <2>16. Turned(x, y, by)
    <3>1. by = Len(w) \/ by = Len(w) - n
      BY ONLY <2>14, <2>15
    <3>2. Len(y.up) + 1 = Ring(n, Len(x.up) + 1 - by)
      BY ONLY <2>12, <2>15
    <3> QED
      BY ONLY <1>3, <2>6, <2>12, <3>1, <3>2, TurnedFacts, by \in Int, x \in Zips, y \in Zips, o \in Lists, w \in Lists, n \in Nat \ {0}
  <2> QED
    BY ONLY <2>12, <2>15, <2>16
<1>6. CASE d = Nil
  <2>1. Cat(g, Nil) = g /\ Nil \in Lists /\ Len(Nil) = 0 /\ Reverse(Nil) = Nil
    BY NilLaws, ReverseLaws
  <2>2. Flatten(x) = Cat(r, g)
    BY ONLY <1>1, <1>4, <1>6, <2>1
  <2>3. Z(Nil, f, r) \in Zips /\ Z(Nil, f, r).up = Nil /\ Flatten(Z(Nil, f, r)) = Cat(g, r)
    <3>1. Z(Nil, f, r) \in Zips /\ Z(Nil, f, r).up = Nil /\ Flatten(Z(Nil, f, r)) = Cat(Reverse(Nil), Cat(One(f), r))
      BY ONLY <2>1, FlattenMade, r \in Lists, f \in Elem
    <3>2. Cat(g, r) \in Lists
      BY ONLY CatLaws, g \in Lists, r \in Lists
    <3>3. Cat(Nil, Cat(g, r)) = Cat(g, r)
      BY ONLY <3>2, NilLaws
    <3> QED
      BY ONLY <1>4, <2>1, <3>1, <3>3
  <2>4. RotateDown(x) = Z(Nil, f, r)
    BY <1>1, <1>6 DEF RotateDown, Nil
  <2>5. n = a + 1
    <3>1. b = 0
      BY ONLY <1>1, <1>6
    <3> QED
      BY ONLY <1>2, <3>1, a \in Nat
  <2>6. Ring(n, a + 1 - (-1)) = 1
    <3>1. a + 1 - (-1) = n + 1 /\ n + 1 \in n + 1..2 * n /\ n + 1 - n = 1 /\ n + 1 \in Int
      BY ONLY <2>5, a \in Nat, n \in Nat \ {0}
    <3>2. Ring(n, n + 1) = n + 1 - n
      BY ONLY <3>1, RingFacts, n \in Nat \ {0}
    <3> QED
      BY ONLY <3>1, <3>2
  <2>7. PICK y \in Zips : y = RotateDown(x) /\ Flatten(y) = Cat(g, r) /\ Len(y.up) + 1 = Ring(n, Len(x.up) + 1 - (-1))
    BY ONLY <1>3, <2>1, <2>3, <2>4, <2>6
  <2>8. -1 = Len(r) \/ -1 = Len(r) - n
    BY ONLY <1>1, <2>5, a \in Nat
  <2>9. PICK by \in Int : by = -1
    OBVIOUS
  <2>10. Turned(x, y, by)
    <3>1. by = Len(r) \/ by = Len(r) - n
      BY ONLY <2>8, <2>9
    <3>2. Len(y.up) + 1 = Ring(n, Len(x.up) + 1 - by)
      BY ONLY <2>7, <2>9
    <3> QED
      BY ONLY <1>3, <2>2, <2>7, <3>1, <3>2, TurnedFacts, by \in Int, x \in Zips, y \in Zips, r \in Lists, g \in Lists, n \in Nat \ {0}
  <2> QED
    BY ONLY <2>7, <2>9, <2>10
<1> QED
  BY <1>5, <1>6

(* ... and rotate_focus_to_head.                                            *)
LEMMA RotateFocusToHeadFacts ==
  ASSUME NEW x \in Zips
  PROVE  Turned(x, RotateFocusToHead(x), Len(x.up) + 1 - 1)
<1>1. PICK u \in Lists, d \in Lists, r \in Lists, s \in Lists, f \in Elem, a \in Nat, b \in Nat :
            /\ x = Z(u, f, d) /\ u = x.up /\ f = x.focus /\ d = x.down
            /\ a = Len(u) /\ b = Len(d) /\ (u = Nil <=> a = 0) /\ (d = Nil <=> b = 0)
            /\ r = Reverse(u) /\ Len(r) = a
            /\ s = Flatten(x) /\ s = Cat(r, Cat(One(f), d)) /\ Len(s) = a + b + 1
  BY ZipSplit DEF Parts
<1>2. PICK n \in Nat \ {0} : n = a + b + 1
  OBVIOUS
<1>3. n = Len(Flatten(x)) /\ Len(x.up) = a
  BY ONLY <1>1, <1>2
<1>4. PICK g \in Lists, e \in Lists : g = One(f) /\ e = Cat(d, r)
  BY OneLaws, CatLaws
<1>5. PICK w \in Lists : w = Cat(g, d)
  BY CatLaws, Zenon
<1>6. Flatten(x) = Cat(r, w)
  BY ONLY <1>1, <1>4, <1>5
<1>7. Z(Nil, f, e) \in Zips /\ Z(Nil, f, e).up = Nil /\ Flatten(Z(Nil, f, e)) = Cat(g, e)
  <2>0. Reverse(Nil) = Nil /\ Nil \in Lists
    BY NilLaws, ReverseLaws
  <2>1. Z(Nil, f, e) \in Zips /\ Z(Nil, f, e).up = Nil /\ Flatten(Z(Nil, f, e)) = Cat(Reverse(Nil), Cat(One(f), e))
    BY ONLY <2>0, FlattenMade, e \in Lists, f \in Elem
  <2>2. Cat(g, e) \in Lists
    BY ONLY CatLaws, g \in Lists, e \in Lists
  <2>3. Cat(Nil, Cat(g, e)) = Cat(g, e)
    BY ONLY <2>2, NilLaws
  <2> QED
    BY ONLY <1>4, <2>0, <2>1, <2>3
<1>8. Cat(g, e) = Cat(w, r)
  <2>1. Cat(g, Cat(d, r)) = Cat(Cat(g, d), r)
    BY ONLY AssocLaw, g \in Lists, d \in Lists, r \in Lists, SMTT(40)
  <2> QED
    BY ONLY <1>4, <1>5, <2>1
<1>9. RotateFocusToHead(x) = Z(Nil, f, e)
  BY <1>1, <1>4, Zenon DEF RotateFocusToHead, Nil, Cat
<1>10. PICK by \in Int : by = Len(x.up) + 1 - 1 /\ by = a /\ Len(x.up) + 1 - by = 1
  BY ONLY <1>3, a \in Nat
<1>11. Ring(n, 1) = 1
  <2>1. 1 \in 1..n /\ 1 \in Int
    OBVIOUS
  <2> QED
    BY ONLY <2>1, RingFacts, n \in Nat \ {0}
<1>12. PICK y \in Zips : y = RotateFocusToHead(x) /\ Flatten(y) = Cat(w, r) /\ Len(y.up) + 1 = Ring(n, Len(x.up) + 1 - by)
  <2>1. Len(Nil) + 1 = 1
    BY NilLaws, SMTT(40)
  <2> QED
    BY ONLY <1>7, <1>8, <1>9, <1>10, <1>11, <2>1
<1>13. by = Len(r) \/ by = Len(r) - n
  BY ONLY <1>1, <1>10
<1>14. Turned(x, y, by)
  BY ONLY <1>3, <1>6, <1>12, <1>13, TurnedFacts, by \in Int, x \in Zips, y \in Zips, r \in Lists, w \in Lists, n \in Nat \ {0}
<1> QED
  BY ONLY <1>10, <1>12, <1>14

(* reverse.                                                                 *)
LEMMA ReverseZipFacts ==
  ASSUME NEW x \in Zips
  PROVE  /\ ZReverse(x) \in Zips /\ Flatten(ZReverse(x)) = Reverse(Flatten(x))
         /\ Len(ZReverse(x).up) + 1 = Len(Flatten(x)) + 1 - (Len(x.up) + 1)
         /\ Distinct(Flatten(x)) => Distinct(Flatten(ZReverse(x)))
<1>1. PICK u \in Lists, d \in Lists, r \in Lists, s \in Lists, f \in Elem, a \in Nat, b \in Nat :
            /\ x = Z(u, f, d) /\ u = x.up /\ f = x.focus /\ d = x.down
            /\ a = Len(u) /\ b = Len(d) /\ (u = Nil <=> a = 0) /\ (d = Nil <=> b = 0)
            /\ r = Reverse(u) /\ Len(r) = a
            /\ s = Flatten(x) /\ s = Cat(r, Cat(One(f), d)) /\ Len(s) = a + b + 1
  BY ZipSplit DEF Parts
<1>2. PICK g \in Lists, v \in Lists : g = One(f) /\ Reverse(g) = g /\ v = Reverse(d)
  BY OneLaws, ReverseLaws
<1>3. Reverse(r) = u
  BY ONLY <1>1, ReverseLaws, u \in Lists
<1>4. PICK c \in Lists : c = Cat(g, d) /\ Reverse(c) = Cat(v, g)
  BY ONLY <1>2, CatLaws, ReverseLaws, g \in Lists, d \in Lists, SMTT(40)
<1>5. Reverse(s) = Cat(Cat(v, g), u)
  <2>1. Reverse(Cat(r, c)) = Cat(Reverse(c), Reverse(r))
    BY ONLY ReverseLaws, r \in Lists, c \in Lists
  <2> QED
    BY ONLY <1>1, <1>2, <1>3, <1>4, <2>1
<1>6. Cat(Cat(v, g), u) = Cat(v, Cat(g, u))
  BY ONLY AssocLaw, v \in Lists, g \in Lists, u \in Lists
<1>7. Z(d, f, u) \in Zips /\ Z(d, f, u).up = d /\ Flatten(Z(d, f, u)) = Cat(Reverse(d), Cat(One(f), u))
  BY ONLY FlattenMade, d \in Lists, f \in Elem, u \in Lists, Zenon
<1>8. ZReverse(x) = Z(d, f, u)
  BY <1>1, Zenon DEF ZReverse
<1>9. ZReverse(x) \in Zips /\ Flatten(ZReverse(x)) = Reverse(s) /\ Len(ZReverse(x).up) = b
  BY ONLY <1>1, <1>2, <1>5, <1>6, <1>7, <1>8
<1>10. b + 1 = a + b + 1 + 1 - (a + 1)
  OBVIOUS
<1>11. Distinct(s) => Distinct(Reverse(s))
  BY ONLY DistinctReverse, s \in Lists
<1>12. Len(x.up) = a
  BY ONLY <1>1
<1>13. Len(ZReverse(x).up) + 1 = Len(Flatten(x)) + 1 - (Len(x.up) + 1)
  BY ONLY <1>1, <1>9, <1>10, <1>12
<1> QED
  BY ONLY <1>1, <1>9, <1>11, <1>13

-----------------------------------------------------------------------------
(* The first and the focused element change places.                         *)

Ends(s, l, m, f, d, k, b) ==
  /\ s \in Seq(Elem) /\ Len(s) = k + b + 2 /\ s[1] = l /\ s[k + 2] = f
  /\ \A i \in 1..k : s[i + 1] = m[i]
  /\ \A i \in 1..b : s[k + 2 + i] = d[i]

(* What is known of a list by its ends and what is in between.              *)
LEMMA EndsFacts ==
  ASSUME NEW l \in Elem, NEW m \in Lists, NEW f \in Elem, NEW d \in Lists,
         NEW k \in Nat, k = Len(m), NEW b \in Nat, b = Len(d)
  PROVE  Ends(Cat(One(l), Cat(m, Cat(One(f), d))), l, m, f, d, k, b)
<1>0. PICK s : s = Cat(One(l), Cat(m, Cat(One(f), d)))
  OBVIOUS
<1>1. m \in Seq(Elem) /\ d \in Seq(Elem)
  BY DEF Lists
<1>2. PICK o : o = <<f>> \o d
  OBVIOUS
<1>3. o \in Seq(Elem) /\ Len(o) = b + 1 /\ o[1] = f /\ \A i \in 1..b : o[i + 1] = d[i]
  BY ONLY <1>1, <1>2, ConsFacts, f \in Elem, b = Len(d)
<1>4. PICK t : t = m \o o
  OBVIOUS
<1>5. t \in Seq(Elem) /\ Len(t) = k + (b + 1) /\ (\A i \in 1..k : t[i] = m[i]) /\ \A i \in 1..b + 1 : t[k + i] = o[i]
  <2>1. /\ t \in Seq(Elem) /\ Len(t) = Len(m) + Len(o) /\ (\A i \in 1..Len(m) : t[i] = m[i])
        /\ \A i \in 1..Len(o) : t[Len(m) + i] = o[i]
    <3>1. m \in Seq(Elem) /\ o \in Seq(Elem)
      BY <1>1, <1>3
    <3> QED
      BY ONLY <1>4, <3>1, CatFacts
  <2>2. Len(m) = k /\ Len(o) = b + 1
    BY ONLY <1>3, k = Len(m)
  <2> QED
    BY ONLY <2>1, <2>2
<1>6. PICK w : w = <<l>> \o t
  OBVIOUS
<1>7. w \in Seq(Elem) /\ Len(w) = Len(t) + 1 /\ w[1] = l /\ \A i \in 1..Len(t) : w[i + 1] = t[i]
  BY ONLY <1>5, <1>6, ConsFacts, l \in Elem
<1>8. s = w
  BY ONLY <1>0, <1>2, <1>4, <1>6 DEF Cat, One
<1>9. PICK n \in Nat : n = k + (b + 1) /\ n = Len(t)
  BY ONLY <1>5, k \in Nat, b \in Nat
<1>10. w[k + 2] = f
  <2>1. k + 1 \in 1..n /\ k + 1 + 1 = k + 2 /\ 1 \in 1..b + 1
    BY ONLY <1>9, k \in Nat, b \in Nat
  <2>2. w[k + 1 + 1] = t[k + 1] /\ t[k + 1] = o[1]
    BY ONLY <1>5, <1>7, <1>9, <2>1
  <2> QED
    BY ONLY <1>3, <2>1, <2>2
<1>11. ASSUME NEW i \in 1..k PROVE w[i + 1] = m[i]
  <2>1. i \in 1..n
    BY ONLY <1>9, i \in 1..k, k \in Nat, b \in Nat
  <2> QED
    BY ONLY <1>5, <1>7, <1>9, <2>1, i \in 1..k
<1>12. ASSUME NEW i \in 1..b PROVE w[k + 2 + i] = d[i]
  <2>1. k + (i + 1) \in 1..n /\ k + (i + 1) + 1 = k + 2 + i /\ i + 1 \in 1..b + 1
    BY ONLY <1>9, i \in 1..b, k \in Nat, b \in Nat
  <2>2. w[k + (i + 1) + 1] = t[k + (i + 1)]
    BY ONLY <1>7, <1>9, <2>1
  <2>3. t[k + (i + 1)] = o[i + 1]
    BY ONLY <1>5, <2>1
  <2>4. o[i + 1] = d[i]
    BY ONLY <1>3, i \in 1..b
  <2> QED
    BY ONLY <2>1, <2>2, <2>3, <2>4
<1>13. Len(w) = k + b + 2
  BY ONLY <1>7, <1>9, k \in Nat, b \in Nat
<1>14. Ends(s, l, m, f, d, k, b)
  BY ONLY <1>7, <1>8, <1>10, <1>11, <1>12, <1>13 DEF Ends
<1> QED
  BY ONLY <1>0, <1>14

(* The ends of the part before the rest change places.                      *)
LEMMA SwapEnds ==
  ASSUME NEW l \in Elem, NEW m \in Lists, NEW f \in Elem, NEW d \in Lists,
         NEW s, s = Cat(One(l), Cat(m, Cat(One(f), d))), NEW p, p = Len(m) + 2
  PROVE  [s EXCEPT ![1] = s[p], ![p] = s[1]] = Cat(One(f), Cat(m, Cat(One(l), d)))
<1>1. PICK k \in Nat, b \in Nat : k = Len(m) /\ b = Len(d)
  BY CatLaws
<1>2. /\ s \in Seq(Elem) /\ Len(s) = k + b + 2 /\ s[1] = l /\ s[k + 2] = f
      /\ \A i \in 1..k : s[i + 1] = m[i]
      /\ \A i \in 1..b : s[k + 2 + i] = d[i]
  <2>1. Ends(Cat(One(l), Cat(m, Cat(One(f), d))), l, m, f, d, k, b)
    BY ONLY <1>1, EndsFacts, l \in Elem, m \in Lists, f \in Elem, d \in Lists, k \in Nat, b \in Nat
  <2>2. Ends(s, l, m, f, d, k, b)
    BY ONLY <2>1, s = Cat(One(l), Cat(m, Cat(One(f), d)))
  <2> QED
    BY ONLY <2>2 DEF Ends
<1>3. PICK c : c = Cat(One(f), Cat(m, Cat(One(l), d)))
  OBVIOUS
<1>4. /\ c \in Seq(Elem) /\ Len(c) = k + b + 2 /\ c[1] = f /\ c[k + 2] = l
      /\ \A i \in 1..k : c[i + 1] = m[i]
      /\ \A i \in 1..b : c[k + 2 + i] = d[i]
  <2>1. Ends(Cat(One(f), Cat(m, Cat(One(l), d))), f, m, l, d, k, b)
    BY ONLY <1>1, EndsFacts, l \in Elem, m \in Lists, f \in Elem, d \in Lists, k \in Nat, b \in Nat
  <2>2. Ends(c, f, m, l, d, k, b)
    BY ONLY <1>3, <2>1
  <2> QED
    BY ONLY <2>2 DEF Ends
<1>e. PICK e : e = [s EXCEPT ![1] = s[p], ![p] = s[1]]
  OBVIOUS
<1>n. PICK n \in Nat : n = k + b + 2
  OBVIOUS
<1>5. e = [s EXCEPT ![1] = s[p], ![p] = s[1]] /\ n = k + b + 2
  BY ONLY <1>e, <1>n
<1>6. p = k + 2 /\ p \in 1..n /\ 1 \in 1..n /\ p # 1
  BY ONLY <1>1, <1>5, p = Len(m) + 2
<1>7. s \in [1..n -> Elem] /\ c \in [1..n -> Elem]
  BY ONLY <1>2, <1>4, <1>5
<1>8. e \in [1..n -> Elem] /\ e[1] = f /\ e[p] = l /\ \A i \in 1..n : i # 1 /\ i # p => e[i] = s[i]
  BY ONLY <1>2, <1>5, <1>6, <1>7, l \in Elem, f \in Elem
<1>9. ASSUME NEW i \in 1..n PROVE e[i] = c[i]
  <2>1. CASE i = 1
    BY ONLY <1>4, <1>8, <2>1
  <2>2. CASE i = p
    BY ONLY <1>4, <1>6, <1>8, <2>2
  <2>3. CASE i \in 2..k + 1
    <3>1. PICK j \in Int : j = i - 1
      BY <2>3
    <3>2. j \in 1..k /\ j + 1 = i /\ i # 1 /\ i # p
      BY ONLY <1>6, <2>3, <3>1, k \in Nat, j \in Int
    <3>3. s[j + 1] = m[j] /\ c[j + 1] = m[j]
      BY ONLY <1>2, <1>4, <3>2
    <3> QED
      BY ONLY <1>8, <3>2, <3>3, i \in 1..n
  <2>4. CASE i \in k + 3..n
    <3>1. PICK j \in Int : j = i - (k + 2)
      BY <2>4
    <3>2. j \in 1..b /\ k + 2 + j = i /\ i # 1 /\ i # p
      BY ONLY <1>5, <1>6, <2>4, <3>1, k \in Nat, b \in Nat, j \in Int
    <3>3. s[k + 2 + j] = d[j] /\ c[k + 2 + j] = d[j]
      BY ONLY <1>2, <1>4, <3>2
    <3> QED
      BY ONLY <1>8, <3>2, <3>3, i \in 1..n
  <2> QED
    BY ONLY <1>6, <2>1, <2>2, <2>3, <2>4, i \in 1..n, k \in Nat, n \in Nat
<1>10. e = c
  <2>1. e = [i \in 1..n |-> e[i]] /\ c = [i \in 1..n |-> c[i]]
    BY ONLY <1>7, <1>8
  <2> QED
    BY ONLY <1>9, <2>1
<1> QED
  BY ONLY <1>3, <1>5, <1>10

(* swap_focus_and_head.                                                     *)
LEMMA SwapFocusAndHeadFacts ==
  ASSUME NEW x \in Zips, NEW s, s = Flatten(x), NEW p, p = Len(x.up) + 1
  PROVE  /\ SwapFocusAndHead(x) \in Zips /\ Len(SwapFocusAndHead(x).up) + 1 = 1
         /\ Flatten(SwapFocusAndHead(x)) = [s EXCEPT ![1] = s[p], ![p] = s[1]]
         /\ Distinct(Flatten(x)) => Distinct(Flatten(SwapFocusAndHead(x)))
<1>1. PICK u \in Lists, d \in Lists, r \in Lists, q \in Lists, f \in Elem, a \in Nat, b \in Nat :
            /\ x = Z(u, f, d) /\ u = x.up /\ f = x.focus /\ d = x.down
            /\ a = Len(u) /\ b = Len(d) /\ (u = Nil <=> a = 0) /\ (d = Nil <=> b = 0)
            /\ r = Reverse(u) /\ Len(r) = a
            /\ q = Flatten(x) /\ q = Cat(r, Cat(One(f), d)) /\ Len(q) = a + b + 1
  BY ZipSplit, Zenon DEF Parts
<1>2. s \in Lists /\ s = Cat(r, Cat(One(f), d)) /\ p = a + 1
  BY ONLY <1>1, s = Flatten(x), p = Len(x.up) + 1
<1>3. CASE u = Nil
  <2>1. SwapFocusAndHead(x) = x
    BY <1>1, <1>3, Zenon DEF SwapFocusAndHead, Nil
  <2>a. a = 0
    BY ONLY <1>1, <1>3
  <2>2. a = 0 /\ p = 1
    BY ONLY <1>2, <2>a
  <2>3. s = [s EXCEPT ![1] = s[1], ![1] = s[1]]
    BY <1>2 DEF Lists
  <2>4. Len(x.up) + 1 = 1
    BY ONLY <1>1, <2>2
  <2> QED
    BY ONLY <2>1, <2>2, <2>3, <2>4, s = Flatten(x), x \in Zips
<1>4. CASE u # Nil
  <2>1. PICK l \in Elem, t \in Lists : l = Last(u) /\ t = Front(u) /\ u = Cat(t, One(l))
    BY ONLY <1>4, LastLaw, u \in Lists
  <2>2. PICK o \in Lists, m \in Lists, g \in Lists :
          o = One(l) /\ m = Reverse(t) /\ g = One(f) /\ Reverse(o) = o /\ Len(o) = 1 /\ Len(m) = Len(t)
    BY OneLaws, ReverseLaws, Zenon
  <2>3. r = Cat(o, m)
    <3>1. Reverse(Cat(t, o)) = Cat(Reverse(o), Reverse(t))
      BY ONLY ReverseLaws, o \in Lists, t \in Lists
    <3> QED
      BY ONLY <1>1, <2>1, <2>2, <3>1
  <2>4. PICK c \in Lists, e \in Lists : c = Cat(g, d) /\ e = Cat(o, d)
    BY CatLaws
  <2>5. s = Cat(o, Cat(m, c))
    <3>1. Cat(Cat(o, m), c) = Cat(o, Cat(m, c))
      BY ONLY AssocLaw, o \in Lists, m \in Lists, c \in Lists
    <3> QED
      BY ONLY <1>2, <2>2, <2>3, <2>4, <3>1
  <2>6. p = Len(m) + 2
    <3>1. Len(Cat(t, o)) = Len(t) + Len(o) /\ Len(t) \in Nat
      BY ONLY CatLaws, o \in Lists, t \in Lists, Zenon
    <3>2. a = Len(Cat(t, o))
      BY ONLY <1>1, <2>1, <2>2
    <3> QED
      BY ONLY <1>2, <2>2, <3>1, <3>2
  <2>7. [s EXCEPT ![1] = s[p], ![p] = s[1]] = Cat(g, Cat(m, e))
    <3>1. s = Cat(One(l), Cat(m, Cat(One(f), d)))
      BY ONLY <2>2, <2>4, <2>5
    <3>2. [s EXCEPT ![1] = s[p], ![p] = s[1]] = Cat(One(f), Cat(m, Cat(One(l), d)))
      BY ONLY <2>6, <3>1, SwapEnds, l \in Elem, m \in Lists, f \in Elem, d \in Lists, SMTT(30)
    <3> QED
      BY ONLY <2>2, <2>4, <3>2
  <2>8. PICK h \in Lists : h = Cat(m, e)
    BY CatLaws
  <2>9. SwapFocusAndHead(x) = Z(Nil, f, h)
    <3>1. Cat(Cat(m, o), d) = h
      BY ONLY <2>4, <2>8, AssocLaw, m \in Lists, o \in Lists, d \in Lists
    <3>2. SwapFocusAndHead(x) = Z(Nil, f, Cat(Cat(Reverse(Front(u)), One(Last(u))), d))
      BY <1>1, <1>4, Zenon DEF SwapFocusAndHead, Nil, Cat, One
    <3> QED
      BY ONLY <2>1, <2>2, <3>1, <3>2
  <2>10. Z(Nil, f, h) \in Zips /\ Z(Nil, f, h).up = Nil /\ Flatten(Z(Nil, f, h)) = Cat(g, h)
    <3>1. Reverse(Nil) = Nil /\ Nil \in Lists /\ Cat(g, h) \in Lists
      BY NilLaws, ReverseLaws, CatLaws
    <3>2. Z(Nil, f, h) \in Zips /\ Z(Nil, f, h).up = Nil /\ Flatten(Z(Nil, f, h)) = Cat(Reverse(Nil), Cat(One(f), h))
      BY ONLY <3>1, FlattenMade, h \in Lists, f \in Elem
    <3>3. Cat(Nil, Cat(g, h)) = Cat(g, h)
      BY ONLY <3>1, NilLaws
    <3> QED
      BY ONLY <2>2, <3>1, <3>2, <3>3
  <2>11. Distinct(s) => Distinct(Cat(g, h))
    <3>1. /\ Distinct(Cat(o, Cat(m, c))) <=> Distinct(o) /\ Distinct(Cat(m, c)) /\ ToSet(o) \cap ToSet(Cat(m, c)) = {}
          /\ Distinct(Cat(m, c)) <=> Distinct(m) /\ Distinct(c) /\ ToSet(m) \cap ToSet(c) = {}
          /\ Distinct(c) <=> Distinct(g) /\ Distinct(d) /\ ToSet(g) \cap ToSet(d) = {}
          /\ ToSet(c) = ToSet(g) \cup ToSet(d) /\ ToSet(Cat(m, c)) = ToSet(m) \cup ToSet(c)
      <4>1. Cat(m, c) \in Lists
        BY CatLaws
      <4> QED
        BY ONLY <2>4, <4>1, DistinctCat, SetCat, o \in Lists, m \in Lists, c \in Lists, g \in Lists, d \in Lists
    <3>2. /\ Distinct(Cat(g, h)) <=> Distinct(g) /\ Distinct(h) /\ ToSet(g) \cap ToSet(h) = {}
          /\ Distinct(h) <=> Distinct(m) /\ Distinct(e) /\ ToSet(m) \cap ToSet(e) = {}
          /\ Distinct(e) <=> Distinct(o) /\ Distinct(d) /\ ToSet(o) \cap ToSet(d) = {}
          /\ ToSet(e) = ToSet(o) \cup ToSet(d) /\ ToSet(h) = ToSet(m) \cup ToSet(e)
      BY ONLY <2>4, <2>8, DistinctCat, SetCat, o \in Lists, m \in Lists, e \in Lists, g \in Lists, d \in Lists, h \in Lists
    <3> QED
      BY ONLY <2>5, <3>1, <3>2
  <2>12. Len(Nil) + 1 = 1
    BY NilLaws, SMTT(40)
  <2> QED
    BY ONLY <2>7, <2>8, <2>9, <2>10, <2>11, <2>12, s = Flatten(x)
<1> QED
  BY <1>3, <1>4

-----------------------------------------------------------------------------
(* Elements that are filtered or looked for.                                *)

(* The elements of a zipper are those of its list.                          *)
LEMMA ElemsFacts ==
  ASSUME NEW x \in Zips
  PROVE  Elems(x) = ToSet(Flatten(x)) /\ ZLen(x) = Len(Flatten(x))
<1>1. PICK u \in Lists, d \in Lists, r \in Lists, s \in Lists, f \in Elem, a \in Nat, b \in Nat :
            /\ x = Z(u, f, d) /\ u = x.up /\ f = x.focus /\ d = x.down
            /\ a = Len(u) /\ b = Len(d) /\ (u = Nil <=> a = 0) /\ (d = Nil <=> b = 0)
            /\ r = Reverse(u) /\ Len(r) = a
            /\ s = Flatten(x) /\ s = Cat(r, Cat(One(f), d)) /\ Len(s) = a + b + 1
  BY ZipSplit DEF Parts
<1>2. PICK g \in Lists : g = One(f) /\ ToSet(g) = {f}
  BY OneLaws, SetOne
<1>3. PICK c \in Lists : c = Cat(g, d) /\ ToSet(c) = ToSet(g) \cup ToSet(d)
  BY CatLaws, SetCat
<1>4. ToSet(Cat(r, c)) = ToSet(r) \cup ToSet(c)
  BY ONLY SetCat, r \in Lists, c \in Lists
<1>5. ToSet(r) = ToSet(u)
  BY ONLY <1>1, SetReverse, u \in Lists
<1>6. Elems(x) = ToSet(u) \cup {f} \cup ToSet(d)
  BY <1>1, Zenon DEF Elems
<1>7. Elems(x) = ToSet(s)
  BY ONLY <1>1, <1>2, <1>3, <1>4, <1>5, <1>6
<1>8. ZLen(x) = a + b + 1
  BY <1>1 DEF ZLen
<1> QED
  BY ONLY <1>1, <1>7, <1>8

FilteredTo(x, S, y) ==
  /\ y \in Zips
  /\ Flatten(y) = Kept(Flatten(x), S)
  /\ Flatten(y) # Nil
  /\ Len(y.up) + 1 = Min({Len(Kept(SubSeq(Flatten(x), 1, Len(x.up) + 1 - 1), S)) + 1, Len(Flatten(y))})
  /\ Distinct(Flatten(x)) => Distinct(Flatten(y))

(* filter_unchecked.                                                        *)
LEMMA FilterFacts ==
  ASSUME NEW x \in Zips, NEW S, S \cap Elems(x) # {}
  PROVE  FilteredTo(x, S, FilterUnchecked(x, S))
<1>1. PICK u \in Lists, d \in Lists, r \in Lists, s \in Lists, f \in Elem, a \in Nat, b \in Nat :
            /\ x = Z(u, f, d) /\ u = x.up /\ f = x.focus /\ d = x.down
            /\ a = Len(u) /\ b = Len(d) /\ (u = Nil <=> a = 0) /\ (d = Nil <=> b = 0)
            /\ r = Reverse(u) /\ Len(r) = a
            /\ s = Flatten(x) /\ s = Cat(r, Cat(One(f), d)) /\ Len(s) = a + b + 1
  BY ZipSplit DEF Parts
<1>2. PICK ku \in Lists, kd \in Lists, kr \in Lists, ks \in Lists, i \in Nat, j \in Nat :
          /\ ku = Kept(u, S) /\ kd = Kept(d, S) /\ kr = Kept(r, S) /\ ks = Kept(s, S)
          /\ i = Len(ku) /\ j = Len(kd)
  BY KeptLists, CatLaws
<1>3. kr = Reverse(ku) /\ Len(kr) = i
  BY ONLY <1>1, <1>2, KeptReverse, ReverseLaws, u \in Lists, ku \in Lists
<1>4. PICK g \in Lists, kg \in Lists : g = One(f) /\ kg = Kept(g, S) /\ kg = IF f \in S THEN g ELSE Nil
  BY OneLaws, KeptLists, KeptOne, Zenon
<1>5. ks = Cat(kr, Cat(kg, kd))
  <2>1. Kept(Cat(g, d), S) = Cat(kg, kd)
    <3>1. Kept(Cat(g, d), S) = Cat(Kept(g, S), Kept(d, S))
      BY ONLY KeptCat, g \in Lists, d \in Lists
    <3> QED
      BY ONLY <1>2, <1>4, <3>1
  <2>2. Cat(g, d) \in Lists
    BY ONLY CatLaws, g \in Lists, d \in Lists
  <2>3. Kept(Cat(r, Cat(g, d)), S) = Cat(kr, Kept(Cat(g, d), S))
    BY ONLY <1>2, <2>2, KeptCat, r \in Lists
  <2> QED
    BY ONLY <1>1, <1>2, <1>4, <2>1, <2>3
<1>6. Kept(SubSeq(Flatten(x), 1, Len(x.up) + 1 - 1), S) = kr
  <2>1. Cat(One(f), d) \in Lists
    BY OneLaws, CatLaws
  <2>2. SubSeq(Cat(r, Cat(One(f), d)), 1, Len(r) + 1 - 1) = r
    BY ONLY <2>1, PartLaw, r \in Lists, Zenon
  <2>3. SubSeq(Flatten(x), 1, Len(x.up) + 1 - 1) = r
    BY ONLY <1>1, <2>2
  <2> QED
    BY ONLY <1>2, <2>3
<1>7. Distinct(s) => Distinct(ks)
  BY ONLY <1>2, DistinctKept, s \in Lists
<1>8. ks # Nil
  <2>1. ToSet(s) \cap S # {}
    BY <1>1, ElemsFacts
  <2> QED
    BY ONLY <1>2, <2>1, KeptSome, s \in Lists
<1>9. PICK k : k = Z(ku, f, kd)
  OBVIOUS
<1>10. /\ k \in Zips /\ k.up = ku
       /\ Flatten(k) = Cat(kr, Cat(One(f), kd)) /\ Len(Flatten(k)) = i + j + 1
  <2>1. /\ Z(ku, f, kd) \in Zips /\ Z(ku, f, kd).up = ku
        /\ Flatten(Z(ku, f, kd)) = Cat(Reverse(ku), Cat(One(f), kd))
        /\ Len(Flatten(Z(ku, f, kd))) = Len(ku) + Len(kd) + 1
    BY ONLY FlattenMade, ku \in Lists, kd \in Lists, f \in Elem
  <2> QED
    BY ONLY <1>2, <1>3, <1>9, <2>1
<1>11. PICK y : y = FilterUnchecked(x, S)
  OBVIOUS
<1>12. y = IF f \in S THEN k ELSE RemoveFocused(k)
  BY <1>1, <1>2, <1>9, <1>11 DEF FilterUnchecked
<1>13. SUFFICES y \in Zips /\ Flatten(y) = ks /\ Len(y.up) + 1 = Min({i + 1, Len(ks)})
  <2>1. ASSUME y \in Zips /\ Flatten(y) = ks /\ Len(y.up) + 1 = Min({i + 1, Len(ks)})
        PROVE  FilteredTo(x, S, y)
    <3>1. Len(Kept(SubSeq(Flatten(x), 1, Len(x.up) + 1 - 1), S)) = i
      BY ONLY <1>3, <1>6
    <3>2. Len(y.up) + 1 = Min({Len(Kept(SubSeq(Flatten(x), 1, Len(x.up) + 1 - 1), S)) + 1, Len(Flatten(y))})
      BY ONLY <2>1, <3>1
    <3>3. Flatten(y) = Kept(Flatten(x), S) /\ Flatten(y) # Nil /\ (Distinct(Flatten(x)) => Distinct(Flatten(y)))
      BY ONLY <1>1, <1>2, <1>7, <1>8, <2>1
    <3> QED
      BY ONLY <2>1, <3>2, <3>3 DEF FilteredTo
  <2> QED
    BY <1>11, <2>1
<1>14. CASE f \in S
  <2>1. Flatten(k) = ks
    BY ONLY <1>4, <1>5, <1>10, <1>14
  <2>2. i + 1 <= i + j + 1 /\ i + 1 \in Int /\ i + j + 1 \in Int
    OBVIOUS
  <2>3. Min({i + 1, i + j + 1}) = i + 1
    BY ONLY <2>2, MinOfTwo
  <2>4. Len(ks) = i + j + 1
    BY ONLY <1>10, <2>1
  <2> QED
    BY ONLY <1>2, <1>10, <1>12, <1>14, <2>1, <2>3, <2>4
<1>15. CASE f \notin S
  <2>1. ks = Cat(kr, kd)
    <3>1. Cat(Nil, kd) = kd
      BY NilLaws
    <3> QED
      BY ONLY <1>4, <1>5, <1>15, <3>1
  <2>2. Len(ks) = i + j
    <3>1. Len(Cat(kr, kd)) = Len(kr) + Len(kd)
      BY ONLY CatLaws, kr \in Lists, kd \in Lists
    <3> QED
      BY ONLY <1>2, <1>3, <2>1, <3>1
  <2>3. i + j # 0
    <3>1. Len(ks) = 0 => ks = Nil
      <4>1. ks \in Seq(Elem)
        BY DEF Lists
      <4> QED
        BY <4>1 DEF Nil
    <3> QED
      BY ONLY <1>8, <2>2, <3>1
  <2>4. Len(Flatten(k)) > 1 /\ Len(Flatten(k)) - 1 = i + j
    BY ONLY <1>10, <2>3, i \in Nat, j \in Nat
  <2>5. /\ y \in Zips /\ Flatten(y) = RemoveAt(Flatten(k), Len(k.up) + 1)
        /\ Len(y.up) + 1 = Min({Len(k.up) + 1, Len(Flatten(k)) - 1})
    <3>1. y = RemoveFocused(k) /\ k \in Zips
      BY ONLY <1>10, <1>12, <1>15
    <3> QED
      BY ONLY <2>4, <3>1, RemoveFocusedFacts
  <2>6. RemoveAt(Cat(kr, Cat(One(f), kd)), Len(kr) + 1) = Cat(kr, kd)
    BY ONLY RemoveLaw, kr \in Lists, kd \in Lists, f \in Elem
  <2>7. Flatten(y) = ks
    BY ONLY <1>2, <1>3, <1>10, <2>1, <2>5, <2>6
  <2>8. Len(y.up) + 1 = Min({i + 1, Len(ks)})
    BY ONLY <1>2, <1>10, <2>2, <2>4, <2>5
  <2> QED
    BY ONLY <2>5, <2>7, <2>8
<1> QED
  BY <1>14, <1>15

(* What is left of a list without an element it has once.                   *)
LEMMA KeptOut ==
  \A p, q \in Lists, e \in Elem :
     e \notin ToSet(Cat(p, q)) =>
        Kept(Cat(p, Cat(One(e), q)), ToSet(Cat(p, Cat(One(e), q))) \ {e}) = Cat(p, q)
<1> SUFFICES ASSUME NEW p \in Lists, NEW q \in Lists, NEW e \in Elem, e \notin ToSet(Cat(p, q))
    PROVE  Kept(Cat(p, Cat(One(e), q)), ToSet(Cat(p, Cat(One(e), q))) \ {e}) = Cat(p, q)
  OBVIOUS
<1>1. PICK o \in Lists : o = One(e) /\ ToSet(o) = {e}
  BY OneLaws, SetOne
<1>2. PICK c \in Lists : c = Cat(o, q) /\ ToSet(c) = ToSet(o) \cup ToSet(q)
  BY CatLaws, SetCat
<1>3. ToSet(Cat(p, c)) = ToSet(p) \cup ToSet(c) /\ ToSet(Cat(p, q)) = ToSet(p) \cup ToSet(q)
  BY ONLY SetCat, p \in Lists, c \in Lists, q \in Lists
<1>4. PICK T : T = ToSet(Cat(p, c)) \ {e}
  OBVIOUS
<1>5. ToSet(p) \subseteq T /\ ToSet(q) \subseteq T /\ e \notin T
  BY ONLY <1>1, <1>2, <1>3, <1>4, e \notin ToSet(Cat(p, q))
<1>6. Kept(p, T) = p /\ Kept(q, T) = q /\ Kept(o, T) = Nil
  BY ONLY <1>1, <1>5, KeptAll, KeptOne, p \in Lists, q \in Lists, e \in Elem
<1>7. Kept(Cat(p, c), T) = Cat(p, Cat(Nil, q))
  BY ONLY <1>2, <1>6, KeptCat, p \in Lists, c \in Lists, o \in Lists, q \in Lists
<1>8. Cat(Nil, q) = q
  BY NilLaws
<1> QED
  BY ONLY <1>1, <1>2, <1>4, <1>7, <1>8

(* A list that has an element, around it.                                   *)
LEMMA SplitIn ==
  ASSUME NEW s \in Lists, NEW e \in ToSet(s), Distinct(s)
  PROVE  /\ e \in Elem
         /\ \E p, q \in Lists : s = Cat(p, Cat(One(e), q)) /\ e \notin ToSet(Cat(p, q)) /\ Distinct(Cat(p, q))
<1>1. PICK i \in 1..Len(s) : s[i] = e
  <2>1. DOMAIN s = 1..Len(s)
    BY DEF Lists
  <2> QED
    BY ONLY <2>1, e \in ToSet(s) DEF ToSet
<1>2. PICK p \in Lists, q \in Lists :
            /\ p = SubSeq(s, 1, i - 1) /\ q = SubSeq(s, i + 1, Len(s))
            /\ Len(p) = i - 1 /\ s[i] \in Elem /\ s = Cat(p, Cat(One(s[i]), q))
  BY ONLY SplitAt, s \in Lists, i \in 1..Len(s)
<1>3. e \in Elem /\ s = Cat(p, Cat(One(e), q))
  BY ONLY <1>1, <1>2
<1>4. Distinct(Cat(p, q)) /\ e \notin ToSet(Cat(p, q))
  BY ONLY <1>3, DistinctBetween, p \in Lists, q \in Lists, Distinct(s)
<1> QED
  BY ONLY <1>3, <1>4, p \in Lists, q \in Lists

RemovedWhere(x, e, t, y) ==
  /\ y \in Zips
  /\ e \notin ToSet(Flatten(x)) => y = x
  /\ e \in ToSet(Flatten(x)) /\ Len(Flatten(x)) = 1 => Flatten(y) = One(t) /\ Len(y.up) + 1 = 1
  /\ e \in ToSet(Flatten(x)) /\ Len(Flatten(x)) # 1 =>
        \E i \in 1..Len(Flatten(x)) :
           /\ Flatten(x)[i] = e
           /\ Flatten(y) = RemoveAt(Flatten(x), i)
           /\ Len(y.up) + 1 = IF i < Len(x.up) + 1 THEN Len(x.up) + 1 - 1
                              ELSE Min({Len(x.up) + 1, Len(Flatten(x)) - 1})
  /\ Distinct(Flatten(y))

(* It is known from one place where the element is.                         *)
LEMMA RemovedFrom ==
  ASSUME NEW x \in Zips, NEW y \in Zips, NEW p \in Lists, NEW q \in Lists, NEW e \in Elem, NEW t,
         Flatten(x) = Cat(p, Cat(One(e), q)), Flatten(y) = Cat(p, q), Distinct(Flatten(x)),
         Len(Flatten(x)) # 1,
         Len(y.up) + 1 = IF Len(p) + 1 < Len(x.up) + 1 THEN Len(x.up) + 1 - 1
                         ELSE Min({Len(x.up) + 1, Len(Flatten(x)) - 1})
  PROVE  RemovedWhere(x, e, t, y)
<1>1. PICK i \in Nat : i = Len(p) + 1
  BY CatLaws
<1>2. PICK s \in Lists : s = Flatten(x) /\ s = Cat(p, Cat(One(e), q))
  BY OneLaws, CatLaws
<1>3. s[i] = e /\ RemoveAt(s, i) = Cat(p, q)
  <2>1. RemoveAt(Cat(p, Cat(One(e), q)), Len(p) + 1) = Cat(p, q)
    BY ONLY RemoveLaw, p \in Lists, q \in Lists, e \in Elem
  <2>2. Cat(p, Cat(One(e), q))[Len(p) + 1] = e
    BY ONLY AtLaw, p \in Lists, q \in Lists, e \in Elem
  <2> QED
    BY ONLY <1>1, <1>2, <2>1, <2>2
<1>4. i \in 1..Len(s)
  <2>1. PICK o \in Lists : o = One(e) /\ Len(o) = 1
    BY OneLaws
  <2>2. PICK c \in Lists : c = Cat(o, q) /\ Len(c) = Len(o) + Len(q) /\ Len(q) \in Nat
    BY CatLaws
  <2>3. Len(Cat(p, c)) = Len(p) + Len(c) /\ Len(p) \in Nat
    BY ONLY CatLaws, p \in Lists, c \in Lists
  <2>4. PICK j \in Nat, k \in Nat : j = Len(p) /\ k = Len(q)
    BY ONLY <2>2, <2>3
  <2>5. Len(s) = j + (1 + k)
    BY ONLY <1>2, <2>1, <2>2, <2>3, <2>4
  <2> QED
    BY ONLY <1>1, <2>4, <2>5
<1>5. e \in ToSet(s)
  <2>1. DOMAIN s = 1..Len(s)
    BY DEF Lists
  <2> QED
    BY ONLY <1>3, <1>4, <2>1 DEF ToSet
<1>6. Distinct(Cat(p, q))
  BY ONLY <1>2, DistinctBetween, p \in Lists, q \in Lists, e \in Elem, Distinct(Flatten(x))
<1>7. /\ s[i] = e /\ Flatten(y) = RemoveAt(s, i)
      /\ Len(y.up) + 1 = IF i < Len(x.up) + 1 THEN Len(x.up) + 1 - 1 ELSE Min({Len(x.up) + 1, Len(s) - 1})
  BY ONLY <1>1, <1>2, <1>3, Flatten(y) = Cat(p, q),
         Len(y.up) + 1 = IF Len(p) + 1 < Len(x.up) + 1 THEN Len(x.up) + 1 - 1
                         ELSE Min({Len(x.up) + 1, Len(Flatten(x)) - 1})
<1>8. Distinct(Flatten(y)) /\ e \in ToSet(Flatten(x)) /\ Len(Flatten(x)) # 1
  BY ONLY <1>2, <1>5, <1>6, Flatten(y) = Cat(p, q), Len(Flatten(x)) # 1
<1> QED
  BY ONLY <1>2, <1>4, <1>7, <1>8, y \in Zips DEF RemovedWhere

(* remove_where_with_default.                                               *)
LEMMA RemoveWhereFacts ==
  ASSUME NEW x \in Zips, NEW e \in Elem, NEW t \in Elem, Distinct(Flatten(x))
  PROVE  RemovedWhere(x, e, t, RemoveWhereWithDefault(x, {e}, t))
<1>1. PICK u \in Lists, d \in Lists, r \in Lists, s \in Lists, f \in Elem, a \in Nat, b \in Nat :
            /\ x = Z(u, f, d) /\ u = x.up /\ f = x.focus /\ d = x.down
            /\ a = Len(u) /\ b = Len(d) /\ (u = Nil <=> a = 0) /\ (d = Nil <=> b = 0)
            /\ r = Reverse(u) /\ Len(r) = a
            /\ s = Flatten(x) /\ s = Cat(r, Cat(One(f), d)) /\ Len(s) = a + b + 1
  BY ZipSplit DEF Parts
<1>2. PICK g \in Lists : g = One(f) /\ ToSet(g) = {f} /\ Len(g) = 1
  BY OneLaws, SetOne
<1>3. PICK o \in Lists : o = One(e) /\ Reverse(o) = o /\ Len(o) = 1
  BY OneLaws, ReverseLaws
<1>4. PICK y : y = RemoveWhereWithDefault(x, {e}, t)
  OBVIOUS
<1>5. PICK c \in Lists : c = Cat(g, d) /\ ToSet(c) = ToSet(g) \cup ToSet(d) /\ Len(c) = Len(g) + Len(d)
  BY CatLaws, SetCat
<1>6. s = Cat(r, c) /\ Distinct(s) /\ Len(x.up) = a
  BY ONLY <1>1, <1>2, <1>5, Distinct(Flatten(x))
<1>7. ToSet(s) = ToSet(u) \cup ToSet(g) \cup ToSet(d)
  <2>1. ToSet(Cat(r, c)) = ToSet(r) \cup ToSet(c)
    BY ONLY SetCat, r \in Lists, c \in Lists, Zenon
  <2>2. ToSet(r) = ToSet(u)
    BY ONLY <1>1, SetReverse, u \in Lists
  <2> QED
    BY ONLY <1>5, <1>6, <2>1, <2>2
<1>8. Distinct(u) /\ Distinct(d)
  <2>1. Distinct(r) /\ Distinct(c)
    BY ONLY <1>6, DistinctCat, r \in Lists, c \in Lists
  <2>2. Distinct(d)
    BY ONLY <1>5, <2>1, DistinctCat, g \in Lists, d \in Lists, Zenon
  <2>3. Reverse(r) = u
    BY ONLY <1>1, ReverseLaws, u \in Lists
  <2> QED
    BY ONLY <2>1, <2>2, <2>3, DistinctReverse, r \in Lists
<1>9. SUFFICES RemovedWhere(x, e, t, y)
  BY <1>4
<1>10. CASE e \in ToSet(u)
  <2>1. PICK p \in Lists, q \in Lists : u = Cat(p, Cat(One(e), q)) /\ e \notin ToSet(Cat(p, q))
    BY ONLY <1>8, <1>10, SplitIn, u \in Lists
  <2>2. PICK m \in Lists : m = Cat(p, q) /\ Len(m) = Len(p) + Len(q)
    BY CatLaws
  <2>3. Kept(u, ToSet(u) \ {e}) = m
    BY ONLY <2>1, <2>2, KeptOut, p \in Lists, q \in Lists, e \in Elem
  <2>4. y = Z(m, f, d)
    <3>1. ToSet(u) \cap {e} # {}
      BY <1>10, Zenon
    <3>2. y = [x EXCEPT !.up = Kept(u, ToSet(u) \ {e})]
      BY <1>1, <1>4, <3>1, Zenon DEF RemoveWhereWithDefault
    <3> QED
      BY <1>1, <2>3, <3>2 DEF Z
  <2>5. PICK v \in Lists, w \in Lists : v = Reverse(p) /\ w = Reverse(q) /\ Len(v) = Len(p) /\ Len(w) = Len(q)
    BY ReverseLaws
  <2>6. Reverse(m) = Cat(w, v)
    BY ONLY <2>2, <2>5, ReverseLaws, p \in Lists, q \in Lists
  <2>7. r = Cat(w, Cat(o, v))
    <3>1. PICK h \in Lists : h = Cat(o, q) /\ Len(h) = Len(o) + Len(q)
      BY CatLaws
    <3>2. Reverse(Cat(o, q)) = Cat(Reverse(q), Reverse(o)) /\ Reverse(Cat(p, h)) = Cat(Reverse(h), Reverse(p))
      BY ONLY ReverseLaws, o \in Lists, q \in Lists, h \in Lists, p \in Lists, Zenon
    <3>3. r = Cat(Cat(w, o), v)
      BY ONLY <1>1, <1>3, <2>1, <2>5, <3>1, <3>2
    <3>4. Cat(Cat(w, o), v) = Cat(w, Cat(o, v))
      BY ONLY AssocLaw, o \in Lists, w \in Lists, v \in Lists
    <3> QED
      BY ONLY <3>3, <3>4
  <2>8. PICK h \in Lists, k \in Lists : h = Cat(v, c) /\ k = Cat(o, v)
    BY CatLaws, Zenon
  <2>9. Flatten(x) = Cat(w, Cat(One(e), h))
    <3>1. Cat(Cat(w, k), c) = Cat(w, Cat(k, c))
      BY ONLY AssocLaw, w \in Lists, k \in Lists, c \in Lists
    <3>2. Cat(Cat(o, v), c) = Cat(o, Cat(v, c))
      BY ONLY AssocLaw, o \in Lists, v \in Lists, c \in Lists
    <3> QED
      BY ONLY <1>1, <1>3, <1>6, <2>7, <2>8, <3>1, <3>2
  <2>10. y \in Zips /\ y.up = m /\ Flatten(y) = Cat(w, h)
    <3>1. Z(m, f, d) \in Zips /\ Z(m, f, d).up = m /\ Flatten(Z(m, f, d)) = Cat(Reverse(m), Cat(One(f), d))
      BY ONLY FlattenMade, m \in Lists, f \in Elem, d \in Lists
    <3>2. Cat(Cat(w, v), c) = Cat(w, Cat(v, c))
      BY ONLY AssocLaw, w \in Lists, v \in Lists, c \in Lists
    <3> QED
      BY ONLY <1>2, <1>5, <2>4, <2>6, <2>8, <3>1, <3>2
  <2>11. PICK i \in Nat, j \in Nat : i = Len(p) /\ j = Len(q)
    BY CatLaws
  <2>12. a = i + (1 + j) /\ Len(y.up) = i + j /\ Len(w) = j
    <3>1. Len(Cat(o, q)) = Len(o) + Len(q) /\ Cat(o, q) \in Lists
      BY ONLY CatLaws, o \in Lists, q \in Lists
    <3>2. Len(Cat(p, Cat(o, q))) = Len(p) + Len(Cat(o, q))
      BY ONLY <3>1, CatLaws, p \in Lists
    <3>3. a = Len(Cat(p, Cat(o, q)))
      BY ONLY <1>1, <1>3, <2>1
    <3> QED
      BY ONLY <1>3, <2>2, <2>5, <2>10, <2>11, <3>1, <3>2, <3>3
  <2>13. Len(Flatten(x)) # 1
    <3>1. Len(Flatten(x)) = a + b + 1
      BY ONLY <1>1
    <3>2. a # 0
      BY ONLY <2>12, i \in Nat, j \in Nat
    <3> QED
      BY ONLY <3>1, <3>2, a \in Nat, b \in Nat
  <2>14. Len(w) + 1 < Len(x.up) + 1 /\ Len(y.up) + 1 = Len(x.up) + 1 - 1
    BY ONLY <1>6, <2>12, i \in Nat, j \in Nat, a \in Nat
  <2>15. Len(y.up) + 1 = IF Len(w) + 1 < Len(x.up) + 1 THEN Len(x.up) + 1 - 1
                         ELSE Min({Len(x.up) + 1, Len(Flatten(x)) - 1})
    BY ONLY <2>14
  <2> QED
    BY ONLY <2>9, <2>10, <2>13, <2>15, RemovedFrom, x \in Zips, w \in Lists, h \in Lists, e \in Elem, Distinct(Flatten(x))
<1>11. CASE e \notin ToSet(u) /\ e \in ToSet(d)
  <2>1. PICK p \in Lists, q \in Lists : d = Cat(p, Cat(One(e), q)) /\ e \notin ToSet(Cat(p, q))
    BY ONLY <1>8, <1>11, SplitIn, d \in Lists
  <2>2. PICK m \in Lists : m = Cat(p, q) /\ Len(m) = Len(p) + Len(q)
    BY CatLaws
  <2>3. Kept(d, ToSet(d) \ {e}) = m
    BY ONLY <2>1, <2>2, KeptOut, p \in Lists, q \in Lists, e \in Elem
  <2>4. y = Z(u, f, m)
    <3>1. ~ (ToSet(u) \cap {e} # {}) /\ ToSet(d) \cap {e} # {}
      BY <1>11, Zenon
    <3>2. y = [x EXCEPT !.down = Kept(d, ToSet(d) \ {e})]
      BY <1>1, <1>4, <3>1, Zenon DEF RemoveWhereWithDefault
    <3> QED
      BY <1>1, <2>3, <3>2 DEF Z
  <2>5. PICK h \in Lists, k \in Lists : h = Cat(o, q) /\ Len(h) = Len(o) + Len(q) /\ k = Cat(g, p) /\ Len(k) = Len(g) + Len(p)
    BY CatLaws
  <2>6. PICK w \in Lists : w = Cat(r, k) /\ Len(w) = Len(r) + Len(k)
    BY CatLaws
  <2>7. Flatten(x) = Cat(w, Cat(One(e), q))
    <3>1. Cat(g, Cat(p, h)) = Cat(Cat(g, p), h)
      BY ONLY AssocLaw, g \in Lists, p \in Lists, h \in Lists
    <3>2. Cat(r, Cat(k, h)) = Cat(Cat(r, k), h)
      BY ONLY AssocLaw, r \in Lists, k \in Lists, h \in Lists, SMTT(40)
    <3> QED
      BY ONLY <1>1, <1>3, <1>5, <1>6, <2>1, <2>5, <2>6, <3>1, <3>2
  <2>8. y \in Zips /\ y.up = u /\ Flatten(y) = Cat(w, q)
    <3>1. Z(u, f, m) \in Zips /\ Z(u, f, m).up = u /\ Flatten(Z(u, f, m)) = Cat(Reverse(u), Cat(One(f), m))
      BY ONLY FlattenMade, u \in Lists, f \in Elem, m \in Lists
    <3>2. Cat(g, Cat(p, q)) = Cat(Cat(g, p), q)
      BY ONLY AssocLaw, g \in Lists, p \in Lists, q \in Lists
    <3>3. Cat(r, Cat(k, q)) = Cat(Cat(r, k), q)
      BY ONLY AssocLaw, r \in Lists, k \in Lists, q \in Lists
    <3> QED
      BY ONLY <1>1, <1>2, <2>2, <2>4, <2>5, <2>6, <3>1, <3>2, <3>3
  <2>9. PICK i \in Nat, j \in Nat : i = Len(p) /\ j = Len(q)
    BY CatLaws
  <2>10. b = i + (1 + j) /\ Len(w) = a + (1 + i)
    <3>1. Len(Cat(p, h)) = Len(p) + Len(h)
      BY ONLY CatLaws, p \in Lists, h \in Lists
    <3>2. b = Len(Cat(p, h))
      BY ONLY <1>1, <1>3, <2>1, <2>5
    <3> QED
      BY ONLY <1>1, <1>2, <1>3, <2>5, <2>6, <2>9, <3>1, <3>2
  <2>11. Len(Flatten(x)) = a + b + 1 /\ Len(Flatten(x)) # 1
    <3>1. Len(Flatten(x)) = a + b + 1
      BY ONLY <1>1
    <3>2. b # 0
      BY ONLY <2>10, i \in Nat, j \in Nat
    <3> QED
      BY ONLY <3>1, <3>2, a \in Nat, b \in Nat
  <2>12. ~ (Len(w) + 1 < Len(x.up) + 1)
    BY ONLY <1>6, <2>10, i \in Nat, a \in Nat
  <2>13. Min({Len(x.up) + 1, Len(Flatten(x)) - 1}) = Len(x.up) + 1
    <3>1. PICK m1 \in Int, m2 \in Int : m1 = Len(x.up) + 1 /\ m2 = Len(Flatten(x)) - 1
      BY ONLY <1>6, <2>11, a \in Nat, b \in Nat
    <3>2. m1 <= m2
      BY ONLY <1>6, <2>10, <2>11, <3>1, a \in Nat, b \in Nat, i \in Nat, j \in Nat
    <3>3. Min({m1, m2}) = m1
      BY ONLY <3>2, MinOfTwo, m1 \in Int, m2 \in Int, Zenon
    <3> QED
      BY ONLY <3>1, <3>3
  <2>14. Len(y.up) + 1 = Len(x.up) + 1
    BY ONLY <1>1, <2>8, ZenonT(60)
  <2>15. Len(y.up) + 1 = IF Len(w) + 1 < Len(x.up) + 1 THEN Len(x.up) + 1 - 1
                         ELSE Min({Len(x.up) + 1, Len(Flatten(x)) - 1})
    BY ONLY <2>12, <2>13, <2>14
  <2> QED
    BY ONLY <2>7, <2>8, <2>11, <2>15, RemovedFrom, x \in Zips, w \in Lists, q \in Lists, e \in Elem, Distinct(Flatten(x))
<1>12. CASE e \notin ToSet(u) /\ e \notin ToSet(d) /\ f # e
  <2>1. y = x
    <3>1. ~ (ToSet(u) \cap {e} # {}) /\ ~ (ToSet(d) \cap {e} # {}) /\ f \notin {e}
      BY <1>12
    <3> QED
      BY <1>1, <1>4, <3>1, Zenon DEF RemoveWhereWithDefault
  <2>2. e \notin ToSet(s)
    BY ONLY <1>2, <1>7, <1>12, Zenon
  <2> QED
    BY ONLY <1>1, <2>1, <2>2, x \in Zips, Distinct(Flatten(x)), Zenon DEF RemovedWhere
<1>13. CASE e \notin ToSet(u) /\ e \notin ToSet(d) /\ f = e /\ Len(s) = 1
  <2>1. y = Single(t)
    <3>1. ~ (ToSet(u) \cap {e} # {}) /\ ~ (ToSet(d) \cap {e} # {}) /\ ~ (f \notin {e})
      BY <1>13, Zenon
    <3>2. ZLen(x) = 1
      BY ONLY <1>1, <1>13, ElemsFacts, x \in Zips
    <3> QED
      BY <1>1, <1>4, <3>1, <3>2, Zenon DEF RemoveWhereWithDefault
  <2>2. Nil \in Lists /\ Reverse(Nil) = Nil /\ Len(Nil) = 0
    BY NilLaws, ReverseLaws
  <2>3. y = Z(Nil, t, Nil)
    BY <2>1 DEF Single, Nil
  <2>4. Z(Nil, t, Nil) \in Zips /\ Z(Nil, t, Nil).up = Nil /\ Flatten(Z(Nil, t, Nil)) = Cat(Reverse(Nil), Cat(One(t), Nil))
    BY ONLY <2>2, FlattenMade, t \in Elem
  <2>5. Cat(Nil, Cat(One(t), Nil)) = One(t)
    BY OneLaws, NilLaws
  <2>6. Flatten(y) = One(t) /\ y \in Zips /\ Len(y.up) + 1 = 1
    BY ONLY <2>2, <2>3, <2>4, <2>5
  <2>7. Distinct(One(t))
    BY DistinctOne
  <2>8. e \in ToSet(s)
    BY ONLY <1>2, <1>7, <1>13
  <2> QED
    BY ONLY <1>1, <1>13, <2>6, <2>7, <2>8, ZenonT(60) DEF RemovedWhere
<1>14. CASE e \notin ToSet(u) /\ e \notin ToSet(d) /\ f = e /\ Len(s) # 1
  <2>1. y = RemoveFocused(x)
    <3>1. ~ (ToSet(u) \cap {e} # {}) /\ ~ (ToSet(d) \cap {e} # {}) /\ ~ (f \notin {e})
      BY <1>14, Zenon
    <3>2. ZLen(x) # 1
      BY ONLY <1>1, <1>14, ElemsFacts, x \in Zips
    <3> QED
      BY <1>1, <1>4, <3>1, <3>2, Zenon DEF RemoveWhereWithDefault
  <2>2. Len(Flatten(x)) > 1 /\ Len(Flatten(x)) # 1
    <3>1. Len(Flatten(x)) = a + b + 1 /\ Len(Flatten(x)) # 1
      BY ONLY <1>1, <1>14
    <3> QED
      BY ONLY <3>1, a \in Nat, b \in Nat
  <2>3. /\ y \in Zips /\ Flatten(y) = RemoveAt(Flatten(x), Len(x.up) + 1)
        /\ Len(y.up) + 1 = Min({Len(x.up) + 1, Len(Flatten(x)) - 1})
    BY ONLY <2>1, <2>2, RemoveFocusedFacts, x \in Zips
  <2>4. RemoveAt(Cat(r, Cat(One(f), d)), Len(r) + 1) = Cat(r, d)
    BY ONLY RemoveLaw, r \in Lists, d \in Lists, f \in Elem
  <2>5. Flatten(y) = Cat(r, d)
    BY ONLY <1>1, <2>3, <2>4
  <2>6. Flatten(x) = Cat(r, Cat(One(e), d))
    BY ONLY <1>1, <1>14
  <2>7. ~ (Len(r) + 1 < Len(x.up) + 1)
    BY ONLY <1>1, <1>6, a \in Nat
  <2>8. Len(y.up) + 1 = IF Len(r) + 1 < Len(x.up) + 1 THEN Len(x.up) + 1 - 1
                         ELSE Min({Len(x.up) + 1, Len(Flatten(x)) - 1})
    BY ONLY <2>3, <2>7
  <2> QED
    BY ONLY <2>2, <2>3, <2>5, <2>6, <2>8, RemovedFrom, x \in Zips, r \in Lists, d \in Lists, e \in Elem, Distinct(Flatten(x))
<1> QED
  BY ONLY <1>10, <1>11, <1>12, <1>13, <1>14

(* Elements that are put in and taken out, when there are no duplicates.    *)
LEMMA InsertDistinct ==
  ASSUME NEW s \in Lists, NEW k \in 1..Len(s) + 1, NEW e \in Elem, e \notin ToSet(s), Distinct(s)
  PROVE  Distinct(InsertAt(s, k, e))
<1>1. PICK p \in Lists, q \in Lists : s = Cat(p, q) /\ k = Len(p) + 1
  <2>1. CASE k = Len(s) + 1
    <3>1. s = Cat(s, Nil) /\ Nil \in Lists
      BY NilLaws
    <3> QED
      BY ONLY <2>1, <3>1, s \in Lists
  <2>2. CASE k \in 1..Len(s)
    <3>1. PICK p \in Lists, q \in Lists :
            /\ p = SubSeq(s, 1, k - 1) /\ q = SubSeq(s, k + 1, Len(s))
            /\ Len(p) = k - 1 /\ s[k] \in Elem /\ s = Cat(p, Cat(One(s[k]), q))
      BY ONLY <2>2, SplitAt, s \in Lists
    <3>2. PICK c \in Lists : c = Cat(One(s[k]), q)
      BY <3>1, OneLaws, CatLaws
    <3>3. k = Len(p) + 1
      BY ONLY <2>2, <3>1
    <3> QED
      BY ONLY <3>1, <3>2, <3>3, p \in Lists, c \in Lists
  <2>3. Len(s) \in Nat
    BY CatLaws
  <2> QED
    BY <2>1, <2>2, <2>3
<1>2. InsertAt(Cat(p, q), Len(p) + 1, e) = Cat(p, Cat(One(e), q))
  BY ONLY InsertLaw, p \in Lists, q \in Lists, e \in Elem
<1>3. Distinct(Cat(p, Cat(One(e), q)))
  BY ONLY <1>1, DistinctBetween, p \in Lists, q \in Lists, e \in Elem, e \notin ToSet(s), Distinct(s)
<1> QED
  BY ONLY <1>1, <1>2, <1>3

(* ... and what is left without one of them has none.                       *)
LEMMA RemoveDistinct ==
  ASSUME NEW s \in Lists, NEW k \in 1..Len(s), Distinct(s)
  PROVE  Distinct(RemoveAt(s, k))
<1>1. PICK p \in Lists, q \in Lists :
            /\ p = SubSeq(s, 1, k - 1) /\ q = SubSeq(s, k + 1, Len(s))
            /\ Len(p) = k - 1 /\ s[k] \in Elem /\ s = Cat(p, Cat(One(s[k]), q))
  BY ONLY SplitAt, s \in Lists, k \in 1..Len(s)
<1>2. PICK e \in Elem : e = s[k]
  BY <1>1
<1>3. k = Len(p) + 1 /\ s = Cat(p, Cat(One(e), q))
  BY ONLY <1>1, <1>2, k \in 1..Len(s)
<1>4. RemoveAt(Cat(p, Cat(One(e), q)), Len(p) + 1) = Cat(p, q)
  BY ONLY RemoveLaw, p \in Lists, q \in Lists, e \in Elem
<1>5. Distinct(Cat(p, q))
  BY ONLY <1>3, DistinctBetween, p \in Lists, q \in Lists, e \in Elem, Distinct(s)
<1> QED
  BY ONLY <1>3, <1>4, <1>5

-----------------------------------------------------------------------------
(* The operations do to the list what FocusList says.                       *)

(* The words of FocusList, in those of this module.                         *)
LEMMA WrapIs == \A i : List!Wrap(i) = Ring(Len(Flatten(z)), i)
BY DEF List!Wrap, List!N, Ring

(* The least number, ...                                                    *)
LEMMA ListMinIs == \A S : List!Min(S) = Min(S)
BY DEF List!Min, Min

(* ... what is kept, ...                                                    *)
LEMMA ListKeptIs == \A s, S : List!Kept(s, S) = Kept(s, S)
BY DEF List!Kept, Kept

(* ... what is put in, ...                                                  *)
LEMMA ListInsertIs == \A s, i, e : List!InsertAt(s, i, e) = InsertAt(s, i, e)
BY DEF List!InsertAt, InsertAt

(* ... what is taken out, ...                                               *)
LEMMA ListRemoveIs == \A s, i : List!RemoveAt(s, i) = RemoveAt(s, i)
BY DEF List!RemoveAt, RemoveAt

(* ... the elements ...                                                     *)
LEMMA ListToSetIs == \A s : List!ToSet(s) = ToSet(s)
BY DEF List!ToSet, ToSet

(* ... and the list backwards.                                              *)
LEMMA ListReverseIs == \A s : List!Reverse(s) = Reverse(s)
BY DEF List!Reverse, Reverse

(* The focus moves, the items stay.                                         *)
LEMMA FocusingStep ==
  ASSUME Flatten(z') = Flatten(z),
         \/ op' = <<"focus_up">> /\ Len(z'.up) + 1 = Ring(Len(Flatten(z)), Len(z.up) + 1 - 1)
         \/ op' = <<"focus_down">> /\ Len(z'.up) + 1 = Ring(Len(Flatten(z)), Len(z.up) + 1 + 1)
         \/ op' = <<"focus_head">> /\ Len(z'.up) + 1 = 1
         \/ op' = <<"focus_tail">> /\ Len(z'.up) + 1 = Len(Flatten(z))
  PROVE  List!Next
BY WrapIs DEF List!Next, List!Focusing, List!N

(* The focus moves to the next element that matches.                        *)
LEMMA FocusingElementStep ==
  ASSUME Flatten(z') = Flatten(z), NEW e \in Elem, op' = <<"focus_element_by", e>>,
         Len(z'.up) + 1 = IF Hits(z, e) = {} THEN Len(z.up) + 1
                          ELSE Ring(Len(Flatten(z)), Len(z.up) + 1 + Min(Hits(z, e)))
  PROVE  List!Next
<1>a. PICK H : H = Hits(z, e)
  OBVIOUS
<1>1. H = {k \in 0..List!N - 1 : Flatten(z)[List!Wrap(Len(z.up) + 1 + k)] = e}
  BY <1>a, WrapIs DEF List!N, Hits
<1>2. Len(z'.up) + 1 = IF H = {} THEN Len(z.up) + 1 ELSE List!Wrap(Len(z.up) + 1 + List!Min(H))
  BY <1>a, WrapIs, ListMinIs
<1>3. List!Focusing
  <2> DEFINE G == {k \in 0..List!N - 1 : Flatten(z)[List!Wrap(Len(z.up) + 1 + k)] = e}
  <2>1. H = G
    BY <1>1
  <2>2. Len(z'.up) + 1 = IF G = {} THEN Len(z.up) + 1 ELSE List!Wrap(Len(z.up) + 1 + List!Min(G))
    BY ONLY <1>2, <2>1, Zenon
  <2> QED
    BY <2>2, Zenon DEF List!Focusing
<1> QED
  BY <1>3 DEF List!Next

(* Items come, ...                                                          *)
LEMMA InsertingStep ==
  ASSUME Len(Flatten(z)) < MaxItems, NEW t \in Elem,
         \/ /\ op' = <<"insert_at", "Focus", t>> /\ Len(z'.up) + 1 = Len(z.up) + 1
            /\ Flatten(z') = InsertAt(Flatten(z), Len(z.up) + 1, t)
         \/ /\ op' = <<"insert_at", "Before", t>> /\ Len(z'.up) + 1 = Len(z.up) + 1 + 1
            /\ Flatten(z') = InsertAt(Flatten(z), Len(z.up) + 1, t)
         \/ /\ op' = <<"insert_at", "After", t>> /\ Len(z'.up) + 1 = Len(z.up) + 1
            /\ Flatten(z') = InsertAt(Flatten(z), Len(z.up) + 1 + 1, t)
         \/ /\ op' = <<"insert_at", "Head", t>> /\ Len(z'.up) + 1 = Len(z.up) + 1 + 1
            /\ Flatten(z') = InsertAt(Flatten(z), 1, t)
         \/ /\ op' = <<"insert_at", "Tail", t>> /\ Len(z'.up) + 1 = Len(z.up) + 1
            /\ Flatten(z') = InsertAt(Flatten(z), Len(Flatten(z)) + 1, t)
  PROVE  List!Next
<1>1. /\ List!Places("Focus") = Len(z.up) + 1 /\ List!Places("Before") = Len(z.up) + 1
      /\ List!Places("After") = Len(z.up) + 1 + 1 /\ List!Places("Head") = 1
      /\ List!Places("Tail") = Len(Flatten(z)) + 1
  BY DEF List!Places, List!N
<1>2. List!N < MaxItems
  BY DEF List!N
<1> DEFINE A(p) == /\ op' = <<"insert_at", p, t>>
                   /\ Flatten(z') = InsertAt(Flatten(z), List!Places(p), t)
                   /\ Len(z'.up) + 1 = IF p \in {"Before", "Head"} THEN Len(z.up) + 1 + 1 ELSE Len(z.up) + 1
<1>3. \E p \in {"Focus", "Before", "After", "Head", "Tail"} : A(p)
  <2>1. CASE A("Focus") \/ A("Before") \/ A("After") \/ A("Head") \/ A("Tail")
    <3> HIDE DEF A
    <3> QED
      BY <2>1
  <2> QED
    BY <1>1, <2>1
<1>4. List!Inserting
  BY <1>2, <1>3, ListInsertIs DEF List!Inserting
<1> QED
  BY <1>4 DEF List!Next

(* ... and go, ...                                                          *)
LEMMA RemovingFocusedStep ==
  ASSUME Len(Flatten(z)) > 1, op' = <<"remove_focused">>,
         Flatten(z') = RemoveAt(Flatten(z), Len(z.up) + 1),
         Len(z'.up) + 1 = Min({Len(z.up) + 1, Len(Flatten(z)) - 1})
  PROVE  List!Next
<1>1. List!Removing
  BY ListRemoveIs, ListMinIs DEF List!Removing, List!N
<1> QED
  BY <1>1 DEF List!Next

(* An element that matches goes, ...                                        *)
LEMMA RemovingWhereStep ==
  ASSUME NEW e \in Elem, NEW t \in Elem, op' = <<"remove_where", e, t>>, RemovedWhere(z, e, t, z')
  PROVE  List!Next
<1>1. CASE e \notin ToSet(Flatten(z))
  <2>1. z' = z
    BY <1>1 DEF RemovedWhere
  <2>2. Flatten(z') = Flatten(z) /\ Len(z'.up) + 1 = Len(z.up) + 1
    BY <2>1
  <2>3. List!Removing
    BY <1>1, <2>2, ListToSetIs DEF List!Removing
  <2> QED
    BY <2>3 DEF List!Next
<1>2. CASE e \in ToSet(Flatten(z)) /\ Len(Flatten(z)) = 1
  <2>1. Flatten(z') = <<t>> /\ Len(z'.up) + 1 = 1
    BY <1>2 DEF RemovedWhere, One
  <2>2. List!Removing
    BY <1>2, <2>1, ListToSetIs DEF List!Removing, List!N
  <2> QED
    BY <2>2 DEF List!Next
<1>3. CASE e \in ToSet(Flatten(z)) /\ Len(Flatten(z)) # 1
  <2>1. \E i \in 1..List!N :
           /\ Flatten(z)[i] = e
           /\ Flatten(z') = List!RemoveAt(Flatten(z), i)
           /\ Len(z'.up) + 1 = IF i < Len(z.up) + 1 THEN Len(z.up) + 1 - 1
                               ELSE List!Min({Len(z.up) + 1, List!N - 1})
    BY <1>3, ListRemoveIs, ListMinIs DEF RemovedWhere, List!N
  <2>2. List!N # 1
    BY <1>3 DEF List!N
  <2>3. List!Removing
    BY <1>3, <2>1, <2>2, ListToSetIs DEF List!Removing
  <2> QED
    BY <2>3 DEF List!Next
<1> QED
  BY <1>1, <1>2, <1>3

(* ... or all that are not in a set.                                        *)
LEMMA FilteringStep ==
  ASSUME NEW S \in SUBSET Elem, op' = <<"filter", S>>, FilteredTo(z, S, z')
  PROVE  List!Next
<1>1. /\ Flatten(z') = List!Kept(Flatten(z), S) /\ Flatten(z') # <<>>
      /\ Len(z'.up) + 1 = List!Min({Len(List!Kept(SubSeq(Flatten(z), 1, Len(z.up) + 1 - 1), S)) + 1, Len(Flatten(z'))})
  BY ListKeptIs, ListMinIs DEF FilteredTo, Nil
<1>a. List!FilteredBy(S)
  BY <1>1 DEF List!FilteredBy
<1>2. List!Filtering
  BY <1>a DEF List!Filtering
<1> QED
  BY <1>2 DEF List!Next

(* ... and change their order.                                              *)
LEMMA SwappingStep ==
  ASSUME \/ op' = <<"swap_up">> /\ Moved(z, z', Ring(Len(Flatten(z)), Len(z.up) + 1 - 1))
         \/ op' = <<"swap_down">> /\ Moved(z, z', Ring(Len(Flatten(z)), Len(z.up) + 1 + 1))
  PROVE  List!Next
<1>1. \/ op' = <<"swap_up">> /\ Moved(z, z', List!Wrap(Len(z.up) + 1 - 1))
      \/ op' = <<"swap_down">> /\ Moved(z, z', List!Wrap(Len(z.up) + 1 + 1))
  BY WrapIs
<1>2. \A i : Moved(z, z', i) =>
        /\ Flatten(z') = List!InsertAt(List!RemoveAt(Flatten(z), Len(z.up) + 1), i, Flatten(z)[Len(z.up) + 1])
        /\ Len(z'.up) + 1 = i
  BY ListInsertIs, ListRemoveIs DEF Moved
<1>3. List!Reordering
  BY <1>1, <1>2 DEF List!Reordering
<1> QED
  BY <1>3 DEF List!Next

(* The whole list turns, ...                                                *)
LEMMA TurningStep ==
  ASSUME \/ op' = <<"rotate_up">> /\ Turned(z, z', 1)
         \/ op' = <<"rotate_down">> /\ Turned(z, z', -1)
         \/ op' = <<"rotate_focus_to_head">> /\ Turned(z, z', Len(z.up) + 1 - 1)
  PROVE  List!Next
<1>1. \A by : Turned(z, z', by) =>
        /\ Flatten(z') = [i \in 1..List!N |-> Flatten(z)[List!Wrap(i + by)]]
        /\ Len(z'.up) + 1 = List!Wrap(Len(z.up) + 1 - by)
  BY WrapIs DEF Turned, TurnOf, List!N
<1>2. List!Reordering
  BY <1>1 DEF List!Reordering
<1> QED
  BY <1>2 DEF List!Next

(* ... is reversed, ...                                                     *)
LEMMA ReversingStep ==
  ASSUME op' = <<"reverse">>, Flatten(z') = Reverse(Flatten(z)),
         Len(z'.up) + 1 = Len(Flatten(z)) + 1 - (Len(z.up) + 1)
  PROVE  List!Next
<1>1. List!Reordering
  BY ListReverseIs DEF List!Reordering, List!N
<1> QED
  BY <1>1 DEF List!Next

(* ... or two elements change places.                                       *)
LEMMA SwappingEndsStep ==
  ASSUME op' = <<"swap_focus_and_head">>, Len(z'.up) + 1 = 1,
         Flatten(z') = [Flatten(z) EXCEPT ![1] = Flatten(z)[Len(z.up) + 1],
                                          ![Len(z.up) + 1] = Flatten(z)[1]]
  PROVE  List!Next
<1>1. List!Reordering
  BY DEF List!Reordering
<1> QED
  BY <1>1 DEF List!Next

-----------------------------------------------------------------------------
(* The refinement.                                                          *)

(* Without equal elements in it, remove_where takes the one element out     *)
(* that matches.                                                            *)
Inv == z \in Zips /\ Distinct(Flatten(z))

(* A new ZipList is a list of one element.                                  *)
LEMMA InitRefines == ASSUME Init PROVE Inv /\ List!Init
<1>1. PICK e \in Elem : z = Single(e) /\ op = <<"new">>
  BY DEF Init
<1>2. z = Z(Nil, e, Nil)
  BY <1>1 DEF Single, Nil
<1>3. Nil \in Lists /\ Reverse(Nil) = Nil /\ Len(Nil) = 0
  BY NilLaws, ReverseLaws
<1>4. Z(Nil, e, Nil) \in Zips /\ Z(Nil, e, Nil).up = Nil /\ Flatten(Z(Nil, e, Nil)) = Cat(Reverse(Nil), Cat(One(e), Nil))
  BY ONLY <1>3, FlattenMade, e \in Elem
<1>5. Cat(Nil, Cat(One(e), Nil)) = One(e) /\ Distinct(One(e))
  BY OneLaws, NilLaws, DistinctOne
<1>6. Flatten(z) = <<e>> /\ Len(z.up) + 1 = 1
  BY <1>2, <1>3, <1>4, <1>5 DEF One
<1>7. List!Init
  BY <1>1, <1>6 DEF List!Init
<1> QED
  BY <1>2, <1>3, <1>4, <1>5, <1>7 DEF Inv

(* The operations that move the focus, ...                                  *)
LEMMA FocusingRefines ==
  ASSUME Inv, FocusingUp \/ FocusingDown \/ FocusingHead \/ FocusingTail
  PROVE  Inv' /\ List!Next
<1>1. z \in Zips /\ Distinct(Flatten(z))
  BY DEF Inv
<1>2. CASE FocusingUp
  BY <1>1, <1>2, FocusUpFacts, FocusingStep DEF FocusingUp, Step, Inv
<1>3. CASE FocusingDown
  BY <1>1, <1>3, FocusDownFacts, FocusingStep DEF FocusingDown, Step, Inv
<1>4. CASE FocusingHead
  BY <1>1, <1>4, FocusHeadFacts, FocusingStep DEF FocusingHead, Step, Inv
<1>5. CASE FocusingTail
  BY <1>1, <1>5, FocusTailFacts, FocusingStep DEF FocusingTail, Step, Inv
<1> QED
  BY <1>2, <1>3, <1>4, <1>5

(* ... the one that looks for an element, ...                               *)
LEMMA FocusingElementRefines ==
  ASSUME Inv, FocusingElement
  PROVE  Inv' /\ List!Next
<1>1. z \in Zips /\ Distinct(Flatten(z))
  BY DEF Inv
<1>2. PICK e \in Elem : op' = <<"focus_element_by", e>> /\ z' = FocusBy(z, {e})
  BY DEF FocusingElement, Step
<1>5. /\ z' \in Zips /\ Flatten(z') = Flatten(z)
      /\ Len(z'.up) + 1 = IF Hits(z, e) = {} THEN Len(z.up) + 1
                          ELSE Ring(Len(Flatten(z)), Len(z.up) + 1 + Min(Hits(z, e)))
  BY ONLY <1>1, <1>2, FocusByFacts
<1>6. List!Next
  BY ONLY <1>2, <1>5, e \in Elem, FocusingElementStep
<1>7. Inv'
  BY <1>1, <1>5 DEF Inv
<1> QED
  BY <1>6, <1>7

(* ... those that put elements in, ...                                      *)
LEMMA InsertingRefines ==
  ASSUME Inv, Inserting, ~Duplicates
  PROVE  Inv' /\ List!Next
<1>1. z \in Zips /\ Distinct(Flatten(z)) /\ Elems(z) = ToSet(Flatten(z)) /\ ZLen(z) = Len(Flatten(z))
  BY ElemsFacts DEF Inv
<1>2. PICK p \in Positions, t \in Elem :
        /\ ZLen(z) < MaxItems /\ t \notin Elems(z)
        /\ op' = <<"insert_at", p, t>> /\ z' = InsertAtPos(z, p, t)
  BY DEF Inserting, Step
<1>3. t \notin ToSet(Flatten(z)) /\ Len(Flatten(z)) < MaxItems
  BY <1>1, <1>2
<1>4. PICK s \in Lists, n \in Nat, a \in Nat : s = Flatten(z) /\ n = Len(s) /\ a = Len(z.up) /\ a < n
  <2>1. PICK u \in Lists, d \in Lists, r \in Lists, s \in Lists, f \in Elem, a \in Nat, b \in Nat : Parts(z, u, d, r, s, f, a, b)
    BY <1>1, ZipSplit
  <2>2. s = Flatten(z) /\ Len(s) = a + b + 1 /\ a = Len(z.up)
    BY ONLY <2>1 DEF Parts
  <2>3. a + b + 1 \in Nat /\ a < a + b + 1
    OBVIOUS
  <2> QED
    BY ONLY <2>2, <2>3, s \in Lists, a \in Nat
<1>5. ASSUME NEW k \in 1..n + 1 PROVE Distinct(InsertAt(Flatten(z), k, t))
  BY ONLY <1>1, <1>3, <1>4, InsertDistinct, s \in Lists, t \in Elem, k \in 1..n + 1
<1>6. a + 1 \in 1..n + 1 /\ a + 1 + 1 \in 1..n + 1 /\ 1 \in 1..n + 1 /\ n + 1 \in 1..n + 1
  BY <1>4
<1>7. CASE p = "Focus"
  <2>1. z' \in Zips /\ Flatten(z') = InsertAt(Flatten(z), Len(z.up) + 1, t) /\ Len(z'.up) = Len(z.up)
    BY ONLY <1>1, <1>2, <1>7, InsertAtFocus
  <2>2. List!Next
    BY ONLY <1>2, <1>3, <1>7, <2>1, InsertingStep, t \in Elem
  <2> QED
    BY <1>4, <1>5, <1>6, <2>1, <2>2 DEF Inv
<1>8. CASE p = "Before"
  <2>1. z' \in Zips /\ Flatten(z') = InsertAt(Flatten(z), Len(z.up) + 1, t) /\ Len(z'.up) = Len(z.up) + 1
    BY ONLY <1>1, <1>2, <1>8, InsertAtBefore
  <2>2. List!Next
    BY ONLY <1>2, <1>3, <1>8, <2>1, InsertingStep, t \in Elem
  <2> QED
    BY <1>4, <1>5, <1>6, <2>1, <2>2 DEF Inv
<1>9. CASE p = "After"
  <2>1. z' \in Zips /\ Flatten(z') = InsertAt(Flatten(z), Len(z.up) + 1 + 1, t) /\ Len(z'.up) = Len(z.up)
    BY ONLY <1>1, <1>2, <1>9, InsertAtAfter
  <2>2. List!Next
    BY ONLY <1>2, <1>3, <1>9, <2>1, InsertingStep, t \in Elem
  <2> QED
    BY <1>4, <1>5, <1>6, <2>1, <2>2 DEF Inv
<1>10. CASE p = "Head"
  <2>1. z' \in Zips /\ Flatten(z') = InsertAt(Flatten(z), 1, t) /\ Len(z'.up) = Len(z.up) + 1
    BY ONLY <1>1, <1>2, <1>10, InsertAtHead
  <2>2. List!Next
    BY ONLY <1>2, <1>3, <1>10, <2>1, InsertingStep, t \in Elem
  <2> QED
    BY <1>4, <1>5, <1>6, <2>1, <2>2 DEF Inv
<1>11. CASE p = "Tail"
  <2>1. z' \in Zips /\ Flatten(z') = InsertAt(Flatten(z), Len(Flatten(z)) + 1, t) /\ Len(z'.up) = Len(z.up)
    BY ONLY <1>1, <1>2, <1>11, InsertAtTail
  <2>2. List!Next
    BY ONLY <1>2, <1>3, <1>11, <2>1, InsertingStep, t \in Elem
  <2> QED
    BY <1>4, <1>5, <1>6, <2>1, <2>2 DEF Inv
<1> QED
  BY <1>7, <1>8, <1>9, <1>10, <1>11 DEF Positions

(* ... take the focused one out, ...                                        *)
LEMMA RemovingFocusedRefines ==
  ASSUME Inv, RemovingFocused
  PROVE  Inv' /\ List!Next
<1>1. z \in Zips /\ Distinct(Flatten(z)) /\ ZLen(z) = Len(Flatten(z))
  BY ElemsFacts DEF Inv
<1>2. Len(Flatten(z)) > 1 /\ op' = <<"remove_focused">> /\ z' = RemoveFocused(z)
  BY <1>1 DEF RemovingFocused, Step
<1>3. /\ z' \in Zips /\ Flatten(z') = RemoveAt(Flatten(z), Len(z.up) + 1)
      /\ Len(z'.up) + 1 = Min({Len(z.up) + 1, Len(Flatten(z)) - 1})
  BY ONLY <1>1, <1>2, RemoveFocusedFacts
<1>4. Distinct(Flatten(z'))
  <2>1. PICK u \in Lists, d \in Lists, r \in Lists, s \in Lists, f \in Elem, a \in Nat, b \in Nat : Parts(z, u, d, r, s, f, a, b)
    BY <1>1, ZipSplit
  <2>2. s = Flatten(z) /\ Len(s) = a + b + 1 /\ a = Len(z.up)
    BY ONLY <2>1 DEF Parts
  <2>3. PICK k \in 1..Len(s) : k = Len(z.up) + 1
    BY ONLY <2>2, a \in Nat, b \in Nat
  <2> QED
    BY ONLY <1>1, <1>3, <2>2, <2>3, RemoveDistinct, s \in Lists
<1>5. List!Next
  BY ONLY <1>2, <1>3, RemovingFocusedStep
<1> QED
  BY <1>3, <1>4, <1>5 DEF Inv

(* ... take one out that matches ...                                        *)
LEMMA RemovingWhereRefines ==
  ASSUME Inv, RemovingWhere
  PROVE  Inv' /\ List!Next
<1>1. z \in Zips /\ Distinct(Flatten(z))
  BY DEF Inv
<1>2. PICK e \in Elem, t \in Elem : op' = <<"remove_where", e, t>> /\ z' = RemoveWhereWithDefault(z, {e}, t)
  BY DEF RemovingWhere, Step
<1>3. RemovedWhere(z, e, t, z')
  BY ONLY <1>1, <1>2, RemoveWhereFacts, e \in Elem, t \in Elem
<1>4. List!Next
  BY ONLY <1>2, <1>3, RemovingWhereStep, e \in Elem, t \in Elem
<1>5. z' \in Zips /\ Distinct(Flatten(z'))
  BY ONLY <1>3 DEF RemovedWhere
<1> QED
  BY <1>4, <1>5 DEF Inv

(* ... or all that do not, ...                                              *)
LEMMA FilteringRefines ==
  ASSUME Inv, Filtering
  PROVE  Inv' /\ List!Next
<1>1. z \in Zips /\ Distinct(Flatten(z))
  BY DEF Inv
<1>2. PICK S \in SUBSET Elem : S \cap Elems(z) # {} /\ op' = <<"filter", S>> /\ z' = FilterUnchecked(z, S)
  BY DEF Filtering, Step
<1>3. FilteredTo(z, S, z')
  BY ONLY <1>1, <1>2, FilterFacts
<1>4. List!Next
  BY ONLY <1>2, <1>3, FilteringStep, S \in SUBSET Elem
<1>5. z' \in Zips /\ Distinct(Flatten(z'))
  BY ONLY <1>1, <1>3 DEF FilteredTo
<1> QED
  BY <1>4, <1>5 DEF Inv

(* ... and those that change the order.                                     *)
LEMMA ReorderingRefines ==
  ASSUME Inv, Reordering
  PROVE  Inv' /\ List!Next
<1>1. z \in Zips /\ Distinct(Flatten(z))
  BY DEF Inv
<1>2. CASE op' = <<"swap_up">> /\ z' = SwapUp(z)
  <2>1. Moved(z, z', Ring(Len(Flatten(z)), Len(z.up) + 1 - 1))
    BY ONLY <1>1, <1>2, SwapUpFacts
  <2>2. List!Next
    BY ONLY <1>2, <2>1, SwappingStep
  <2> QED
    BY <1>1, <2>1, <2>2 DEF Inv, Moved
<1>3. CASE op' = <<"swap_down">> /\ z' = SwapDown(z)
  <2>1. Moved(z, z', Ring(Len(Flatten(z)), Len(z.up) + 1 + 1))
    BY ONLY <1>1, <1>3, SwapDownFacts
  <2>2. List!Next
    BY ONLY <1>3, <2>1, SwappingStep
  <2> QED
    BY <1>1, <2>1, <2>2 DEF Inv, Moved
<1>4. CASE op' = <<"rotate_up">> /\ z' = RotateUp(z)
  <2>1. Turned(z, z', 1)
    BY ONLY <1>1, <1>4, RotateUpFacts
  <2>2. List!Next
    BY ONLY <1>4, <2>1, TurningStep
  <2> QED
    BY <1>1, <2>1, <2>2 DEF Inv, Turned
<1>5. CASE op' = <<"rotate_down">> /\ z' = RotateDown(z)
  <2>1. Turned(z, z', -1)
    BY ONLY <1>1, <1>5, RotateDownFacts
  <2>2. List!Next
    BY ONLY <1>5, <2>1, TurningStep
  <2> QED
    BY <1>1, <2>1, <2>2 DEF Inv, Turned
<1>6. CASE op' = <<"rotate_focus_to_head">> /\ z' = RotateFocusToHead(z)
  <2>1. Turned(z, z', Len(z.up) + 1 - 1)
    BY ONLY <1>1, <1>6, RotateFocusToHeadFacts
  <2>2. List!Next
    BY ONLY <1>6, <2>1, TurningStep
  <2> QED
    BY <1>1, <2>1, <2>2 DEF Inv, Turned
<1>7. CASE op' = <<"swap_focus_and_head">> /\ z' = SwapFocusAndHead(z)
  <2>1. /\ z' \in Zips /\ Len(z'.up) + 1 = 1 /\ (Distinct(Flatten(z)) => Distinct(Flatten(z')))
        /\ Flatten(z') = [Flatten(z) EXCEPT ![1] = Flatten(z)[Len(z.up) + 1], ![Len(z.up) + 1] = Flatten(z)[1]]
    BY ONLY <1>1, <1>7, SwapFocusAndHeadFacts
  <2>2. List!Next
    BY ONLY <1>7, <2>1, SwappingEndsStep
  <2> QED
    BY <1>1, <2>1, <2>2 DEF Inv
<1>8. CASE op' = <<"reverse">> /\ z' = ZReverse(z)
  <2>1. /\ z' \in Zips /\ Flatten(z') = Reverse(Flatten(z)) /\ (Distinct(Flatten(z)) => Distinct(Flatten(z')))
        /\ Len(z'.up) + 1 = Len(Flatten(z)) + 1 - (Len(z.up) + 1)
    BY ONLY <1>1, <1>8, ReverseZipFacts
  <2>2. List!Next
    BY ONLY <1>8, <2>1, ReversingStep
  <2> QED
    BY <1>1, <2>1, <2>2 DEF Inv
<1> QED
  BY <1>2, <1>3, <1>4, <1>5, <1>6, <1>7, <1>8 DEF Reordering, Step

(* Every step of ZipList is one of FocusList.                               *)
LEMMA NextRefines ==
  ASSUME Inv, Next, ~Duplicates
  PROVE  Inv' /\ List!Next
BY FocusingRefines, FocusingElementRefines, InsertingRefines, RemovingFocusedRefines,
   RemovingWhereRefines, FilteringRefines, ReorderingRefines DEF Next

(* A step that changes nothing changes nothing of the list.                 *)
LEMMA StutterRefines ==
  ASSUME Inv, UNCHANGED vars
  PROVE  Inv' /\ UNCHANGED List!vars
BY DEF vars, Inv, List!vars

(* Every operation of ZipList does to the list what the documentation of    *)
(* the operation says, at any length of the list, when no two of its        *)
(* elements are equal (ziplist.rs; the buffers, columns and windows the     *)
(* editor keeps in ZipLists each have an id of their own).                  *)
THEOREM ZipListIsFocusList == ~Duplicates => (Spec => ImplementsFocusList)
<1>1. Init => Inv /\ List!Init
  BY InitRefines
<1>2. Inv /\ [Next]_vars /\ ~Duplicates => Inv' /\ [List!Next]_(List!vars)
  BY NextRefines, StutterRefines
<1> SUFFICES ASSUME ~Duplicates PROVE Spec => ImplementsFocusList
  OBVIOUS
<1>3. Inv /\ [Next]_vars => Inv' /\ [List!Next]_(List!vars)
  BY <1>2
<1> QED
  BY <1>1, <1>3, PTL DEF Spec, ImplementsFocusList, List!Spec
=============================================================================
