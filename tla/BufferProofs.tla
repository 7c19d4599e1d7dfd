---------------------------- MODULE BufferProofs -----------------------------
(***************************************************************************)
(* The invariants of Buffer for every text, every alphabet and logs of any *)
(* size.  Each handler is shown to keep what every buffer keeps (Follows), *)
(* and to leave a log that leads to the text it leaves (Recorded).  While  *)
(* the user edits alone the inductive invariant is that the log leads from *)
(* the text it started with to the text of the buffer, that what was       *)
(* undone leads from there to the text before the first undo (Exact), and  *)
(* that the selection lies in the text (WellDot).                          *)
(***************************************************************************)
EXTENDS Buffer, EditLogProofs

----------------------------------------------------------------------------
(* Buffers as records.                                                      *)

(* Each field of a buffer has its type.                                     *)
LEMMA Fields ==
  ASSUME NEW b \in Buffers
  PROVE  /\ b.txt \in Seq(Char)
         /\ b.dot \in DotType
         /\ b.xdot \in DotType
         /\ b.log \in Logs
         /\ b.dirty \in BOOLEAN
         /\ b.isFile \in BOOLEAN
         /\ b.panicked \in BOOLEAN
BY DEF Buffers

(* A buffer with another text, log, selection or flag is a buffer.          *)
LEMMA SetTxt ==
  ASSUME NEW b \in Buffers, NEW t \in Seq(Char)
  PROVE  LET c == [b EXCEPT !.txt = t]
         IN  /\ c \in Buffers
             /\ c.txt = t /\ c.dot = b.dot /\ c.xdot = b.xdot /\ c.log = b.log
             /\ c.dirty = b.dirty /\ c.isFile = b.isFile /\ c.panicked = b.panicked
BY DEF Buffers

(* The log.                                                                 *)
LEMMA SetLog ==
  ASSUME NEW b \in Buffers, NEW l \in Logs
  PROVE  LET c == [b EXCEPT !.log = l]
         IN  /\ c \in Buffers
             /\ c.txt = b.txt /\ c.dot = b.dot /\ c.xdot = b.xdot /\ c.log = l
             /\ c.dirty = b.dirty /\ c.isFile = b.isFile /\ c.panicked = b.panicked
BY DEF Buffers

(* The mark of a buffer that was not saved.                                 *)
LEMMA SetDirty ==
  ASSUME NEW b \in Buffers, NEW x \in BOOLEAN
  PROVE  LET c == [b EXCEPT !.dirty = x]
         IN  /\ c \in Buffers
             /\ c.txt = b.txt /\ c.dot = b.dot /\ c.xdot = b.xdot /\ c.log = b.log
             /\ c.dirty = x /\ c.isFile = b.isFile /\ c.panicked = b.panicked
BY DEF Buffers

(* The selection of the user.                                               *)
LEMMA SetDotField ==
  ASSUME NEW b \in Buffers, NEW d \in DotType, NEW c, c = [b EXCEPT !.dot = d]
  PROVE  /\ c \in Buffers
         /\ c.txt = b.txt /\ c.dot = d /\ c.xdot = b.xdot /\ c.log = b.log
         /\ c.dirty = b.dirty /\ c.isFile = b.isFile /\ c.panicked = b.panicked
BY DEF Buffers

(* The selection of the clients.                                            *)
LEMMA SetXDotField ==
  ASSUME NEW b \in Buffers, NEW d \in DotType, NEW c, c = [b EXCEPT !.xdot = d]
  PROVE  /\ c \in Buffers
         /\ c.txt = b.txt /\ c.dot = b.dot /\ c.xdot = d /\ c.log = b.log
         /\ c.dirty = b.dirty /\ c.isFile = b.isFile /\ c.panicked = b.panicked
BY DEF Buffers

(* The mark of a buffer that has panicked.                                  *)
LEMMA PanicFacts ==
  ASSUME NEW b \in Buffers
  PROVE  LET c == Panic(b)
         IN  /\ c \in Buffers
             /\ c.txt = b.txt /\ c.dot = b.dot /\ c.xdot = b.xdot /\ c.log = b.log
             /\ c.dirty = b.dirty /\ c.isFile = b.isFile /\ c.panicked = TRUE
BY DEF Buffers, Panic

(* The flag that stops the log from recording.                              *)
LEMMA SetPaused ==
  ASSUME NEW b \in Buffers, NEW x \in BOOLEAN
  PROVE  LET c == [b EXCEPT !.log.paused = x]
         IN  /\ c \in Buffers
             /\ c.txt = b.txt /\ c.dot = b.dot /\ c.xdot = b.xdot
             /\ c.log \in Logs /\ c.log.edits = b.log.edits
             /\ c.log.undone = b.log.undone /\ c.log.paused = x
             /\ c.dirty = b.dirty /\ c.isFile = b.isFile /\ c.panicked = b.panicked
<1> DEFINE l == [b.log EXCEPT !.paused = x]
<1>1. l \in Logs /\ l.edits = b.log.edits /\ l.undone = b.log.undone /\ l.paused = x
  BY Fields DEF Logs
<1>2. [b EXCEPT !.log.paused = x] = [b EXCEPT !.log = l]
  BY DEF Buffers
<1> HIDE DEF l
<1> DEFINE c == [b EXCEPT !.log = l]
<1>3. /\ c \in Buffers
      /\ c.txt = b.txt /\ c.dot = b.dot /\ c.xdot = b.xdot /\ c.log = l
      /\ c.dirty = b.dirty /\ c.isFile = b.isFile /\ c.panicked = b.panicked
  BY <1>1, SetLog
<1> HIDE DEF c
<1>4. [b EXCEPT !.log.paused = x] = c
  BY <1>2 DEF c
<1> QED
  BY <1>1, <1>3, <1>4

(* Dots.                                                                    *)
LEMMA CurType ==
  ASSUME NEW i \in Nat
  PROVE  Cur(i) \in DotType /\ Cur(i).tag = "Cur" /\ Cur(i).start = i /\ Cur(i).end = i
BY DEF Cur, DotType

(* A dot that is clamped ends inside of the text; one inside stays.         *)
LEMMA ClampFacts ==
  ASSUME NEW d \in DotType, NEW n \in Nat
  PROVE  LET c == ClampIdx(d, n)
         IN  /\ c \in DotType
             /\ c.tag = d.tag
             /\ c.start = IF d.start <= n THEN d.start ELSE n
             /\ c.end   = IF d.end <= n THEN d.end ELSE n
             /\ d.start <= n /\ d.end <= n => c = d
BY DEF ClampIdx, DotType

(* A dot that is shifted stays a dot.                                       *)
LEMMA OffsetFacts ==
  ASSUME NEW d \in DotType, NEW i \in Nat, NEW k \in Int
  PROVE  LET c == WithOffset(d, i, k)
         IN  /\ c \in DotType
             /\ c.start = SaturatingSub(d.start + i, k)
             /\ c.end   = SaturatingSub(d.end + i, k)
<1>1. d.start \in Nat /\ d.end \in Nat
  BY DEF DotType
<1>2. SaturatingSub(d.start + i, k) \in Nat /\ SaturatingSub(d.end + i, k) \in Nat
  BY <1>1 DEF SaturatingSub
<1> QED
  BY <1>1, <1>2 DEF WithOffset, DotType

(* A range of two cursors is ordered.                                       *)
LEMMA FromCursorsFacts ==
  ASSUME NEW i \in Nat, NEW j \in Nat
  PROVE  LET c == FromCursors(i, j)
         IN  /\ c \in DotType /\ c.tag = "Range" /\ c.start <= c.end
             /\ i <= j => c.start = i /\ c.end = j
BY DEF FromCursors, DotType

----------------------------------------------------------------------------
(* The primitive edits of a buffer.                                         *)

(* What every handler keeps: c is b after it.  A buffer whose text or log   *)
(* has changed is marked, if it is a file; nothing is added to what was     *)
(* undone; and nothing is recorded while the log is paused.                 *)
Follows(b, c) ==
    /\ c \in Buffers
    /\ c.isFile = b.isFile
    /\ c.log.paused = b.log.paused
    /\ b.log.paused => c.log = b.log
    /\ c.log.undone = b.log.undone \/ c.log.undone = <<>>
    /\ c.dirty = b.isFile \/ (c.txt = b.txt /\ c.log = b.log /\ c.dirty = b.dirty)

(* Two handlers, one after the other, ...                                   *)
LEMMA FollowsTwice ==
  ASSUME NEW b, NEW c, NEW d, Follows(b, c), Follows(c, d)
  PROVE  Follows(b, d)
BY DEF Follows

(* ... and one that then moves the selections.                              *)
LEMMA FollowsDots ==
  ASSUME NEW b, NEW c, NEW d, Follows(b, c), d \in Buffers,
         d.txt = c.txt, d.log = c.log, d.dirty = c.dirty, d.isFile = c.isFile
  PROVE  Follows(b, d)
BY DEF Follows

(* An insertion into the text leaves everything else.                       *)
LEMMA TxtInsertFacts ==
  ASSUME NEW b \in Buffers, NEW i \in Nat, NEW s \in Seq(Char), NEW c, c = TxtInsert(b, i, s)
  PROVE  /\ c \in Buffers
         /\ c.dot = b.dot /\ c.xdot = b.xdot /\ c.log = b.log
         /\ c.dirty = b.dirty /\ c.isFile = b.isFile
         /\ c.txt = b.txt \/ c.panicked = b.panicked
         /\ i <= Len(b.txt) => c.panicked = b.panicked /\ c.txt = Ins(b.txt, i, s)
<1>1. b.txt \in Seq(Char) /\ b.panicked \in BOOLEAN
  BY Fields
<1>2. PICK n : n = Len(b.txt)
  OBVIOUS
<1>3. n \in Nat
  BY <1>1, <1>2
<1>4. CASE n = 0 /\ i > 1
  <2>1. c = Panic(b)
    BY <1>2, <1>4 DEF TxtInsert
  <2>2. /\ c \in Buffers /\ c.txt = b.txt /\ c.dot = b.dot /\ c.xdot = b.xdot /\ c.log = b.log
        /\ c.dirty = b.dirty /\ c.isFile = b.isFile /\ c.panicked = TRUE
    BY <2>1, PanicFacts
  <2> QED
    BY <1>2, <1>4, <2>2
<1>5. CASE ~(n = 0 /\ i > 1)
  <2>1. PICK j : j = IF i <= n THEN i ELSE n
    OBVIOUS
  <2>2. j \in 0..n
    BY <1>3, <2>1
  <2>3. PICK t : t = Ins(b.txt, j, s)
    OBVIOUS
  <2>4. t \in Seq(Char)
    BY <1>1, <1>2, <2>2, <2>3, InsShape
  <2>5. c = [b EXCEPT !.txt = t]
    BY <1>2, <1>5, <2>1, <2>3 DEF TxtInsert, Ins
  <2>6. /\ c \in Buffers /\ c.txt = t /\ c.dot = b.dot /\ c.xdot = b.xdot /\ c.log = b.log
        /\ c.dirty = b.dirty /\ c.isFile = b.isFile /\ c.panicked = b.panicked
    BY <2>4, <2>5, SetTxt
  <2> QED
    BY <1>2, <2>1, <2>3, <2>6
<1> QED
  BY <1>4, <1>5

(* Marking a buffer leaves everything else.                                 *)
LEMMA MarkDirtyFacts ==
  ASSUME NEW b \in Buffers, NEW c, c = MarkDirty(b)
  PROVE  /\ c \in Buffers
         /\ c.txt = b.txt /\ c.dot = b.dot /\ c.xdot = b.xdot /\ c.log = b.log
         /\ c.dirty = b.isFile /\ c.isFile = b.isFile /\ c.panicked = b.panicked
BY Fields, SetDirty DEF MarkDirty

(* A buffer with a new text, whose log has recorded e, and that is marked.  *)
LEMMA CutFacts ==
  ASSUME NEW b \in Buffers, NEW e \in Edits, NEW d \in Buffers,
         d.dot = b.dot, d.xdot = b.xdot, d.log = LogRecord(b.log, e),
         d.isFile = b.isFile, d.panicked = b.panicked,
         NEW c, c = MarkDirty(d)
  PROVE  /\ c.txt = d.txt /\ c.dot = b.dot /\ c.xdot = b.xdot /\ c.log = d.log
         /\ c.panicked = b.panicked
         /\ Follows(b, c)
<1>1. b.log \in Logs
  BY Fields
<1>2. /\ d.log.paused = b.log.paused
      /\ b.log.paused => d.log = b.log
      /\ ~b.log.paused => d.log.undone = <<>>
  BY <1>1, RecordFacts
<1>3. /\ c \in Buffers /\ c.txt = d.txt /\ c.dot = b.dot /\ c.xdot = b.xdot /\ c.log = d.log
      /\ c.dirty = b.isFile /\ c.isFile = b.isFile /\ c.panicked = b.panicked
  BY MarkDirtyFacts
<1>4. Follows(b, c)
  BY <1>1, <1>2, <1>3, LogFields DEF Follows
<1> QED
  BY <1>3, <1>4

(* Removing a range: what is removed is recorded.                           *)
LEMMA DeleteRangeFacts ==
  ASSUME NEW b \in Buffers, NEW d \in DotType, NEW c, c = DeleteRange(b, d)
  PROVE  /\ Follows(b, c)
         /\ c.dot = b.dot /\ c.xdot = b.xdot
         /\ b.panicked => c.panicked
         /\ \A to \in 0..Len(b.txt) :
               /\ to = (IF d.end + 1 <= Len(b.txt) THEN d.end + 1 ELSE Len(b.txt))
               /\ d.start <= to
               => /\ c.panicked = b.panicked
                  /\ c.txt = Cut(b.txt, d.start, to)
                  /\ c.log = LogRecord(b.log,
                                NewEdit("Delete", d.start, SubSeq(b.txt, d.start + 1, to), FALSE))
<1>1. b.txt \in Seq(Char) /\ d.start \in Nat /\ d.end \in Nat /\ b.panicked \in BOOLEAN
  BY Fields DEF DotType
<1>2. PICK n : n = Len(b.txt)
  OBVIOUS
<1>3. PICK to : to = IF d.end + 1 <= n THEN d.end + 1 ELSE n
  OBVIOUS
<1>4. n \in Nat /\ to \in 0..n
  BY <1>1, <1>2, <1>3
<1>5. CASE d.start > to
  <2>1. c = Panic(b)
    BY <1>2, <1>3, <1>5 DEF DeleteRange
  <2>2. /\ c \in Buffers /\ c.txt = b.txt /\ c.dot = b.dot /\ c.xdot = b.xdot /\ c.log = b.log
        /\ c.dirty = b.dirty /\ c.isFile = b.isFile /\ c.panicked = TRUE
    BY <2>1, PanicFacts
  <2>3. Follows(b, c)
    BY <2>2 DEF Follows
  <2>4. \A x \in 0..n : x = (IF d.end + 1 <= n THEN d.end + 1 ELSE n) => ~(d.start <= x)
    BY <1>1, <1>3, <1>4, <1>5
  <2> QED
    BY <1>2, <2>2, <2>3, <2>4
<1>6. CASE ~(d.start > to)
  <2>1. PICK s : s = SubSeq(b.txt, d.start + 1, to)
    OBVIOUS
  <2>2. PICK e : e = NewEdit("Delete", d.start, s, FALSE)
    OBVIOUS
  <2>3. PICK t : t = Cut(b.txt, d.start, to)
    OBVIOUS
  <2>4. to \in 0..Len(b.txt) /\ d.start \in 0..to
    BY <1>1, <1>2, <1>4, <1>6
  <2>5. s \in Seq(Char)
    BY <1>1, <2>1, <2>4, InsCut
  <2>6. t \in Seq(Char)
    BY <1>1, <2>3, <2>4, CutShape
  <2>7. e \in Edits
    BY <1>1, <2>2, <2>5, NewEditFacts
  <2>m. PICK m : m = LogRecord(b.log, e)
    OBVIOUS
  <2>d. PICK x : x = [b EXCEPT !.txt = t, !.log = m]
    OBVIOUS
  <2>8. c = MarkDirty(x)
    BY <2>d, <1>2, <1>3, <1>6, <2>1, <2>2, <2>3, <2>m DEF DeleteRange, Cut
  <2>l. m \in Logs
    BY <2>7, <2>m, Fields, RecordFacts
  <2>x. /\ x \in Buffers /\ x.txt = t /\ x.dot = b.dot /\ x.xdot = b.xdot /\ x.log = m
        /\ x.dirty = b.dirty /\ x.isFile = b.isFile /\ x.panicked = b.panicked
    BY <2>6, <2>d, <2>l DEF Buffers
  <2>9. /\ c.txt = t /\ c.dot = b.dot /\ c.xdot = b.xdot /\ c.log = m
        /\ c.panicked = b.panicked
        /\ Follows(b, c)
    BY <2>7, <2>8, <2>m, <2>x, CutFacts
  <2>10. \A k \in 0..n : k = (IF d.end + 1 <= n THEN d.end + 1 ELSE n) => k = to
    BY <1>3
  <2> QED
    BY <1>2, <2>1, <2>2, <2>3, <2>9, <2>10, <2>m
<1> QED
  BY <1>5, <1>6

(* Removing one character.                                                  *)
LEMMA DeleteCurFacts ==
  ASSUME NEW b \in Buffers, NEW i \in Nat, NEW c, c = DeleteCur(b, i)
  PROVE  /\ Follows(b, c)
         /\ c.dot = b.dot /\ c.xdot = b.xdot
         /\ c.panicked = b.panicked
         /\ i >= Len(b.txt) => c = b
         /\ i < Len(b.txt) =>
               /\ c.txt = Cut(b.txt, i, i + 1)
               /\ c.log = LogRecord(b.log,
                             NewEdit("Delete", i, SubSeq(b.txt, i + 1, i + 1), TRUE))
<1>1. b.txt \in Seq(Char) /\ Len(b.txt) \in Nat
  BY Fields
<1>2. CASE i >= Len(b.txt)
  <2>1. c = b
    BY <1>2 DEF DeleteCur
  <2> QED
    <3>1. Follows(b, c)
      BY <2>1 DEF Follows
    <3>2. ~(i < Len(b.txt))
      BY <1>1, <1>2
    <3> QED
      BY <2>1, <3>1, <3>2
<1>3. CASE ~(i >= Len(b.txt))
  <2>1. PICK s : s = <<b.txt[i + 1]>>
    OBVIOUS
  <2>2. PICK e : e = NewEdit("Delete", i, s, TRUE)
    OBVIOUS
  <2>3. PICK t : t = Cut(b.txt, i, i + 1)
    OBVIOUS
  <2>4. i + 1 \in 0..Len(b.txt) /\ i \in 0..i + 1 /\ i + 1 \in 1..Len(b.txt)
    BY <1>1, <1>3
  <2>5. s \in Seq(Char) /\ s = SubSeq(b.txt, i + 1, i + 1)
    BY <1>1, <2>1, <2>4
  <2>6. t \in Seq(Char)
    BY <1>1, <2>3, <2>4, CutShape
  <2>7. e \in Edits
    BY <2>2, <2>5, NewEditFacts
  <2>8. RemoveAt(b.txt, i + 1) = t
    <3>1. (i + 1) - 1 = i /\ i + 1 + 1 = (i + 1) + 1
      OBVIOUS
    <3> QED
      BY <2>3, <3>1 DEF RemoveAt, Cut
  <2>m. PICK m : m = LogRecord(b.log, e)
    OBVIOUS
  <2>d. PICK x : x = [b EXCEPT !.txt = t, !.log = m]
    OBVIOUS
  <2>9. c = MarkDirty(x)
    BY <2>d, <1>3, <2>1, <2>2, <2>8, <2>m DEF DeleteCur
  <2>l. m \in Logs
    BY <2>7, <2>m, Fields, RecordFacts
  <2>x. /\ x \in Buffers /\ x.txt = t /\ x.dot = b.dot /\ x.xdot = b.xdot /\ x.log = m
        /\ x.dirty = b.dirty /\ x.isFile = b.isFile /\ x.panicked = b.panicked
    BY <2>6, <2>d, <2>l DEF Buffers
  <2>10. /\ c.txt = t /\ c.dot = b.dot /\ c.xdot = b.xdot /\ c.log = m
         /\ c.panicked = b.panicked
         /\ Follows(b, c)
    BY <2>7, <2>9, <2>m, <2>x, CutFacts
  <2> QED
    BY <1>3, <2>2, <2>3, <2>5, <2>10, <2>m
<1> QED
  BY <1>2, <1>3

(* A dot inside of a text of n characters, whose ends differ if it is a     *)
(* range.                                                                   *)
WellDot(d, n) ==
    /\ d.start <= d.end
    /\ d.end <= n
    /\ IsCur(d) => d.start = d.end
    /\ ~IsCur(d) => d.start < d.end

(* Removing what a dot selects.                                             *)
LEMMA DeleteDotFollows ==
  ASSUME NEW b \in Buffers, NEW d \in DotType, NEW c, c = DeleteDot(b, d)
  PROVE  Follows(b, c) /\ c.dot = b.dot /\ c.xdot = b.xdot
<1>1. d.start \in Nat
  BY DEF DotType
<1>2. CASE IsCur(d)
  <2>1. c = DeleteCur(b, d.start)
    BY <1>2 DEF DeleteDot
  <2> QED
    BY <1>1, <2>1, DeleteCurFacts
<1>3. CASE ~IsCur(d)
  <2>1. c = DeleteRange(b, d)
    BY <1>3 DEF DeleteDot
  <2> QED
    BY <2>1, DeleteRangeFacts, ZenonT(30)
<1> QED
  BY <1>2, <1>3

(* What is removed is recorded as it was.                                   *)
LEMMA Removed ==
  ASSUME NEW b \in Buffers, NEW d \in DotType, WellDot(d, Len(b.txt)),
         IsCur(d) => d.start < Len(b.txt), NEW c, c = DeleteDot(b, d)
  PROVE  /\ c.panicked = b.panicked
         /\ d.start <= Len(c.txt)
         /\ \E e \in GoodEdits : /\ e.kind = "Delete"
                                 /\ c.log = LogRecord(b.log, e)
                                 /\ Step(b.txt, e, c.txt)
<1>1. b.txt \in Seq(Char) /\ d.start \in Nat /\ d.end \in Nat
  BY Fields DEF DotType
<1>2. PICK n : n = Len(b.txt)
  OBVIOUS
<1>3. n \in Nat /\ d.start <= d.end /\ d.end <= n /\ d.start < n
      /\ (IsCur(d) => d.start = d.end) /\ (~IsCur(d) => d.start < d.end)
  BY <1>1, <1>2 DEF WellDot
<1>4. PICK a : a = d.start
  OBVIOUS
<1>5. \E to \in 1..n, x \in BOOLEAN :
        /\ a < to
        /\ x => to = a + 1
        /\ c.panicked = b.panicked
        /\ c.txt = Cut(b.txt, a, to)
        /\ c.log = LogRecord(b.log, NewEdit("Delete", a, SubSeq(b.txt, a + 1, to), x))
  <2>1. CASE IsCur(d)
    <3>1. c = DeleteCur(b, a)
      BY <1>4, <2>1 DEF DeleteDot
    <3>2. a + 1 \in 1..n /\ a < a + 1 /\ a < Len(b.txt) /\ a \in Nat
      BY <1>1, <1>2, <1>3, <1>4
    <3>3. /\ c.panicked = b.panicked
          /\ c.txt = Cut(b.txt, a, a + 1)
          /\ c.log = LogRecord(b.log, NewEdit("Delete", a, SubSeq(b.txt, a + 1, a + 1), TRUE))
      BY <3>1, <3>2, DeleteCurFacts
    <3> QED
      BY <3>2, <3>3
  <2>2. CASE ~IsCur(d)
    <3>1. c = DeleteRange(b, d)
      BY <2>2 DEF DeleteDot
    <3>2. PICK to : to = IF d.end + 1 <= n THEN d.end + 1 ELSE n
      OBVIOUS
    <3>3. to \in 1..n /\ to \in 0..n /\ a < to /\ d.start <= to
      BY <1>1, <1>3, <1>4, <2>2, <3>2
    <3>4. /\ c.panicked = b.panicked
          /\ c.txt = Cut(b.txt, d.start, to)
          /\ c.log = LogRecord(b.log, NewEdit("Delete", d.start, SubSeq(b.txt, d.start + 1, to), FALSE))
      BY <1>2, <3>1, <3>2, <3>3, DeleteRangeFacts, ZenonT(30)
    <3> QED
      BY <1>4, <3>3, <3>4
  <2> QED
    BY <2>1, <2>2
<1>6. PICK to \in 1..n, x \in BOOLEAN :
        /\ a < to
        /\ x => to = a + 1
        /\ c.panicked = b.panicked
        /\ c.txt = Cut(b.txt, a, to)
        /\ c.log = LogRecord(b.log, NewEdit("Delete", a, SubSeq(b.txt, a + 1, to), x))
  BY <1>5
<1>7. PICK s : s = SubSeq(b.txt, a + 1, to)
  OBVIOUS
<1>8. PICK e : e = NewEdit("Delete", a, s, x)
  OBVIOUS
<1>9. to \in 0..Len(b.txt) /\ a \in 0..to
  BY <1>1, <1>2, <1>3, <1>4, <1>6
<1>10. /\ s \in Seq(Char) /\ Len(s) = to - a
       /\ a \in 0..Len(c.txt) /\ b.txt = Ins(c.txt, a, s)
  BY <1>1, <1>6, <1>7, <1>9, InsCut
<1>11. e \in Edits /\ e.kind = "Delete" /\ e.cur = a /\ e.txt = s /\ e.isChar = x
  BY <1>1, <1>4, <1>8, <1>10, NewEditFacts
<1>12. s # <<>> /\ (x => Len(s) = 1)
  BY <1>6, <1>9, <1>10
<1>13. e \in GoodEdits
  BY <1>11, <1>12 DEF GoodEdits
<1>14. Step(b.txt, e, c.txt)
  BY <1>10, <1>11 DEF Step
<1> QED
  BY <1>4, <1>6, <1>7, <1>8, <1>10, <1>11, <1>13, <1>14

(* A cursor behind the text selects nothing.                                *)
LEMMA RemovedNothing ==
  ASSUME NEW b \in Buffers, NEW d \in DotType, IsCur(d), d.start >= Len(b.txt),
         NEW c, c = DeleteDot(b, d)
  PROVE  c = b
BY DEF DeleteDot, DeleteCur

(* Inserting: first the range is removed, then the string is inserted.      *)
LEMMA InsertFollows ==
  ASSUME NEW b \in Buffers, NEW d \in DotType, NEW s \in Seq(Char), NEW x \in BOOLEAN,
         NEW c, c = Insert(b, d, s, x)
  PROVE  /\ Follows(b, c) /\ c.dot = b.dot /\ c.xdot = b.xdot
         /\ \A b1 : /\ b1 = (IF IsCur(d) THEN b ELSE DeleteDot(b, d))
                    /\ ~b1.panicked
                    /\ d.start <= Len(b1.txt)
                    => /\ ~c.panicked
                       /\ s = <<>> => c.txt = b1.txt /\ c.log = b1.log
                       /\ s # <<>> => /\ c.txt = Ins(b1.txt, d.start, s)
                                      /\ c.log = LogRecord(b1.log, NewEdit("Insert", d.start, s, x))
<1>1. d.start \in Nat
  BY DEF DotType
<1>2. PICK b1 : b1 = IF IsCur(d) THEN b ELSE DeleteRange(b, d)
  OBVIOUS
<1>3. Follows(b, b1) /\ b1 \in Buffers /\ b1.dot = b.dot /\ b1.xdot = b.xdot
      /\ b1 = (IF IsCur(d) THEN b ELSE DeleteDot(b, d))
  <2>1. CASE IsCur(d)
    BY <1>2, <2>1 DEF Follows
  <2>2. CASE ~IsCur(d)
    <3>1. b1 = DeleteDot(b, d)
      BY <1>2, <2>2 DEF DeleteDot
    <3> QED
      BY <2>2, <3>1, DeleteDotFollows DEF Follows
  <2> QED
    BY <2>1, <2>2
<1>b. b1 \in Buffers
  BY <1>3
<1>4. PICK b2 : b2 = IF s = <<>> THEN b1 ELSE TxtInsert(b1, d.start, s)
  OBVIOUS
<1>5. PICK e : e = NewEdit("Insert", d.start, s, x)
  OBVIOUS
<1>6. e \in Edits
  BY <1>1, <1>5, NewEditFacts
<1>7. CASE b1.panicked
  <2>1. c = b1
    BY <1>2, <1>7 DEF Insert
  <2> QED
    BY <1>3, <1>7, <2>1
<1>8. CASE ~b1.panicked /\ b2.panicked
  <2>1. c = b2
    BY <1>2, <1>4, <1>8 DEF Insert
  <2>2. s # <<>> /\ b2 = TxtInsert(b1, d.start, s)
    BY <1>4, <1>8
  <2>3. /\ b2 \in Buffers /\ b2.dot = b1.dot /\ b2.xdot = b1.xdot /\ b2.log = b1.log
        /\ b2.dirty = b1.dirty /\ b2.isFile = b1.isFile /\ b2.txt = b1.txt
        /\ ~(d.start <= Len(b1.txt))
    <3>1. /\ b2 \in Buffers /\ b2.dot = b1.dot /\ b2.xdot = b1.xdot /\ b2.log = b1.log
          /\ b2.dirty = b1.dirty /\ b2.isFile = b1.isFile
      BY ONLY <1>1, <1>b, <2>2, TxtInsertFacts, s \in Seq(Char)
    <3>2. b2.txt = b1.txt \/ b2.panicked = b1.panicked
      BY ONLY <1>1, <1>b, <2>2, TxtInsertFacts, s \in Seq(Char), ZenonT(30)
    <3>3. d.start <= Len(b1.txt) => b2.panicked = b1.panicked
      BY ONLY <1>1, <1>b, <2>2, TxtInsertFacts, s \in Seq(Char), SMTT(30)
    <3>4. b2.panicked # b1.panicked
      BY <1>8
    <3> QED
      BY <3>1, <3>2, <3>3, <3>4
  <2>4. Follows(b, c)
    BY <1>3, <2>1, <2>3, FollowsDots
  <2> QED
    BY <1>3, <2>1, <2>3, <2>4
<1>9. CASE ~b1.panicked /\ ~b2.panicked
  <2>1. CASE s = <<>>
    <3>1. c = MarkDirty(b1)
      BY <1>2, <1>4, <1>9, <2>1 DEF Insert
    <3>2. /\ c \in Buffers
          /\ c.txt = b1.txt /\ c.dot = b1.dot /\ c.xdot = b1.xdot /\ c.log = b1.log
          /\ c.dirty = b1.isFile /\ c.isFile = b1.isFile /\ c.panicked = b1.panicked
      BY <1>3, <3>1, MarkDirtyFacts
    <3>3. Follows(b, c)
      BY <1>3, <3>2 DEF Follows
    <3> QED
      BY <1>3, <1>9, <2>1, <3>2, <3>3
  <2>2. CASE s # <<>>
    <3>1. b2 = TxtInsert(b1, d.start, s)
      BY <1>4, <2>2
    <3>2. /\ b2 \in Buffers /\ b2.dot = b1.dot /\ b2.xdot = b1.xdot /\ b2.log = b1.log
          /\ b2.dirty = b1.dirty /\ b2.isFile = b1.isFile
          /\ d.start <= Len(b1.txt) => b2.txt = Ins(b1.txt, d.start, s)
      <4>1. /\ b2 \in Buffers /\ b2.dot = b1.dot /\ b2.xdot = b1.xdot /\ b2.log = b1.log
            /\ b2.dirty = b1.dirty /\ b2.isFile = b1.isFile
        BY ONLY <1>1, <1>b, <3>1, TxtInsertFacts, s \in Seq(Char)
      <4>2. d.start <= Len(b1.txt) => b2.txt = Ins(b1.txt, d.start, s)
        BY ONLY <1>1, <1>b, <3>1, TxtInsertFacts, s \in Seq(Char)
      <4> QED
        BY <4>1, <4>2
    <3>3. PICK m : m = LogRecord(b1.log, e)
      OBVIOUS
    <3>4. m \in Logs
      BY <1>3, <1>6, <3>3, Fields, RecordFacts
    <3>5. PICK y : y = [b2 EXCEPT !.log = m]
      OBVIOUS
    <3>6. /\ y \in Buffers /\ y.txt = b2.txt /\ y.dot = b2.dot /\ y.xdot = b2.xdot /\ y.log = m
          /\ y.dirty = b2.dirty /\ y.isFile = b2.isFile /\ y.panicked = b2.panicked
      BY <3>2, <3>4, <3>5, SetLog
    <3>7. c = MarkDirty(y)
      BY <1>2, <1>4, <1>5, <1>9, <2>2, <3>2, <3>3, <3>5 DEF Insert
    <3>8. b2.panicked = b1.panicked
      BY <1>3, <1>9, <3>2, Fields
    <3>9. /\ c.txt = y.txt /\ c.dot = b1.dot /\ c.xdot = b1.xdot /\ c.log = m
          /\ c.panicked = b1.panicked
          /\ Follows(b1, c)
      BY <1>3, <1>6, <3>2, <3>3, <3>6, <3>7, <3>8, CutFacts
    <3>10. Follows(b, c)
      BY <1>3, <3>9, FollowsTwice
    <3> QED
      BY <1>3, <1>5, <1>9, <2>2, <3>2, <3>3, <3>6, <3>9, <3>10
  <2> QED
    BY <2>1, <2>2
<1> QED
  BY <1>7, <1>8, <1>9

----------------------------------------------------------------------------
(* What an edit of a buffer leaves in its log.                              *)

(* c is b after edits that are all in its log: the log leads from t to the  *)
(* text of c, and nothing is left to redo once something was recorded.      *)
Recorded(b, c, t) ==
    /\ ~c.panicked
    /\ LogChain(t, c.log.edits, c.txt)
    /\ \/ c.log = b.log /\ c.txt = b.txt
       \/ c.log # b.log /\ c.log.undone = <<>>

(* the log is not paused *)
Recording(l) == l.paused = FALSE

(* A recorded edit leads on from where the log led.                         *)
LEMMA RecordStory ==
  ASSUME OneByte, NEW l \in Logs, Recording(l), NEW e \in GoodEdits,
         NEW t, NEW v, NEW u \in Seq(Char), LogChain(t, l.edits, v), Step(v, e, u),
         NEW m, m = LogRecord(l, e)
  PROVE  /\ m \in Logs /\ m.undone = <<>>
         /\ m.edits = Pushed(l.edits, e)
         /\ LogChain(t, m.edits, u)
         /\ m # l
<1>1. e \in Edits /\ e.txt # <<>>
  BY DEF GoodEdits
<1>2. /\ m \in Logs /\ m.paused = l.paused
      /\ m.edits = Pushed(l.edits, e) /\ m.undone = <<>>
  BY <1>1, RecordFacts DEF Recording
<1>3. l.edits \in Seq(Seq(Edits))
  BY LogFields
<1>4. LogChain(t, Pushed(l.edits, e), u)
  BY <1>3, PushedChain
<1>5. Pushed(l.edits, e) # l.edits
  BY <1>1, <1>3, PushedFacts
<1> QED
  BY <1>2, <1>4, <1>5

(* What Buffer::delete_dot removes is in the log.                           *)
LEMMA DeleteStory ==
  ASSUME OneByte, NEW b \in Buffers, ~b.panicked, Recording(b.log),
         NEW d \in DotType, WellDot(d, Len(b.txt)),
         NEW t, LogChain(t, b.log.edits, b.txt),
         NEW c, c = DeleteDot(b, d)
  PROVE  Recorded(b, c, t) /\ d.start <= Len(c.txt)
<1>1. b.txt \in Seq(Char) /\ b.log \in Logs /\ d.start \in Nat /\ Len(b.txt) \in Nat
  BY Fields DEF DotType
<1>2. c \in Buffers /\ c.txt \in Seq(Char)
  BY DeleteDotFollows, Fields DEF Follows
<1>3. CASE IsCur(d) /\ d.start >= Len(b.txt)
  <2>1. c = b
    BY <1>3, RemovedNothing
  <2>2. d.start <= Len(b.txt)
    BY <1>1, <1>3 DEF WellDot
  <2> QED
    BY <2>1, <2>2 DEF Recorded
<1>4. CASE ~(IsCur(d) /\ d.start >= Len(b.txt))
  <2>1. IsCur(d) => d.start < Len(b.txt)
    BY <1>1, <1>4
  <2>2. /\ c.panicked = b.panicked
        /\ d.start <= Len(c.txt)
        /\ \E e \in GoodEdits : /\ e.kind = "Delete"
                                /\ c.log = LogRecord(b.log, e)
                                /\ Step(b.txt, e, c.txt)
    BY ONLY <2>1, Removed, b \in Buffers, d \in DotType, WellDot(d, Len(b.txt)),
            c = DeleteDot(b, d)
  <2>3. PICK e \in GoodEdits : c.log = LogRecord(b.log, e) /\ Step(b.txt, e, c.txt)
    BY <2>2
  <2>4. /\ c.log.undone = <<>> /\ c.log # b.log
        /\ LogChain(t, c.log.edits, c.txt)
    <3>1. PICK l, v, m, u : l = b.log /\ v = b.txt /\ m = c.log /\ u = c.txt
      OBVIOUS
    <3>2. /\ l \in Logs /\ Recording(l) /\ u \in Seq(Char)
          /\ LogChain(t, l.edits, v) /\ Step(v, e, u) /\ m = LogRecord(l, e)
      BY <1>1, <1>2, <2>3, <3>1
    <3>3. m.undone = <<>> /\ m # l /\ LogChain(t, m.edits, u)
      BY ONLY <3>2, RecordStory, OneByte, e \in GoodEdits
    <3> QED
      BY <3>1, <3>3
  <2> QED
    BY <2>2, <2>4 DEF Recorded
<1> QED
  BY <1>3, <1>4

(* An insertion at a cursor.                                                *)
LEMMA InsertedStory ==
  ASSUME OneByte, NEW b \in Buffers, Recording(b.log),
         NEW e \in GoodEdits, e.kind = "Insert", e.cur \in 0..Len(b.txt),
         NEW t, LogChain(t, b.log.edits, b.txt),
         NEW c \in Buffers, c.txt = Ins(b.txt, e.cur, e.txt), c.log = LogRecord(b.log, e)
  PROVE  /\ LogChain(t, c.log.edits, c.txt)
         /\ c.log # b.log /\ c.log.undone = <<>>
         /\ e.cur + Len(e.txt) <= Len(c.txt)
         /\ c.log.edits = Pushed(b.log.edits, e)
<1>1. PICK l, v, m, u : l = b.log /\ v = b.txt /\ m = c.log /\ u = c.txt
  OBVIOUS
<1>2. PICK i, s : i = e.cur /\ s = e.txt
  OBVIOUS
<1>3. l \in Logs /\ v \in Seq(Char) /\ u \in Seq(Char) /\ s \in Seq(Char) /\ i \in 0..Len(v)
  BY <1>1, <1>2, Fields, EditFields DEF GoodEdits
<1>4. u = Ins(v, i, s) /\ m = LogRecord(l, e)
  BY <1>1, <1>2
<1>5. Step(v, e, u)
  BY <1>2, <1>3, <1>4 DEF Step
<1>6. Recording(l) /\ LogChain(t, l.edits, v)
  BY <1>1
<1>7. m.undone = <<>> /\ m # l /\ LogChain(t, m.edits, u) /\ m.edits = Pushed(l.edits, e)
  BY ONLY <1>3, <1>4, <1>5, <1>6, RecordStory, OneByte, e \in GoodEdits
<1>8. Len(u) = Len(v) + Len(s)
  BY ONLY <1>3, <1>4, InsShape
<1>9. i + Len(s) <= Len(u)
  BY <1>3, <1>8
<1> QED
  BY <1>1, <1>2, <1>7, <1>9

(* So is what Buffer::insert removes and inserts.                           *)
LEMMA InsertStory ==
  ASSUME OneByte, NEW b \in Buffers, ~b.panicked, Recording(b.log),
         NEW d \in DotType, WellDot(d, Len(b.txt)),
         NEW s \in Seq(Char), NEW x \in BOOLEAN, x => Len(s) = 1,
         NEW t, LogChain(t, b.log.edits, b.txt),
         NEW c, c = Insert(b, d, s, x)
  PROVE  Recorded(b, c, t) /\ d.start + Len(s) <= Len(c.txt)
<1>1. b.txt \in Seq(Char) /\ b.log \in Logs /\ d.start \in Nat /\ Len(b.txt) \in Nat
  BY Fields DEF DotType
<1>2. c \in Buffers /\ c.txt \in Seq(Char) /\ c.log \in Logs
  BY InsertFollows, Fields DEF Follows
<1>3. PICK b1 : b1 = IF IsCur(d) THEN b ELSE DeleteDot(b, d)
  OBVIOUS
<1>4. /\ b1 \in Buffers /\ ~b1.panicked /\ Recording(b1.log)
      /\ d.start \in 0..Len(b1.txt)
      /\ LogChain(t, b1.log.edits, b1.txt)
      /\ \/ b1 = b
         \/ /\ b1.log # b.log /\ b1.log.undone = <<>>
            /\ \E e \in Edits : e.kind = "Delete" /\ b1.log.edits = Pushed(b.log.edits, e)
  <2>1. CASE IsCur(d)
    <3>1. b1 = b /\ d.start \in 0..Len(b.txt)
      BY <1>1, <1>3, <2>1 DEF WellDot, DotType
    <3> QED
      BY <3>1
  <2>2. CASE ~IsCur(d)
    <3>1. b1 = DeleteDot(b, d)
      BY <1>3, <2>2
    <3>2. b1 \in Buffers /\ Recording(b1.log)
      BY <3>1, DeleteDotFollows DEF Follows, Recording
    <3>3. Recorded(b, b1, t) /\ d.start <= Len(b1.txt)
      BY ONLY <3>1, DeleteStory, OneByte, b \in Buffers, ~b.panicked, Recording(b.log),
              d \in DotType, WellDot(d, Len(b.txt)), LogChain(t, b.log.edits, b.txt)
    <3>4. PICK e \in GoodEdits : e.kind = "Delete" /\ b1.log = LogRecord(b.log, e)
      BY ONLY <2>2, <3>1, Removed, b \in Buffers, d \in DotType, WellDot(d, Len(b.txt))
    <3>5. e \in Edits /\ e.txt # <<>>
      BY DEF GoodEdits
    <3>6. b1.log.edits = Pushed(b.log.edits, e) /\ b1.log.undone = <<>>
      BY <1>1, <3>4, <3>5, RecordFacts DEF Recording
    <3>7. b1.log # b.log
      BY <1>1, <3>5, <3>6, PushedFacts, LogFields
    <3>8. d.start \in 0..Len(b1.txt)
      BY <1>1, <3>2, <3>3, Fields
    <3> QED
      BY <3>2, <3>3, <3>4, <3>5, <3>6, <3>7, <3>8 DEF Recorded
  <2> QED
    BY <2>1, <2>2
<1>5. d.start <= Len(b1.txt)
  BY <1>1, <1>4, Fields
<1>6. /\ ~c.panicked
      /\ s = <<>> => c.txt = b1.txt /\ c.log = b1.log
      /\ s # <<>> => /\ c.txt = Ins(b1.txt, d.start, s)
                     /\ c.log = LogRecord(b1.log, NewEdit("Insert", d.start, s, x))
  BY <1>3, <1>4, <1>5, InsertFollows
<1>7. CASE s = <<>>
  <2>1. Len(s) = 0 /\ d.start + Len(s) <= Len(c.txt)
    BY <1>1, <1>5, <1>6, <1>7
  <2>2. (c.log = b.log /\ c.txt = b.txt) \/ (c.log # b.log /\ c.log.undone = <<>>)
    BY <1>4, <1>6, <1>7
  <2>3. LogChain(t, c.log.edits, c.txt)
    BY <1>4, <1>6, <1>7
  <2> QED
    BY <1>6, <2>1, <2>2, <2>3 DEF Recorded
<1>8. CASE s # <<>>
  <2>1. /\ LogChain(t, c.log.edits, c.txt)
        /\ c.log # b1.log /\ c.log.undone = <<>>
        /\ d.start + Len(s) <= Len(c.txt)
        /\ \E e \in Edits : e.kind = "Insert" /\ c.log.edits = Pushed(b1.log.edits, e)
    <3>1. PICK e : e = NewEdit("Insert", d.start, s, x)
      OBVIOUS
    <3>2. e \in Edits /\ e.kind = "Insert" /\ e.cur = d.start /\ e.txt = s /\ e.isChar = x
      BY <1>1, <3>1, NewEditFacts
    <3>3. e \in GoodEdits
      BY <1>8, <3>2 DEF GoodEdits
    <3>4. c.txt = Ins(b1.txt, e.cur, e.txt) /\ c.log = LogRecord(b1.log, e)
      BY <1>6, <1>8, <3>1, <3>2
    <3>5. /\ b1 \in Buffers /\ Recording(b1.log) /\ e.cur \in 0..Len(b1.txt)
          /\ LogChain(t, b1.log.edits, b1.txt)
      BY <1>4, <3>2
    <3>6. /\ LogChain(t, c.log.edits, c.txt)
          /\ c.log # b1.log /\ c.log.undone = <<>>
          /\ e.cur + Len(e.txt) <= Len(c.txt)
          /\ c.log.edits = Pushed(b1.log.edits, e)
      BY ONLY <1>2, <3>2, <3>3, <3>4, <3>5, InsertedStory, OneByte, ZenonT(30)
    <3> QED
      BY <3>2, <3>6
  <2>2. c.log # b.log
    <3>1. CASE b1 = b
      BY <2>1, <3>1
    <3>2. CASE b1 # b
      <4>1. PICK e \in Edits : e.kind = "Insert" /\ c.log.edits = Pushed(b1.log.edits, e)
        BY <2>1
      <4>2. PICK f \in Edits : f.kind = "Delete" /\ b1.log.edits = Pushed(b.log.edits, f)
        BY <1>4, <3>2
      <4>3. f.kind # e.kind /\ b.log.edits \in Seq(Seq(Edits))
        BY <1>1, <4>1, <4>2, LogFields
      <4>4. Pushed(Pushed(b.log.edits, f), e) # b.log.edits
        BY <4>3, PushedTwice
      <4> QED
        BY <4>1, <4>2, <4>4
    <3> QED
      BY <3>1, <3>2
  <2> QED
    BY <1>6, <2>1, <2>2 DEF Recorded
<1> QED
  BY <1>7, <1>8

----------------------------------------------------------------------------
(* Undo and redo.                                                           *)

(* The dot from which undo removes an inserted string.                      *)
LEMMA DeletedDotFacts ==
  ASSUME NEW e \in Edits, NEW d, d = DotOfDeletedString(e)
  PROVE  /\ d \in DotType
         /\ Len(e.txt) = 1 => IsCur(d) /\ d.start = e.cur /\ d.end = e.cur
         /\ Len(e.txt) > 1 => ~IsCur(d) /\ d.start = e.cur /\ d.end = e.cur + Len(e.txt) - 1
<1>1. e.cur \in Nat /\ Len(e.txt) \in Nat
  BY EditFields
<1>2. PICK j : j = SaturatingSub(e.cur + Len(e.txt), 1)
  OBVIOUS
<1>3. j \in Nat /\ (Len(e.txt) >= 1 => j = e.cur + Len(e.txt) - 1)
  BY <1>1, <1>2 DEF SaturatingSub
<1>4. PICK f : f = FromCursors(e.cur, j)
  OBVIOUS
<1>5. f \in DotType /\ f.tag = "Range" /\ (e.cur <= j => f.start = e.cur /\ f.end = j)
  BY <1>1, <1>3, <1>4, FromCursorsFacts
<1>6. d = CollapseNullRange(f)
  BY <1>2, <1>4 DEF DotOfDeletedString
<1>7. f.start \in Nat
  BY <1>5 DEF DotType
<1>8. Cur(f.start) \in DotType /\ Cur(f.start).tag = "Cur" /\ Cur(f.start).start = f.start
      /\ Cur(f.start).end = f.start
  BY <1>7, CurType
<1>9. d \in DotType
  BY <1>5, <1>6, <1>8 DEF CollapseNullRange
<1>10. ASSUME Len(e.txt) = 1 PROVE IsCur(d) /\ d.start = e.cur /\ d.end = e.cur
  <2>1. j = e.cur
    BY <1>1, <1>3, <1>10
  <2>2. f.start = e.cur /\ f.end = e.cur
    BY <1>1, <1>5, <2>1
  <2> QED
    BY <1>6, <1>8, <2>2 DEF CollapseNullRange, IsCur
<1>11. ASSUME Len(e.txt) > 1
       PROVE  ~IsCur(d) /\ d.start = e.cur /\ d.end = e.cur + Len(e.txt) - 1
  <2>1. j = e.cur + Len(e.txt) - 1 /\ e.cur <= j /\ e.cur # j
    BY <1>1, <1>3, <1>11
  <2>2. f.start = e.cur /\ f.end = j /\ f.start # f.end
    BY <1>5, <2>1
  <2>3. d = f
    BY <1>6, <2>2 DEF CollapseNullRange
  <2> QED
    BY <1>5, <2>1, <2>2, <2>3 DEF IsCur
<1> QED
  BY <1>9, <1>10, <1>11

(* Applying an edit.                                                        *)
LEMMA ApplyEditFollows ==
  ASSUME NEW b \in Buffers, NEW e \in Edits, NEW c, c = ApplyEdit(b, e)
  PROVE  Follows(b, c)
<1>1. /\ e.kind \in {"Insert", "Delete"} /\ e.cur \in Nat /\ e.txt \in Seq(Char)
      /\ e.isChar \in BOOLEAN /\ e.cur + Len(e.txt) \in Nat
  BY EditFields
<1>2. CASE b.panicked
  <2>1. c = b
    BY <1>2 DEF ApplyEdit
  <2> QED
    BY <2>1 DEF Follows
<1>3. CASE ~b.panicked /\ e.kind = "Insert"
  <2>1. PICK i : i = Insert(b, Cur(e.cur), e.txt, e.isChar)
    OBVIOUS
  <2>2. c = [i EXCEPT !.dot = Cur(e.cur + Len(e.txt))]
    BY <1>3, <2>1 DEF ApplyEdit
  <2>3. PICK d, q : d = Cur(e.cur) /\ q = Cur(e.cur + Len(e.txt))
    OBVIOUS
  <2>4. d \in DotType /\ q \in DotType
    BY <1>1, <2>3, CurType
  <2>5. Follows(b, i) /\ i \in Buffers
    BY <1>1, <2>1, <2>3, <2>4, InsertFollows DEF Follows
  <2>6. c = [i EXCEPT !.dot = q]
    BY <2>2, <2>3
  <2>7. c \in Buffers /\ c.txt = i.txt /\ c.log = i.log /\ c.dirty = i.dirty /\ c.isFile = i.isFile
    BY <2>4, <2>5, <2>6, SetDotField
  <2> QED
    BY <2>5, <2>7, FollowsDots
<1>4. CASE ~b.panicked /\ e.kind = "Delete"
  <2>1. PICK d : d = IF e.isChar THEN Cur(e.cur) ELSE DotOfDeletedString(e)
    OBVIOUS
  <2>2. d \in DotType /\ d.start \in Nat
    BY <1>1, <2>1, CurType, DeletedDotFacts DEF DotType
  <2>3. PICK i, q : i = DeleteDot(b, d) /\ q = Cur(d.start)
    OBVIOUS
  <2>4. c = [i EXCEPT !.dot = q]
    BY <1>4, <2>1, <2>3 DEF ApplyEdit
  <2>5. q \in DotType
    BY <2>2, <2>3, CurType
  <2>6. Follows(b, i) /\ i \in Buffers
    BY <2>2, <2>3, DeleteDotFollows DEF Follows
  <2>7. c \in Buffers /\ c.txt = i.txt /\ c.log = i.log /\ c.dirty = i.dirty /\ c.isFile = i.isFile
    BY <2>4, <2>5, <2>6, SetDotField
  <2> QED
    BY <2>6, <2>7, FollowsDots
<1> QED
  BY <1>1, <1>2, <1>3, <1>4

(* It does to the text what the edit says, and the dot is where it was.     *)
LEMMA ApplyEditStory ==
  ASSUME NEW b \in Buffers, ~b.panicked, NEW e \in GoodEdits,
         NEW u \in Seq(Char), Step(b.txt, e, u), NEW c, c = ApplyEdit(b, e)
  PROVE  c.txt = u /\ ~c.panicked /\ WellDot(c.dot, Len(c.txt))
<1>1. /\ e \in Edits /\ e.kind \in {"Insert", "Delete"} /\ e.cur \in Nat /\ e.txt \in Seq(Char)
      /\ e.isChar \in BOOLEAN /\ e.txt # <<>> /\ (e.isChar => Len(e.txt) = 1)
  BY EditFields DEF GoodEdits
<1>2. PICK a, s, n : a = e.cur /\ s = e.txt /\ n = Len(e.txt)
  OBVIOUS
<1>3. a \in Nat /\ s \in Seq(Char) /\ n \in Nat /\ n >= 1 /\ n = Len(s)
  BY <1>1, <1>2
<1>4. b.txt \in Seq(Char)
  BY Fields
<1>5. CASE e.kind = "Insert"
  <2>1. PICK d, q : d = Cur(a) /\ q = Cur(a + n)
    OBVIOUS
  <2>2. /\ d \in DotType /\ IsCur(d) /\ d.start = a
        /\ q \in DotType /\ IsCur(q) /\ q.start = a + n /\ q.end = a + n
    BY <1>3, <2>1, CurType DEF IsCur
  <2>3. PICK i : i = Insert(b, d, s, e.isChar)
    OBVIOUS
  <2>4. c = [i EXCEPT !.dot = q]
    BY <1>2, <1>5, <2>1, <2>3 DEF ApplyEdit
  <2>5. a \in 0..Len(b.txt) /\ u = Ins(b.txt, a, s)
    BY <1>2, <1>5 DEF Step
  <2>6. b = (IF IsCur(d) THEN b ELSE DeleteDot(b, d)) /\ d.start <= Len(b.txt)
    BY <1>3, <1>4, <2>2, <2>5
  <2>7. i \in Buffers
    BY <1>1, <1>3, <2>2, <2>3, InsertFollows DEF Follows
  <2>8. ~i.panicked /\ i.txt = Ins(b.txt, d.start, s)
    BY <1>1, <1>2, <1>3, <2>2, <2>3, <2>6, InsertFollows
  <2>9. c.txt = i.txt /\ c.dot = q /\ c.panicked = i.panicked
    BY <2>2, <2>4, <2>7, SetDotField
  <2>10. Len(u) = Len(b.txt) + n
    BY <1>3, <1>4, <2>5, InsShape
  <2>11. a + n <= Len(u) /\ a + n \in Nat
    BY <1>3, <1>4, <2>5, <2>10
  <2> QED
    BY <2>2, <2>5, <2>8, <2>9, <2>11 DEF WellDot
<1>6. CASE e.kind = "Delete"
  <2>1. a \in 0..Len(u) /\ b.txt = Ins(u, a, s)
    BY <1>2, <1>6 DEF Step
  <2>2. Cut(b.txt, a, a + n) = u /\ Len(b.txt) = Len(u) + n
    BY <1>3, <2>1, CutIns, InsShape
  <2>3. PICK d : d = IF e.isChar THEN Cur(a) ELSE DotOfDeletedString(e)
    OBVIOUS
  <2>4. /\ d \in DotType /\ d.start = a
        /\ IsCur(d) => n = 1
        /\ ~IsCur(d) => d.end = a + n - 1
    <3>1. CASE e.isChar
      BY <1>1, <1>2, <1>3, <2>3, <3>1, CurType DEF IsCur
    <3>2. CASE ~e.isChar
      <4>1. d = DotOfDeletedString(e)
        BY <2>3, <3>2
      <4>2. /\ d \in DotType
            /\ n = 1 => IsCur(d) /\ d.start = a /\ d.end = a
            /\ n > 1 => ~IsCur(d) /\ d.start = a /\ d.end = a + n - 1
        BY <1>1, <1>2, <4>1, DeletedDotFacts
      <4>3. n = 1 \/ n > 1
        BY <1>3
      <4> QED
        BY <1>3, <4>2, <4>3
    <3> QED
      BY <3>1, <3>2
  <2>5. PICK i, q : i = DeleteDot(b, d) /\ q = Cur(a)
    OBVIOUS
  <2>6. c = [i EXCEPT !.dot = q]
    BY <1>2, <1>6, <2>3, <2>4, <2>5 DEF ApplyEdit
  <2>7. i \in Buffers
    BY <2>4, <2>5, DeleteDotFollows DEF Follows
  <2>8. q \in DotType /\ IsCur(q) /\ q.start = a /\ q.end = a
    BY <1>3, <2>5, CurType DEF IsCur
  <2>9. i.txt = u /\ ~i.panicked
    <3>1. CASE IsCur(d)
      <4>1. i = DeleteCur(b, a)
        BY <2>4, <2>5, <3>1 DEF DeleteDot
      <4>2. a < Len(b.txt)
        BY <1>3, <2>1, <2>2
      <4>3. i.panicked = b.panicked /\ i.txt = Cut(b.txt, a, a + 1)
        BY <1>3, <4>1, <4>2, DeleteCurFacts
      <4> QED
        BY <2>2, <2>4, <3>1, <4>3
    <3>2. CASE ~IsCur(d)
      <4>1. i = DeleteRange(b, d)
        BY <2>5, <3>2 DEF DeleteDot
      <4>2. PICK to : to = a + n
        OBVIOUS
      <4>3. /\ to \in 0..Len(b.txt) /\ d.start <= to
            /\ to = (IF d.end + 1 <= Len(b.txt) THEN d.end + 1 ELSE Len(b.txt))
        BY <1>3, <2>1, <2>2, <2>4, <3>2, <4>2
      <4>4. i.panicked = b.panicked /\ i.txt = Cut(b.txt, d.start, to)
        BY ONLY <2>4, <4>1, <4>3, DeleteRangeFacts, b \in Buffers, ZenonT(30)
      <4> QED
        BY <2>2, <2>4, <4>2, <4>4
    <3> QED
      BY <3>1, <3>2
  <2>10. c.txt = i.txt /\ c.dot = q /\ c.panicked = i.panicked
    BY <2>6, <2>7, <2>8, SetDotField
  <2> QED
    BY <2>1, <2>8, <2>9, <2>10 DEF WellDot
<1> QED
  BY <1>1, <1>5, <1>6

(* Applying the edits of a transaction one after the other.                 *)
LEMMA ApplyAllSteps ==
  ASSUME NEW b \in Buffers, NEW T \in Seq(Edits), NEW n, n = Len(T),
         NEW p, p = [b EXCEPT !.log.paused = TRUE], NEW c, c = ApplyAll(b, T)
  PROVE  \E h : /\ h[0] = p
                /\ \A k \in 1..n : h[k] = ApplyEdit(h[k - 1], T[k])
                /\ c = [h[n] EXCEPT !.log.paused = FALSE]
<1> DEFINE D(f) == [i \in 0..n |-> IF i = 0 THEN p ELSE ApplyEdit(f[i - 1], T[i])]
           F == [i \in 1..n |-> [x \in Buffers |-> ApplyEdit(x, T[i])]]
<1>1. n \in Nat /\ p \in Buffers
  <2>1. PICK x \in BOOLEAN : x = TRUE
    OBVIOUS
  <2>2. p = [b EXCEPT !.log.paused = x]
    BY <2>1
  <2>3. p \in Buffers
    BY <2>2, SetPaused
  <2> QED
    BY <2>3
<1>2. \A i \in 1..n : T[i] \in Edits
  OBVIOUS
<1>3. \A i \in 1..n : \A x \in Buffers : ApplyEdit(x, T[i]) \in Buffers
  BY <1>2, ApplyEditFollows DEF Follows
<1>4. F \in [1..n -> [Buffers -> Buffers]]
  BY <1>3
<1>5. PICK g \in [0..n -> Buffers] : g[0] = p /\ \A k \in 1..n : g[k] = F[k][g[k - 1]]
  <2> HIDE DEF F
  <2>1. PICK V : V = Buffers
    OBVIOUS
  <2>2. PICK i \in Nat, v \in V : i = n /\ v = p
    BY <1>1, <2>1
  <2>3. PICK G \in [1..i -> [V -> V]] : G = F
    BY <1>4, <2>1, <2>2
  <2>4. \E f \in [0..i -> V] : f[0] = v /\ \A k \in 1..i : f[k] = G[k][f[k - 1]]
    BY ONLY RecursionExists, v \in V, i \in Nat, G \in [1..i -> [V -> V]], SMTT(30)
  <2>5. PICK f \in [0..i -> V] : f[0] = v /\ \A k \in 1..i : f[k] = G[k][f[k - 1]]
    BY <2>4
  <2>6. f \in [0..n -> Buffers]
    BY ONLY <2>1, <2>2, f \in [0..i -> V]
  <2>7. \A k \in 1..n : f[k] = F[k][f[k - 1]]
    BY ONLY <2>2, <2>3, <2>5
  <2> QED
    BY <2>2, <2>5, <2>6, <2>7
<1>6. ASSUME NEW k \in 1..n PROVE g[k] = ApplyEdit(g[k - 1], T[k])
  <2>1. k - 1 \in 0..n /\ g[k - 1] \in Buffers
    BY <1>1
  <2>2. F[k][g[k - 1]] = ApplyEdit(g[k - 1], T[k])
    BY <2>1
  <2> QED
    BY <1>5, <2>2
<1>7. g = D(g)
  BY <1>1, <1>5, <1>6
<1> DEFINE h == CHOOSE f : f = D(f)
<1>8. h = D(h)
  BY <1>7
<1>9. c = [h[n] EXCEPT !.log.paused = FALSE]
  BY DEF ApplyAll
<1> HIDE DEF h
<1>10. h[0] = p
  BY <1>1, <1>8
<1>11. ASSUME NEW k \in 1..n PROVE h[k] = ApplyEdit(h[k - 1], T[k])
  <2>1. k \in 0..n /\ k # 0
    BY <1>1
  <2>2. D(h)[k] = ApplyEdit(h[k - 1], T[k])
    BY <2>1
  <2> QED
    BY <1>8, <2>2
<1> QED
  BY <1>9, <1>10, <1>11

(* the buffer has not panicked *)
Calm(b) == ~b.panicked

(* A transaction is applied without being recorded, and its edits do what   *)
(* they say.                                                                *)
LEMMA ApplyAllFacts ==
  ASSUME NEW b \in Buffers, NEW T \in Seq(Edits), NEW c, c = ApplyAll(b, T)
  PROVE  /\ c \in Buffers /\ c.isFile = b.isFile /\ Recording(c.log)
         /\ c.log.edits = b.log.edits /\ c.log.undone = b.log.undone
         /\ \A u : Calm(b) /\ T # <<>> /\ Chain(b.txt, T, u)
                   => c.txt = u /\ Calm(c) /\ WellDot(c.dot, Len(c.txt))
<1>1. PICK n, p : n = Len(T) /\ p = [b EXCEPT !.log.paused = TRUE]
  OBVIOUS
<1>2. /\ n \in Nat /\ p \in Buffers /\ p.txt = b.txt /\ p.log.paused = TRUE
      /\ p.log.edits = b.log.edits /\ p.log.undone = b.log.undone
      /\ p.isFile = b.isFile /\ p.panicked = b.panicked
  <2>1. PICK x \in BOOLEAN : x = TRUE
    OBVIOUS
  <2>2. p = [b EXCEPT !.log.paused = x]
    BY <1>1, <2>1
  <2>3. n \in Nat
    BY <1>1
  <2> QED
    BY <2>1, <2>2, <2>3, SetPaused
<1>3. PICK h : /\ h[0] = p
               /\ \A k \in 1..n : h[k] = ApplyEdit(h[k - 1], T[k])
               /\ c = [h[n] EXCEPT !.log.paused = FALSE]
  BY <1>1, ApplyAllSteps, SMTT(30)
<1>4. \A k \in 1..n : T[k] \in Edits
  BY <1>1
<1> DEFINE S == {k \in 0..n : Follows(p, h[k])}
<1>5. 0 \in S
  <2>1. Follows(p, p)
    BY <1>2 DEF Follows
  <2> QED
    BY <1>2, <1>3, <2>1
<1>6. ASSUME NEW k \in 0..n-1, k \in S PROVE k + 1 \in S
  <2>1. k + 1 \in 1..n /\ k + 1 \in 0..n /\ (k + 1) - 1 = k
    BY <1>2
  <2>2. h[k + 1] = ApplyEdit(h[k], T[k + 1]) /\ T[k + 1] \in Edits
    BY <1>3, <1>4, <2>1
  <2>3. Follows(p, h[k]) /\ h[k] \in Buffers
    BY <1>6 DEF Follows
  <2>4. Follows(h[k], h[k + 1])
    BY <2>2, <2>3, ApplyEditFollows
  <2>5. Follows(p, h[k + 1])
    BY <2>3, <2>4, FollowsTwice
  <2> QED
    BY <2>1, <2>5
<1>7. 0..n \subseteq S
  <2> HIDE DEF S
  <2> QED
    BY <1>2, <1>5, <1>6, BoundedInduction
<1>8. PICK q : q = h[n]
  OBVIOUS
<1>9. q \in Buffers /\ q.isFile = b.isFile /\ q.log = p.log
  BY <1>2, <1>7, <1>8 DEF Follows
<1>10. c = [q EXCEPT !.log.paused = FALSE]
  BY <1>3, <1>8
<1>11. /\ c \in Buffers /\ c.txt = q.txt /\ c.dot = q.dot /\ c.log.edits = q.log.edits
       /\ c.log.undone = q.log.undone /\ c.log.paused = FALSE
       /\ c.isFile = q.isFile /\ c.panicked = q.panicked
  <2>1. PICK x \in BOOLEAN : x = FALSE
    OBVIOUS
  <2>2. c = [q EXCEPT !.log.paused = x]
    BY <1>10, <2>1
  <2> QED
    BY <1>9, <2>1, <2>2, SetPaused
<1>12. ASSUME NEW u, ~b.panicked, T # <<>>, Chain(b.txt, T, u)
       PROVE  q.txt = u /\ ~q.panicked /\ WellDot(q.dot, Len(q.txt))
  <2>1. PICK w \in [0..n -> Seq(Char)] :
          /\ w[0] = b.txt /\ w[n] = u
          /\ \A k \in 1..n : T[k] \in GoodEdits /\ Step(w[k - 1], T[k], w[k])
    BY <1>1, <1>12 DEF Chain
  <2> DEFINE U == {k \in 0..n : h[k].txt = w[k] /\ Calm(h[k])
                               /\ (k # 0 => WellDot(h[k].dot, Len(h[k].txt)))}
  <2>2. 0 \in U
    <3>1. Calm(h[0])
      BY <1>2, <1>3, <1>12 DEF Calm
    <3>2. h[0].txt = w[0]
      BY <1>2, <1>3, <2>1
    <3> QED
      BY <1>2, <3>1, <3>2
  <2>3. ASSUME NEW k \in 0..n-1, k \in U PROVE k + 1 \in U
    <3>1. k + 1 \in 1..n /\ k + 1 \in 0..n /\ (k + 1) - 1 = k /\ k \in 0..n
      BY <1>2
    <3>2. PICK x, y, e, v : x = h[k] /\ y = h[k + 1] /\ e = T[k + 1] /\ v = w[k + 1]
      OBVIOUS
    <3>3. x \in Buffers
      BY <1>7, <3>1, <3>2 DEF Follows
    <3>4. ~x.panicked /\ x.txt = w[k]
      <4>1. Calm(h[k]) /\ h[k].txt = w[k]
        BY <2>3
      <4> QED
        BY <3>2, <4>1 DEF Calm
    <3>5. e \in GoodEdits /\ v \in Seq(Char) /\ Step(x.txt, e, v)
      BY <2>1, <3>1, <3>2, <3>4
    <3>6. y = ApplyEdit(x, e)
      BY <1>3, <3>1, <3>2
    <3>7. y.txt = v /\ ~y.panicked /\ WellDot(y.dot, Len(y.txt))
      BY ONLY <3>3, <3>4, <3>5, <3>6, ApplyEditStory
    <3>8. Calm(y)
      BY <3>7 DEF Calm
    <3> QED
      BY <3>1, <3>2, <3>7, <3>8
  <2>4. 0..n \subseteq U
    <3> HIDE DEF U
    <3> QED
      BY <1>2, <2>2, <2>3, BoundedInduction
  <2>5. n \in U /\ n # 0
    BY <1>1, <1>2, <1>12, <2>4
  <2> QED
    <3>1. h[n].txt = w[n] /\ Calm(h[n]) /\ WellDot(h[n].dot, Len(h[n].txt))
      BY <2>5
    <3> QED
      BY <1>8, <2>1, <3>1 DEF Calm
<1> QED
  <2>1. Recording(c.log)
    BY <1>11 DEF Recording
  <2>2. ASSUME NEW u, Calm(b), T # <<>>, Chain(b.txt, T, u)
        PROVE  c.txt = u /\ Calm(c) /\ WellDot(c.dot, Len(c.txt))
    BY <1>11, <1>12, <2>2 DEF Calm
  <2> QED
    BY <1>2, <1>9, <1>11, <2>1, <2>2

(* every transaction of L has an edit *)
Full(L) == \A i \in DOMAIN L : L[i] # <<>>

(* What EditLog::undo takes off the log.                                    *)
LEMMA LogUndoFacts ==
  ASSUME NEW l \in Logs, NEW i, i = LastNonEmpty(l.edits),
         NEW m, m = LogUndo(l).log, NEW A, A = LogUndo(l).apply
  PROVE  /\ m \in Logs /\ m.paused = l.paused
         /\ i = 0 => m.edits = <<>> /\ m.undone = l.undone /\ A = <<>>
         /\ i # 0 => /\ m.edits = SubSeq(l.edits, 1, i - 1)
                     /\ m.undone = Append(l.undone, l.edits[i])
                     /\ A = Inverted(l.edits[i])
                     /\ A \in Seq(Edits) /\ A # <<>>
<1>1. l.edits \in Seq(Seq(Edits)) /\ l.undone \in Seq(Seq(Edits))
  BY LogFields
<1>2. i \in 0..Len(l.edits) /\ (i # 0 => l.edits[i] # <<>>)
  BY <1>1, LastNonEmptyFacts
<1>3. CASE i = 0
  <2>1. LogUndo(l) = [log |-> [l EXCEPT !.edits = <<>>], apply |-> <<>>]
    BY <1>3 DEF LogUndo
  <2>2. m = [l EXCEPT !.edits = <<>>] /\ A = <<>>
    BY <2>1
  <2> QED
    <3>1. PICK E : E = <<>>
      OBVIOUS
    <3>2. E \in Seq(Seq(Edits)) /\ m = [l EXCEPT !.edits = E]
      BY <2>2, <3>1
    <3>3. m \in Logs /\ m.paused = l.paused /\ m.edits = E /\ m.undone = l.undone
      BY <3>2 DEF Logs
    <3> QED
      BY <1>3, <2>2, <3>1, <3>3
<1>4. CASE i # 0
  <2>1. PICK T, P, Q : T = l.edits[i] /\ P = SubSeq(l.edits, 1, i - 1) /\ Q = Append(l.undone, T)
    OBVIOUS
  <2>2. T \in Seq(Edits) /\ T # <<>>
    BY <1>1, <1>2, <1>4, <2>1
  <2>3. P \in Seq(Seq(Edits)) /\ Q \in Seq(Seq(Edits))
    <3>1. i - 1 \in 0..Len(l.edits)
      BY <1>1, <1>2, <1>4
    <3>2. \A k \in 1..i - 1 : k \in 1..Len(l.edits) /\ l.edits[k] \in Seq(Edits)
      BY <1>1, <3>1
    <3>3. P \in Seq(Seq(Edits))
      BY <1>1, <2>1, <3>1, <3>2
    <3> QED
      BY <1>1, <2>1, <2>2, <3>3
  <2>4. LogUndo(l) = [log |-> [l EXCEPT !.edits = P, !.undone = Q], apply |-> Inverted(T)]
    BY <1>4, <2>1 DEF LogUndo, Inverted
  <2>5. m = [l EXCEPT !.edits = P, !.undone = Q] /\ A = Inverted(T)
    BY <2>4
  <2>6. m \in Logs /\ m.paused = l.paused /\ m.edits = P /\ m.undone = Q
    BY <2>3, <2>5 DEF Logs
  <2>7. A \in Seq(Edits) /\ A # <<>>
    BY <2>2, <2>5, InvertedType
  <2> QED
    BY <1>4, <2>1, <2>5, <2>6, <2>7
<1> QED
  BY <1>3, <1>4

(* What EditLog::redo takes off the undone transactions.                    *)
LEMMA LogRedoFacts ==
  ASSUME NEW l \in Logs, Full(l.undone),
         NEW m, m = LogRedo(l).log, NEW A, A = LogRedo(l).apply
  PROVE  /\ m \in Logs /\ m.paused = l.paused
         /\ l.undone = <<>> => m = l /\ A = <<>>
         /\ l.undone # <<>> => /\ A = Last(l.undone) /\ A \in Seq(Edits) /\ A # <<>>
                               /\ m.edits = Append(l.edits, A)
                               /\ m.undone = Front(l.undone)
<1>1. l.edits \in Seq(Seq(Edits)) /\ l.undone \in Seq(Seq(Edits))
  BY LogFields
<1>2. CASE l.undone = <<>>
  <2>1. LogRedo(l) = [log |-> l, apply |-> <<>>]
    BY <1>2 DEF LogRedo
  <2> QED
    BY <1>2, <2>1
<1>3. CASE l.undone # <<>>
  <2>1. PICK T, P, Q : T = Last(l.undone) /\ P = Append(l.edits, T) /\ Q = Front(l.undone)
    OBVIOUS
  <2>2. T = l.undone[Len(l.undone)] /\ T \in Seq(Edits) /\ Q \in Seq(Seq(Edits))
    BY <1>1, <1>3, <2>1, FrontFacts
  <2>3. Len(l.undone) \in DOMAIN l.undone
    BY <1>1, <1>3
  <2>4. T # <<>>
    BY <2>2, <2>3 DEF Full
  <2>5. P \in Seq(Seq(Edits))
    BY <1>1, <2>1, <2>2
  <2>6. LogRedo(l) = [log |-> [l EXCEPT !.undone = Q, !.edits = P], apply |-> T]
    BY <1>3, <2>1, <2>4 DEF LogRedo
  <2>7. m = [l EXCEPT !.undone = Q, !.edits = P] /\ A = T
    BY <2>6
  <2>8. m \in Logs /\ m.paused = l.paused /\ m.edits = P /\ m.undone = Q
    BY <2>2, <2>5, <2>7 DEF Logs
  <2> QED
    BY <1>3, <2>1, <2>2, <2>4, <2>7, <2>8
<1> QED
  BY <1>2, <1>3

(* A buffer after undo: nothing is added to what undone transactions lack,  *)
(* and the buffer is marked unless its log is empty.                        *)
LEMMA HandleUndoFacts ==
  ASSUME NEW b \in Buffers, Recording(b.log), Full(b.log.undone), NEW c, c = HandleUndo(b)
  PROVE  /\ c \in Buffers /\ c.isFile = b.isFile
         /\ Recording(c.log) /\ Full(c.log.undone)
         /\ \/ /\ c.txt = b.txt /\ c.dirty = b.dirty /\ c.log.edits = <<>>
               /\ c.log.undone = b.log.undone
            \/ c.dirty = (c.log.edits # <<>>) /\ c.log.undone # <<>>
         /\ \A t, u : /\ Calm(b)
                      /\ LogChain(t, b.log.edits, b.txt)
                      /\ RedoChain(b.txt, b.log.undone, u)
                      => /\ Calm(c)
                         /\ LogChain(t, c.log.edits, c.txt)
                         /\ RedoChain(c.txt, c.log.undone, u)
                         /\ WellDot(b.dot, Len(b.txt)) => WellDot(c.dot, Len(c.txt))
         /\ c.log.edits = <<>> \/ Len(c.log.edits) < Len(b.log.edits)
<1>1. b.log \in Logs /\ b.txt \in Seq(Char)
  BY Fields
<1>2. PICK l, L, U, i, m, A : /\ l = b.log /\ L = b.log.edits /\ U = b.log.undone
                              /\ i = LastNonEmpty(l.edits)
                              /\ m = LogUndo(l).log /\ A = LogUndo(l).apply
  OBVIOUS
<1>3. /\ l \in Logs /\ L \in Seq(Seq(Edits)) /\ U \in Seq(Seq(Edits))
      /\ L = l.edits /\ U = l.undone /\ l.paused = FALSE
  BY <1>1, <1>2, LogFields DEF Recording
<1>4. /\ m \in Logs /\ m.paused = l.paused
      /\ i = 0 => m.edits = <<>> /\ m.undone = U /\ A = <<>>
      /\ i # 0 => /\ m.edits = SubSeq(L, 1, i - 1)
                  /\ m.undone = Append(U, L[i])
                  /\ A = Inverted(L[i])
                  /\ A \in Seq(Edits) /\ A # <<>>
  <2>1. i = LastNonEmpty(l.edits) /\ m = LogUndo(l).log /\ A = LogUndo(l).apply /\ l \in Logs
    BY <1>2, <1>3
  <2>2. /\ m \in Logs /\ m.paused = l.paused
        /\ i = 0 => m.edits = <<>> /\ m.undone = l.undone /\ A = <<>>
        /\ i # 0 => /\ m.edits = SubSeq(l.edits, 1, i - 1)
                    /\ m.undone = Append(l.undone, l.edits[i])
                    /\ A = Inverted(l.edits[i])
                    /\ A \in Seq(Edits) /\ A # <<>>
    BY ONLY <2>1, LogUndoFacts
  <2> QED
    BY <1>3, <2>2
<1>5. /\ i \in 0..Len(L)
      /\ i # 0 => L[i] # <<>>
      /\ \A k \in i + 1..Len(L) : L[k] = <<>>
  BY <1>2, <1>3, LastNonEmptyFacts
<1>6. PICK d : d = [b EXCEPT !.log = m]
  OBVIOUS
<1>7. /\ d \in Buffers /\ d.txt = b.txt /\ d.dot = b.dot /\ d.log = m /\ d.dirty = b.dirty
      /\ d.isFile = b.isFile /\ d.panicked = b.panicked
  BY <1>4, <1>6, SetLog
<1>8. CASE i = 0
  <2>1. c = d
    BY <1>2, <1>4, <1>6, <1>8 DEF HandleUndo
  <2>2. /\ c \in Buffers /\ c.isFile = b.isFile /\ c.txt = b.txt /\ c.dirty = b.dirty
        /\ c.log.edits = <<>> /\ c.log.undone = b.log.undone
    BY <1>2, <1>4, <1>7, <1>8, <2>1
  <2>3. Recording(c.log) /\ Full(c.log.undone)
    BY <1>3, <1>4, <1>7, <2>1, <2>2 DEF Recording
  <2>4. ASSUME NEW t, NEW u, Calm(b), LogChain(t, b.log.edits, b.txt),
               RedoChain(b.txt, b.log.undone, u)
        PROVE  /\ Calm(c)
               /\ LogChain(t, c.log.edits, c.txt)
               /\ RedoChain(c.txt, c.log.undone, u)
               /\ WellDot(b.dot, Len(b.txt)) => WellDot(c.dot, Len(c.txt))
    <3>1. Calm(c)
      BY <1>7, <2>1, <2>4 DEF Calm
    <3>2. LogChain(t, L, b.txt)
      BY <1>2, <2>4
    <3>3. t = b.txt
      BY ONLY <1>3, <1>5, <1>8, <3>2, LogChainPrefix, ZenonT(30)
    <3>4. LogChain(t, c.log.edits, c.txt)
      BY <1>1, <2>2, <3>3, LogChainEmpty
    <3>5. RedoChain(c.txt, c.log.undone, u)
      BY <2>2, <2>4
    <3>6. WellDot(b.dot, Len(b.txt)) => WellDot(c.dot, Len(c.txt))
      BY <1>7, <2>1
    <3> QED
      BY <3>1, <3>4, <3>5, <3>6
  <2> QED
    BY <2>2, <2>3, <2>4
<1>9. CASE i # 0
  <2>1. PICK a, y : a = ApplyAll(d, A) /\ y = (m.edits # <<>>)
    OBVIOUS
  <2>2. c = [a EXCEPT !.dirty = y]
    BY <1>2, <1>4, <1>6, <1>9, <2>1 DEF HandleUndo
  <2>3. y \in BOOLEAN
    BY <2>1
  <2>4. /\ a \in Buffers /\ a.isFile = d.isFile /\ Recording(a.log)
        /\ a.log.edits = m.edits /\ a.log.undone = m.undone
        /\ \A u : Calm(d) /\ A # <<>> /\ Chain(d.txt, A, u)
                   => a.txt = u /\ Calm(a) /\ WellDot(a.dot, Len(a.txt))
    <3>1. d \in Buffers /\ A \in Seq(Edits) /\ d.log = m /\ a = ApplyAll(d, A)
      BY <1>4, <1>7, <1>9, <2>1
    <3>2. /\ a \in Buffers /\ a.isFile = d.isFile /\ Recording(a.log)
          /\ a.log.edits = d.log.edits /\ a.log.undone = d.log.undone
      BY ONLY <3>1, ApplyAllFacts
    <3>3. ASSUME NEW u, Calm(d), A # <<>>, Chain(d.txt, A, u)
          PROVE  a.txt = u /\ Calm(a) /\ WellDot(a.dot, Len(a.txt))
      <4>1. a.txt = u
        BY ONLY <3>1, <3>3, ApplyAllFacts, ZenonT(30)
      <4>2. Calm(a)
        BY ONLY <3>1, <3>3, ApplyAllFacts
      <4>3. WellDot(a.dot, Len(a.txt))
        BY ONLY <3>1, <3>3, ApplyAllFacts
      <4> QED
        BY <4>1, <4>2, <4>3
    <3> QED
      BY <3>1, <3>2, <3>3
  <2>5. /\ c \in Buffers /\ c.txt = a.txt /\ c.dot = a.dot /\ c.log = a.log
        /\ c.dirty = y /\ c.isFile = a.isFile /\ c.panicked = a.panicked
    BY <2>2, <2>3, <2>4, SetDirty
  <2>6. i \in 1..Len(L) /\ L[i] \in Seq(Edits) /\ L[i] # <<>>
    BY <1>3, <1>5, <1>9
  <2>7. c.log.edits = SubSeq(L, 1, i - 1) /\ c.log.undone = Append(U, L[i])
    BY <1>4, <1>9, <2>4, <2>5
  <2>8. Full(c.log.undone) /\ c.log.undone # <<>>
    <3>1. PICK Q, T : Q = Append(U, T) /\ T = L[i]
      OBVIOUS
    <3>2. /\ Q \in Seq(Seq(Edits)) /\ Len(Q) = Len(U) + 1 /\ Q # <<>>
          /\ Q[Len(U) + 1] = T /\ \A k \in 1..Len(U) : Q[k] = U[k]
      <4>1. U \in Seq(Seq(Edits)) /\ T \in Seq(Edits) /\ Q = Append(U, T)
        BY <1>3, <2>6, <3>1
      <4> QED
        BY ONLY <4>1, AppendFacts
    <3>3. \A k \in 1..Len(U) : U[k] # <<>>
      BY <1>2, <1>3 DEF Full
    <3>4. ASSUME NEW k \in 1..Len(Q) PROVE Q[k] # <<>>
      <4>1. k \in 1..Len(U) \/ k = Len(U) + 1
        BY <1>3, <3>2
      <4>2. CASE k \in 1..Len(U)
        BY <3>2, <3>3, <4>2
      <4>3. CASE k = Len(U) + 1
        BY <2>6, <3>1, <3>2, <4>3
      <4> QED
        BY <4>1, <4>2, <4>3
    <3>5. DOMAIN Q = 1..Len(Q)
      BY <3>2
    <3> QED
      BY <2>7, <3>1, <3>2, <3>4, <3>5 DEF Full
  <2>9. Len(c.log.edits) < Len(L)
    <3>1. Len(SubSeq(L, 1, i - 1)) = i - 1
      BY <1>3, <2>6
    <3> QED
      BY <2>6, <2>7, <3>1
  <2>10. c.dirty = (c.log.edits # <<>>)
    BY <2>1, <2>4, <2>5
  <2>11. ASSUME NEW t, NEW u, Calm(b), LogChain(t, b.log.edits, b.txt),
                RedoChain(b.txt, b.log.undone, u)
         PROVE  /\ Calm(c)
                /\ LogChain(t, c.log.edits, c.txt)
                /\ RedoChain(c.txt, c.log.undone, u)
                /\ WellDot(c.dot, Len(c.txt))
    <3>1. PICK w : w = b.txt
      OBVIOUS
    <3>2. LogChain(t, L, w) /\ RedoChain(w, U, u)
      BY <1>2, <2>11, <3>1
    <3>3. PICK v \in Seq(Char) : LogChain(t, SubSeq(L, 1, i - 1), v) /\ Chain(v, L[i], w)
      BY ONLY <1>3, <1>5, <1>9, <3>2, LogChainPrefix
    <3>4. Chain(w, A, v)
      BY <1>4, <1>9, <2>6, <3>3, ChainInverted
    <3>5. Calm(d) /\ Chain(d.txt, A, v)
      BY <1>7, <2>11, <3>1, <3>4 DEF Calm
    <3>6. a.txt = v /\ Calm(a) /\ WellDot(a.dot, Len(a.txt))
      BY <1>4, <1>9, <2>4, <3>5
    <3>7. Calm(c) /\ c.txt = v /\ WellDot(c.dot, Len(c.txt))
      BY <2>5, <3>6 DEF Calm
    <3>8. LogChain(t, c.log.edits, c.txt)
      BY <2>7, <3>3, <3>7
    <3>9. RedoChain(v, Append(U, L[i]), u)
      BY <1>3, <2>6, <3>2, <3>3, RedoChainAppend
    <3> QED
      BY <2>7, <3>7, <3>8, <3>9
  <2> QED
    BY <1>2, <1>7, <2>4, <2>5, <2>8, <2>9, <2>10, <2>11
<1> QED
  BY <1>8, <1>9

(* A buffer after redo.                                                     *)
LEMMA HandleRedoFacts ==
  ASSUME NEW b \in Buffers, Recording(b.log), Full(b.log.undone), NEW c, c = HandleRedo(b)
  PROVE  /\ c \in Buffers /\ c.isFile = b.isFile
         /\ Recording(c.log) /\ Full(c.log.undone)
         /\ b.log.undone = <<>> => c = b
         /\ b.log.undone # <<>> => c.dirty = TRUE
                                   /\ Len(c.log.undone) = Len(b.log.undone) - 1
         /\ \A t, u : /\ Calm(b)
                      /\ LogChain(t, b.log.edits, b.txt)
                      /\ RedoChain(b.txt, b.log.undone, u)
                      => /\ Calm(c)
                         /\ LogChain(t, c.log.edits, c.txt)
                         /\ RedoChain(c.txt, c.log.undone, u)
                         /\ WellDot(b.dot, Len(b.txt)) => WellDot(c.dot, Len(c.txt))
<1>1. b.log \in Logs /\ b.txt \in Seq(Char)
  BY Fields
<1>2. PICK l, L, U, m, A : /\ l = b.log /\ L = b.log.edits /\ U = b.log.undone
                           /\ m = LogRedo(l).log /\ A = LogRedo(l).apply
  OBVIOUS
<1>3. /\ l \in Logs /\ L \in Seq(Seq(Edits)) /\ U \in Seq(Seq(Edits))
      /\ L = l.edits /\ U = l.undone /\ l.paused = FALSE /\ Full(l.undone)
  BY <1>1, <1>2, LogFields DEF Recording
<1>4. /\ m \in Logs /\ m.paused = l.paused
      /\ U = <<>> => m = l /\ A = <<>>
      /\ U # <<>> => /\ A = Last(U) /\ A \in Seq(Edits) /\ A # <<>>
                     /\ m.edits = Append(L, A)
                     /\ m.undone = Front(U)
  <2>1. m = LogRedo(l).log /\ A = LogRedo(l).apply /\ l \in Logs /\ Full(l.undone)
    BY <1>2, <1>3
  <2>2. /\ m \in Logs /\ m.paused = l.paused
        /\ l.undone = <<>> => m = l /\ A = <<>>
        /\ l.undone # <<>> => /\ A = Last(l.undone) /\ A \in Seq(Edits) /\ A # <<>>
                              /\ m.edits = Append(l.edits, A)
                              /\ m.undone = Front(l.undone)
    BY ONLY <2>1, LogRedoFacts
  <2> QED
    BY <1>3, <2>2
<1>6. PICK d : d = [b EXCEPT !.log = m]
  OBVIOUS
<1>7. /\ d \in Buffers /\ d.txt = b.txt /\ d.dot = b.dot /\ d.log = m /\ d.dirty = b.dirty
      /\ d.isFile = b.isFile /\ d.panicked = b.panicked
  BY <1>4, <1>6, SetLog
<1>8. CASE U = <<>>
  <2>1. c = d
    BY <1>2, <1>4, <1>6, <1>8 DEF HandleRedo
  <2>2. d = b
    BY <1>2, <1>4, <1>6, <1>8 DEF Buffers
  <2> QED
    BY <1>2, <1>8, <2>1, <2>2
<1>9. CASE U # <<>>
  <2>1. PICK a, y : a = ApplyAll(d, A) /\ y = TRUE
    OBVIOUS
  <2>2. c = [a EXCEPT !.dirty = y]
    BY <1>2, <1>4, <1>6, <1>9, <2>1 DEF HandleRedo
  <2>3. y \in BOOLEAN
    BY <2>1
  <2>4. /\ a \in Buffers /\ a.isFile = d.isFile /\ Recording(a.log)
        /\ a.log.edits = m.edits /\ a.log.undone = m.undone
        /\ \A u : Calm(d) /\ A # <<>> /\ Chain(d.txt, A, u)
                   => a.txt = u /\ Calm(a) /\ WellDot(a.dot, Len(a.txt))
    <3>1. d \in Buffers /\ A \in Seq(Edits) /\ d.log = m /\ a = ApplyAll(d, A)
      BY <1>4, <1>7, <1>9, <2>1
    <3>2. /\ a \in Buffers /\ a.isFile = d.isFile /\ Recording(a.log)
          /\ a.log.edits = d.log.edits /\ a.log.undone = d.log.undone
      BY ONLY <3>1, ApplyAllFacts
    <3>3. ASSUME NEW u, Calm(d), A # <<>>, Chain(d.txt, A, u)
          PROVE  a.txt = u /\ Calm(a) /\ WellDot(a.dot, Len(a.txt))
      <4>1. a.txt = u
        BY ONLY <3>1, <3>3, ApplyAllFacts, ZenonT(30)
      <4>2. Calm(a)
        BY ONLY <3>1, <3>3, ApplyAllFacts
      <4>3. WellDot(a.dot, Len(a.txt))
        BY ONLY <3>1, <3>3, ApplyAllFacts
      <4> QED
        BY <4>1, <4>2, <4>3
    <3> QED
      BY <3>1, <3>2, <3>3
  <2>5. /\ c \in Buffers /\ c.txt = a.txt /\ c.dot = a.dot /\ c.log = a.log
        /\ c.dirty = y /\ c.isFile = a.isFile /\ c.panicked = a.panicked
    BY <2>2, <2>3, <2>4, SetDirty
  <2>6. PICK F : F = Front(U)
    OBVIOUS
  <2>7. /\ F \in Seq(Seq(Edits)) /\ Len(F) = Len(U) - 1
        /\ \A k \in 1..Len(U) - 1 : F[k] = U[k]
    BY <1>3, <1>9, <2>6, FrontFacts
  <2>8. c.log.edits = Append(L, A) /\ c.log.undone = F
    BY <1>4, <1>9, <2>4, <2>5, <2>6
  <2>9. Full(c.log.undone)
    <3>1. \A k \in 1..Len(U) : U[k] # <<>>
      BY <1>3 DEF Full
    <3>2. DOMAIN F = 1..Len(U) - 1 /\ Len(U) \in Nat
      BY <1>3, <2>7
    <3>3. \A k \in 1..Len(U) - 1 : F[k] # <<>>
      BY <2>7, <3>1, <3>2
    <3> QED
      BY <2>8, <3>2, <3>3 DEF Full
  <2>11. ASSUME NEW t, NEW u, Calm(b), LogChain(t, b.log.edits, b.txt),
                RedoChain(b.txt, b.log.undone, u)
         PROVE  /\ Calm(c)
                /\ LogChain(t, c.log.edits, c.txt)
                /\ RedoChain(c.txt, c.log.undone, u)
                /\ WellDot(c.dot, Len(c.txt))
    <3>1. PICK w : w = b.txt
      OBVIOUS
    <3>2. LogChain(t, L, w) /\ RedoChain(w, U, u)
      BY <1>2, <2>11, <3>1
    <3>3. PICK v \in Seq(Char) : Chain(w, Last(U), v) /\ RedoChain(v, Front(U), u)
      BY ONLY <1>3, <1>9, <3>2, RedoChainLast
    <3>4. Chain(w, A, v) /\ RedoChain(v, F, u)
      BY <1>4, <1>9, <2>6, <3>3
    <3>5. Calm(d) /\ Chain(d.txt, A, v)
      BY <1>7, <2>11, <3>1, <3>4 DEF Calm
    <3>6. a.txt = v /\ Calm(a) /\ WellDot(a.dot, Len(a.txt))
      BY <1>4, <1>9, <2>4, <3>5
    <3>7. Calm(c) /\ c.txt = v /\ WellDot(c.dot, Len(c.txt))
      BY <2>5, <3>6 DEF Calm
    <3>8. LogChain(t, Append(L, A), v)
      BY <1>3, <1>4, <1>9, <3>2, <3>4, LogChainAppend
    <3> QED
      BY <2>8, <3>4, <3>7, <3>8
  <2> QED
    BY <1>2, <1>7, <1>9, <2>1, <2>4, <2>5, <2>7, <2>8, <2>9, <2>11
<1> QED
  BY <1>8, <1>9

(* The buffer is in order, its log leads from t to its text, and what was   *)
(* undone leads from its text to u.                                         *)
Exact(b, t, u) ==
    /\ b \in Buffers
    /\ Calm(b)
    /\ Recording(b.log)
    /\ Full(b.log.undone)
    /\ LogChain(t, b.log.edits, b.txt)
    /\ RedoChain(b.txt, b.log.undone, u)

(* The texts and stacks of such a buffer have their types.                  *)
LEMMA ExactTypes ==
  ASSUME NEW b, NEW t, NEW u, Exact(b, t, u)
  PROVE  /\ Len(b.log.edits) \in Nat /\ Len(b.log.undone) \in Nat
         /\ t \in Seq(Char) /\ u \in Seq(Char)
<1>1. b \in Buffers
  BY DEF Exact
<1>2. b.log.edits \in Seq(Seq(Edits)) /\ b.log.undone \in Seq(Seq(Edits))
  BY <1>1, Fields, LogFields
<1>3. t \in Seq(Char) /\ u \in Seq(Char)
  BY <1>2, LogChainTexts DEF Exact
<1> QED
  BY <1>2, <1>3

(* Undo and redo keep it.                                                   *)
LEMMA HandleUndoExact ==
  ASSUME NEW b, NEW t, NEW u, Exact(b, t, u), NEW c, c = HandleUndo(b)
  PROVE  /\ Exact(c, t, u)
         /\ WellDot(b.dot, Len(b.txt)) => WellDot(c.dot, Len(c.txt))
         /\ Len(c.log.edits) = 0 \/ Len(c.log.edits) < Len(b.log.edits)
<1>1. /\ b \in Buffers /\ Calm(b) /\ Recording(b.log) /\ Full(b.log.undone)
      /\ LogChain(t, b.log.edits, b.txt) /\ RedoChain(b.txt, b.log.undone, u)
  BY DEF Exact
<1>2. c \in Buffers /\ Recording(c.log) /\ Full(c.log.undone)
  BY <1>1, HandleUndoFacts
<1>3. /\ Calm(c) /\ LogChain(t, c.log.edits, c.txt) /\ RedoChain(c.txt, c.log.undone, u)
      /\ WellDot(b.dot, Len(b.txt)) => WellDot(c.dot, Len(c.txt))
  BY <1>1, HandleUndoFacts
<1>4. c.log.edits = <<>> \/ Len(c.log.edits) < Len(b.log.edits)
  BY <1>1, HandleUndoFacts
<1>5. Len(<<>>) = 0
  OBVIOUS
<1> QED
  BY <1>2, <1>3, <1>4, <1>5 DEF Exact

(* Redo keeps it, and takes one transaction off those undone.               *)
LEMMA HandleRedoExact ==
  ASSUME NEW b, NEW t, NEW u, Exact(b, t, u), NEW c, c = HandleRedo(b)
  PROVE  /\ Exact(c, t, u)
         /\ WellDot(b.dot, Len(b.txt)) => WellDot(c.dot, Len(c.txt))
         /\ Len(c.log.undone) = 0 \/ Len(c.log.undone) < Len(b.log.undone)
<1>1. /\ b \in Buffers /\ Calm(b) /\ Recording(b.log) /\ Full(b.log.undone)
      /\ LogChain(t, b.log.edits, b.txt) /\ RedoChain(b.txt, b.log.undone, u)
  BY DEF Exact
<1>2. c \in Buffers /\ Recording(c.log) /\ Full(c.log.undone)
  BY <1>1, HandleRedoFacts
<1>3. /\ Calm(c) /\ LogChain(t, c.log.edits, c.txt) /\ RedoChain(c.txt, c.log.undone, u)
      /\ WellDot(b.dot, Len(b.txt)) => WellDot(c.dot, Len(c.txt))
  BY <1>1, HandleRedoFacts
<1>4. CASE b.log.undone = <<>>
  <2>1. c = b
    BY <1>1, <1>4, HandleRedoFacts
  <2>2. Len(b.log.undone) = 0
    BY <1>4
  <2> QED
    BY <1>2, <1>3, <2>1, <2>2 DEF Exact
<1>5. CASE b.log.undone # <<>>
  <2>1. Len(c.log.undone) = Len(b.log.undone) - 1
    BY <1>1, <1>5, HandleRedoFacts
  <2>2. Len(b.log.undone) \in Nat
    BY ExactTypes
  <2>3. Len(c.log.undone) < Len(b.log.undone)
    BY <2>1, <2>2
  <2> QED
    BY <1>2, <1>3, <2>3 DEF Exact
<1> QED
  BY <1>4, <1>5

(* Undoing every transaction, one after the other.                          *)
LEMMA UnwoundSteps ==
  ASSUME NEW b, NEW t, NEW u, Exact(b, t, u), NEW n, n = Len(b.log.edits)
  PROVE  \E h : /\ h[0] = b
                /\ \A k \in 1..n : h[k] = HandleUndo(h[k - 1])
                /\ Unwound(b) = h[n]
<1> DEFINE W == {x \in Buffers : Exact(x, t, u)}
           D(f) == [i \in 0..n |-> IF i = 0 THEN b ELSE HandleUndo(f[i - 1])]
           F == [i \in 1..n |-> [x \in W |-> HandleUndo(x)]]
<1>1. n \in Nat /\ b \in W
  <2>1. b \in W
    BY DEF Exact
  <2>2. b.log.edits \in Seq(Seq(Edits))
    BY <2>1, Fields, LogFields
  <2> QED
    BY <2>1, <2>2
<1>2. ASSUME NEW x \in W PROVE HandleUndo(x) \in W
  <2>1. Exact(x, t, u)
    OBVIOUS
  <2>2. Exact(HandleUndo(x), t, u)
    BY <2>1, HandleUndoExact
  <2> QED
    BY <2>2 DEF Exact
<1>4. F \in [1..n -> [W -> W]]
  BY <1>2
<1>5. PICK g \in [0..n -> W] : g[0] = b /\ \A k \in 1..n : g[k] = F[k][g[k - 1]]
  <2> HIDE DEF F, W
  <2>1. PICK V : V = W
    OBVIOUS
  <2>2. PICK i \in Nat, v \in V : i = n /\ v = b
    BY <1>1, <2>1
  <2>3. PICK G \in [1..i -> [V -> V]] : G = F
    BY <1>4, <2>1, <2>2
  <2>4. \E f \in [0..i -> V] : f[0] = v /\ \A k \in 1..i : f[k] = G[k][f[k - 1]]
    BY ONLY RecursionExists, v \in V, i \in Nat, G \in [1..i -> [V -> V]]
  <2>5. PICK f \in [0..i -> V] : f[0] = v /\ \A k \in 1..i : f[k] = G[k][f[k - 1]]
    BY <2>4
  <2>6. f \in [0..n -> W]
    BY ONLY <2>1, <2>2, f \in [0..i -> V]
  <2>7. \A k \in 1..n : f[k] = F[k][f[k - 1]]
    BY ONLY <2>2, <2>3, <2>5
  <2> QED
    BY <2>2, <2>5, <2>6, <2>7
<1>6. ASSUME NEW k \in 1..n PROVE g[k] = HandleUndo(g[k - 1])
  <2> HIDE DEF W
  <2>1. k - 1 \in 0..n /\ g[k - 1] \in W
    BY <1>1
  <2>2. F[k][g[k - 1]] = HandleUndo(g[k - 1])
    BY <2>1
  <2> QED
    BY <1>5, <2>2
<1>7. g = D(g)
  <2> HIDE DEF W
  <2> QED
    BY <1>1, <1>5, <1>6
<1> DEFINE h == CHOOSE f : f = D(f)
<1>8. h = D(h)
  BY <1>7
<1>9. Unwound(b) = h[n]
  BY DEF Unwound
<1> HIDE DEF h, W
<1>10. h[0] = b
  BY <1>1, <1>8
<1>11. ASSUME NEW k \in 1..n PROVE h[k] = HandleUndo(h[k - 1])
  <2>1. k \in 0..n /\ k # 0
    BY <1>1
  <2>2. D(h)[k] = HandleUndo(h[k - 1])
    BY <2>1
  <2> QED
    BY <1>8, <2>2
<1> QED
  BY <1>9, <1>10, <1>11

(* It gives back the text the log started from.                             *)
LEMMA UnwoundText ==
  ASSUME NEW b, NEW t, NEW u, Exact(b, t, u)
  PROVE  Unwound(b).txt = t
<1>1. PICK n : n = Len(b.log.edits)
  OBVIOUS
<1>2. n \in Nat
  BY <1>1, ExactTypes
<1>3. PICK h : /\ h[0] = b
               /\ \A k \in 1..n : h[k] = HandleUndo(h[k - 1])
               /\ Unwound(b) = h[n]
  BY <1>1, UnwoundSteps
<1> DEFINE S == {k \in 0..n : Exact(h[k], t, u) /\ Len(h[k].log.edits) <= n - k}
<1>4. 0 \in S
  BY <1>1, <1>2, <1>3
<1>5. ASSUME NEW k \in 0..n-1, k \in S PROVE k + 1 \in S
  <2>1. k + 1 \in 1..n /\ k + 1 \in 0..n /\ (k + 1) - 1 = k
    BY <1>2
  <2>2. PICK x, y : x = h[k] /\ y = h[k + 1]
    OBVIOUS
  <2>3. y = HandleUndo(x)
    BY <1>3, <2>1, <2>2
  <2>4. Exact(x, t, u) /\ Len(x.log.edits) <= n - k
    BY <1>5, <2>2
  <2>5. Exact(y, t, u)
    BY <2>3, <2>4, HandleUndoExact
  <2>6. Len(x.log.edits) \in Nat /\ Len(y.log.edits) \in Nat
    BY <2>4, <2>5, ExactTypes
  <2>7. Len(y.log.edits) = 0 \/ Len(y.log.edits) < Len(x.log.edits)
    BY <2>3, <2>4, HandleUndoExact
  <2>8. Len(y.log.edits) <= n - (k + 1)
    BY <1>2, <2>4, <2>6, <2>7
  <2> QED
    BY <2>1, <2>2, <2>5, <2>8
<1>6. 0..n \subseteq S
  <2> HIDE DEF S
  <2> QED
    BY <1>2, <1>4, <1>5, BoundedInduction
<1>7. PICK q : q = h[n]
  OBVIOUS
<1>8. Exact(q, t, u) /\ Len(q.log.edits) <= 0
  BY <1>2, <1>6, <1>7
<1>9. /\ q.log.edits = <<>> /\ q.txt \in Seq(Char)
  <2>1. q.log.edits \in Seq(Seq(Edits)) /\ q.txt \in Seq(Char)
    BY <1>8, Fields, LogFields DEF Exact
  <2>2. Len(q.log.edits) = 0
    BY <1>8, <2>1
  <2> QED
    BY <2>1, <2>2
<1>10. LogChain(t, <<>>, q.txt)
  BY <1>8, <1>9 DEF Exact
<1>11. t \in Seq(Char)
  BY <1>8, ExactTypes
<1> QED
  BY <1>3, <1>7, <1>9, <1>10, <1>11, LogChainEmpty

(* Redoing every undone transaction, one after the other.                   *)
LEMMA RewoundSteps ==
  ASSUME NEW b, NEW t, NEW u, Exact(b, t, u), NEW n, n = Len(b.log.undone)
  PROVE  \E h : /\ h[0] = b
                /\ \A k \in 1..n : h[k] = HandleRedo(h[k - 1])
                /\ Rewound(b) = h[n]
<1> DEFINE W == {x \in Buffers : Exact(x, t, u)}
           D(f) == [i \in 0..n |-> IF i = 0 THEN b ELSE HandleRedo(f[i - 1])]
           F == [i \in 1..n |-> [x \in W |-> HandleRedo(x)]]
<1>1. n \in Nat /\ b \in W
  <2>1. b \in W
    BY DEF Exact
  <2>2. b.log.undone \in Seq(Seq(Edits))
    BY <2>1, Fields, LogFields
  <2> QED
    BY <2>1, <2>2
<1>2. ASSUME NEW x \in W PROVE HandleRedo(x) \in W
  <2>1. Exact(x, t, u)
    OBVIOUS
  <2>2. Exact(HandleRedo(x), t, u)
    BY <2>1, HandleRedoExact
  <2> QED
    BY <2>2 DEF Exact
<1>4. F \in [1..n -> [W -> W]]
  BY <1>2
<1>5. PICK g \in [0..n -> W] : g[0] = b /\ \A k \in 1..n : g[k] = F[k][g[k - 1]]
  <2> HIDE DEF F, W
  <2>1. PICK V : V = W
    OBVIOUS
  <2>2. PICK i \in Nat, v \in V : i = n /\ v = b
    BY <1>1, <2>1
  <2>3. PICK G \in [1..i -> [V -> V]] : G = F
    BY <1>4, <2>1, <2>2
  <2>4. \E f \in [0..i -> V] : f[0] = v /\ \A k \in 1..i : f[k] = G[k][f[k - 1]]
    BY ONLY RecursionExists, v \in V, i \in Nat, G \in [1..i -> [V -> V]]
  <2>5. PICK f \in [0..i -> V] : f[0] = v /\ \A k \in 1..i : f[k] = G[k][f[k - 1]]
    BY <2>4
  <2>6. f \in [0..n -> W]
    BY ONLY <2>1, <2>2, f \in [0..i -> V]
  <2>7. \A k \in 1..n : f[k] = F[k][f[k - 1]]
    BY ONLY <2>2, <2>3, <2>5
  <2> QED
    BY <2>2, <2>5, <2>6, <2>7
<1>6. ASSUME NEW k \in 1..n PROVE g[k] = HandleRedo(g[k - 1])
  <2> HIDE DEF W
  <2>1. k - 1 \in 0..n /\ g[k - 1] \in W
    BY <1>1
  <2>2. F[k][g[k - 1]] = HandleRedo(g[k - 1])
    BY <2>1
  <2> QED
    BY <1>5, <2>2
<1>7. g = D(g)
  <2> HIDE DEF W
  <2> QED
    BY <1>1, <1>5, <1>6
<1> DEFINE h == CHOOSE f : f = D(f)
<1>8. h = D(h)
  BY <1>7
<1>9. Rewound(b) = h[n]
  BY DEF Rewound
<1> HIDE DEF h, W
<1>10. h[0] = b
  BY <1>1, <1>8
<1>11. ASSUME NEW k \in 1..n PROVE h[k] = HandleRedo(h[k - 1])
  <2>1. k \in 0..n /\ k # 0
    BY <1>1
  <2>2. D(h)[k] = HandleRedo(h[k - 1])
    BY <2>1
  <2> QED
    BY <1>8, <2>2
<1> QED
  BY <1>9, <1>10, <1>11

(* It gives back the text before the first of them was undone.              *)
LEMMA RewoundText ==
  ASSUME NEW b, NEW t, NEW u, Exact(b, t, u)
  PROVE  Rewound(b).txt = u
<1>1. PICK n : n = Len(b.log.undone)
  OBVIOUS
<1>2. n \in Nat
  BY <1>1, ExactTypes
<1>3. PICK h : /\ h[0] = b
               /\ \A k \in 1..n : h[k] = HandleRedo(h[k - 1])
               /\ Rewound(b) = h[n]
  BY <1>1, RewoundSteps
<1> DEFINE S == {k \in 0..n : Exact(h[k], t, u) /\ Len(h[k].log.undone) <= n - k}
<1>4. 0 \in S
  BY <1>1, <1>2, <1>3
<1>5. ASSUME NEW k \in 0..n-1, k \in S PROVE k + 1 \in S
  <2>1. k + 1 \in 1..n /\ k + 1 \in 0..n /\ (k + 1) - 1 = k
    BY <1>2
  <2>2. PICK x, y : x = h[k] /\ y = h[k + 1]
    OBVIOUS
  <2>3. y = HandleRedo(x)
    BY <1>3, <2>1, <2>2
  <2>4. Exact(x, t, u) /\ Len(x.log.undone) <= n - k
    BY <1>5, <2>2
  <2>5. Exact(y, t, u)
    BY <2>3, <2>4, HandleRedoExact
  <2>6. Len(x.log.undone) \in Nat /\ Len(y.log.undone) \in Nat
    BY <2>4, <2>5, ExactTypes
  <2>7. Len(y.log.undone) = 0 \/ Len(y.log.undone) < Len(x.log.undone)
    BY <2>3, <2>4, HandleRedoExact
  <2>8. Len(y.log.undone) <= n - (k + 1)
    BY <1>2, <2>4, <2>6, <2>7
  <2> QED
    BY <2>1, <2>2, <2>5, <2>8
<1>6. 0..n \subseteq S
  <2> HIDE DEF S
  <2> QED
    BY <1>2, <1>4, <1>5, BoundedInduction
<1>7. PICK q : q = h[n]
  OBVIOUS
<1>8. Exact(q, t, u) /\ Len(q.log.undone) <= 0
  BY <1>2, <1>6, <1>7
<1>9. /\ q.log.undone = <<>> /\ q.txt \in Seq(Char)
  <2>1. q.log.undone \in Seq(Seq(Edits)) /\ q.txt \in Seq(Char)
    BY <1>8, Fields, LogFields DEF Exact
  <2>2. Len(q.log.undone) = 0
    BY <1>8, <2>1
  <2> QED
    BY <2>1, <2>2
<1>10. RedoChain(q.txt, <<>>, u)
  BY <1>8, <1>9 DEF Exact
<1>11. t \in Seq(Char)
  BY <1>8, ExactTypes
<1> QED
  BY <1>3, <1>7, <1>9, <1>10, <1>11, LogChainEmpty

----------------------------------------------------------------------------
(* The handlers.                                                            *)

(* clamp_dot moves the selections and nothing else.                         *)
LEMMA ClampDotsFacts ==
  ASSUME NEW b \in Buffers, NEW c, c = ClampDots(b)
  PROVE  /\ c \in Buffers /\ c.txt = b.txt /\ c.log = b.log /\ c.dirty = b.dirty
         /\ c.isFile = b.isFile /\ c.panicked = b.panicked
         /\ c.dot = ClampIdx(b.dot, Len(b.txt)) /\ c.xdot = ClampIdx(b.xdot, Len(b.txt))
<1>1. PICK d, x : d = ClampIdx(b.dot, Len(b.txt)) /\ x = ClampIdx(b.xdot, Len(b.txt))
  OBVIOUS
<1>2. b.txt \in Seq(Char) /\ b.dot \in DotType /\ b.xdot \in DotType
  BY Fields
<1>3. d \in DotType /\ x \in DotType
  <2>1. Len(b.txt) \in Nat
    BY <1>2
  <2> QED
    BY <1>1, <1>2, <2>1, ClampFacts
<1>4. c = [b EXCEPT !.dot = d, !.xdot = x]
  BY <1>1 DEF ClampDots
<1>5. /\ c \in Buffers /\ c.txt = b.txt /\ c.log = b.log /\ c.dirty = b.dirty
      /\ c.isFile = b.isFile /\ c.panicked = b.panicked /\ c.dot = d /\ c.xdot = x
  BY <1>3, <1>4 DEF Buffers
<1> QED
  BY <1>1, <1>5

(* Moving the selections does not matter to the log.                        *)
LEMMA RecordedDots ==
  ASSUME NEW b, NEW i, NEW c, NEW t, Recorded(b, i, t),
         c.txt = i.txt, c.log = i.log, c.panicked = i.panicked
  PROVE  Recorded(b, c, t)
BY DEF Recorded

(* A cursor that is in the text stays where it is.                          *)
LEMMA CurWell ==
  ASSUME NEW a \in Nat, NEW n \in Nat, a <= n, NEW d, d = Cur(a)
  PROVE  d \in DotType /\ WellDot(d, n) /\ ClampIdx(d, n) = d
<1>1. d \in DotType /\ d.tag = "Cur" /\ d.start = a /\ d.end = a
  BY CurType
<1>2. ClampIdx(d, n) = d
  BY <1>1, ClampFacts
<1>3. WellDot(d, n)
  BY <1>1 DEF WellDot, IsCur
<1> QED
  BY <1>1, <1>2, <1>3

(* Action::InsertChar and Action::InsertString                              *)
LEMMA HandleInsertFacts ==
  ASSUME NEW b \in Buffers, NEW s \in Seq(Char), NEW x \in BOOLEAN,
         NEW c, c = HandleInsert(b, s, x), NEW i, i = Insert(b, b.dot, s, x)
  PROVE  /\ Follows(b, c)
         /\ i \in Buffers /\ c.txt = i.txt /\ c.log = i.log /\ c.panicked = i.panicked
         /\ c.dot = ClampIdx(Cur(b.dot.start + Len(s)), Len(i.txt))
<1>1. b.dot \in DotType /\ b.dot.start \in Nat /\ Len(s) \in Nat
  BY Fields DEF DotType
<1>2. PICK a, d : a = b.dot.start + Len(s) /\ d = Cur(a)
  OBVIOUS
<1>3. a \in Nat /\ d \in DotType
  BY <1>1, <1>2, CurType
<1>4. Follows(b, i) /\ i \in Buffers
  BY <1>1, InsertFollows DEF Follows
<1>5. PICK j : j = [i EXCEPT !.dot = d]
  OBVIOUS
<1>6. /\ j \in Buffers /\ j.txt = i.txt /\ j.dot = d /\ j.log = i.log /\ j.dirty = i.dirty
      /\ j.isFile = i.isFile /\ j.panicked = i.panicked
  BY <1>3, <1>4, <1>5, SetDotField
<1>7. c = ClampDots(j)
  BY <1>2, <1>5 DEF HandleInsert
<1>8. /\ c \in Buffers /\ c.txt = j.txt /\ c.log = j.log /\ c.dirty = j.dirty
      /\ c.isFile = j.isFile /\ c.panicked = j.panicked
      /\ c.dot = ClampIdx(j.dot, Len(j.txt))
  BY <1>6, <1>7, ClampDotsFacts
<1>9. Follows(b, c)
  BY <1>4, <1>6, <1>8, FollowsDots
<1> QED
  BY <1>2, <1>4, <1>6, <1>8, <1>9

(* What it inserts is in the log, and the cursor is in the text.            *)
LEMMA HandleInsertStory ==
  ASSUME OneByte, NEW b \in Buffers, Calm(b), Recording(b.log), WellDot(b.dot, Len(b.txt)),
         NEW s \in Seq(Char), NEW x \in BOOLEAN, x => Len(s) = 1,
         NEW t, LogChain(t, b.log.edits, b.txt),
         NEW c, c = HandleInsert(b, s, x)
  PROVE  Recorded(b, c, t) /\ WellDot(c.dot, Len(c.txt))
<1>1. PICK i, d : i = Insert(b, b.dot, s, x) /\ d = b.dot
  OBVIOUS
<1>2. d \in DotType /\ d.start \in Nat /\ Len(s) \in Nat
  BY <1>1, Fields DEF DotType
<1>3. /\ i \in Buffers /\ c.txt = i.txt /\ c.log = i.log /\ c.panicked = i.panicked
      /\ c.dot = ClampIdx(Cur(b.dot.start + Len(s)), Len(i.txt))
  BY <1>1, HandleInsertFacts
<1>4. i = Insert(b, d, s, x) /\ ~b.panicked /\ WellDot(d, Len(b.txt))
  BY <1>1 DEF Calm
<1>5. Recorded(b, i, t) /\ d.start + Len(s) <= Len(i.txt)
  BY ONLY <1>2, <1>4, InsertStory, OneByte, b \in Buffers, Recording(b.log),
          s \in Seq(Char), x \in BOOLEAN, x => Len(s) = 1, LogChain(t, b.log.edits, b.txt)
<1>6. Recorded(b, c, t)
  BY <1>3, <1>5, RecordedDots
<1>7. PICK a, n : a = d.start + Len(s) /\ n = Len(i.txt)
  OBVIOUS
<1>8. a \in Nat /\ n \in Nat /\ a <= n
  BY <1>2, <1>3, <1>5, <1>7, Fields
<1>9. c.dot = ClampIdx(Cur(a), n)
  BY <1>1, <1>3, <1>7
<1>10. WellDot(c.dot, n)
  BY <1>8, <1>9, CurWell
<1> QED
  BY <1>3, <1>6, <1>7, <1>10

(* Action::Delete                                                           *)
LEMMA HandleDeleteFacts ==
  ASSUME NEW b \in Buffers, NEW c, c = HandleDelete(b), NEW i, i = DeleteDot(b, b.dot)
  PROVE  /\ Follows(b, c)
         /\ i \in Buffers /\ c.txt = i.txt /\ c.log = i.log /\ c.panicked = i.panicked
         /\ c.dot = ClampIdx(Cur(b.dot.start), Len(i.txt))
<1>1. b.dot \in DotType /\ b.dot.start \in Nat
  BY Fields DEF DotType
<1>2. PICK d : d = Cur(b.dot.start)
  OBVIOUS
<1>3. d \in DotType
  BY <1>1, <1>2, CurType
<1>4. Follows(b, i) /\ i \in Buffers
  BY <1>1, DeleteDotFollows DEF Follows
<1>5. PICK j : j = [i EXCEPT !.dot = d]
  OBVIOUS
<1>6. /\ j \in Buffers /\ j.txt = i.txt /\ j.dot = d /\ j.log = i.log /\ j.dirty = i.dirty
      /\ j.isFile = i.isFile /\ j.panicked = i.panicked
  BY <1>3, <1>4, <1>5, SetDotField
<1>7. c = ClampDots(j)
  BY <1>2, <1>5 DEF HandleDelete
<1>8. /\ c \in Buffers /\ c.txt = j.txt /\ c.log = j.log /\ c.dirty = j.dirty
      /\ c.isFile = j.isFile /\ c.panicked = j.panicked
      /\ c.dot = ClampIdx(j.dot, Len(j.txt))
  BY <1>6, <1>7, ClampDotsFacts
<1>9. Follows(b, c)
  BY <1>4, <1>6, <1>8, FollowsDots
<1> QED
  BY <1>2, <1>4, <1>6, <1>8, <1>9

(* What it removes is in the log, and the cursor is in the text.            *)
LEMMA HandleDeleteStory ==
  ASSUME OneByte, NEW b \in Buffers, Calm(b), Recording(b.log), WellDot(b.dot, Len(b.txt)),
         NEW t, LogChain(t, b.log.edits, b.txt),
         NEW c, c = HandleDelete(b)
  PROVE  Recorded(b, c, t) /\ WellDot(c.dot, Len(c.txt))
<1>1. PICK i, d : i = DeleteDot(b, b.dot) /\ d = b.dot
  OBVIOUS
<1>2. d \in DotType /\ d.start \in Nat
  BY <1>1, Fields DEF DotType
<1>3. /\ i \in Buffers /\ c.txt = i.txt /\ c.log = i.log /\ c.panicked = i.panicked
      /\ c.dot = ClampIdx(Cur(b.dot.start), Len(i.txt))
  BY <1>1, HandleDeleteFacts
<1>4. i = DeleteDot(b, d) /\ ~b.panicked /\ WellDot(d, Len(b.txt))
  BY <1>1 DEF Calm
<1>5. Recorded(b, i, t) /\ d.start <= Len(i.txt)
  BY ONLY <1>2, <1>4, DeleteStory, OneByte, b \in Buffers, Recording(b.log),
          LogChain(t, b.log.edits, b.txt)
<1>6. Recorded(b, c, t)
  BY <1>3, <1>5, RecordedDots
<1>7. PICK a, n : a = d.start /\ n = Len(i.txt)
  OBVIOUS
<1>8. a \in Nat /\ n \in Nat /\ a <= n
  BY <1>2, <1>3, <1>5, <1>7, Fields
<1>9. c.dot = ClampIdx(Cur(a), n)
  BY <1>1, <1>3, <1>7
<1>10. WellDot(c.dot, n)
  BY <1>8, <1>9, CurWell
<1> QED
  BY <1>3, <1>6, <1>7, <1>10

(* handle_raw_input                                                         *)
LEMMA HandleRawInputFacts ==
  ASSUME NEW b \in Buffers, NEW s \in Seq(Char), NEW x \in BOOLEAN,
         NEW c, c = HandleRawInput(b, s, x), NEW i, i = Insert(b, b.dot, s, x)
  PROVE  /\ Follows(b, c)
         /\ i \in Buffers /\ c.txt = i.txt /\ c.log = i.log /\ c.panicked = i.panicked
         /\ c.dot = Cur(b.dot.start + Len(s))
<1>1. b.dot \in DotType /\ b.dot.start \in Nat /\ Len(s) \in Nat
  BY Fields DEF DotType
<1>2. PICK a, d : a = b.dot.start + Len(s) /\ d = Cur(a)
  OBVIOUS
<1>3. a \in Nat /\ d \in DotType
  BY <1>1, <1>2, CurType
<1>4. Follows(b, i) /\ i \in Buffers
  BY <1>1, InsertFollows DEF Follows
<1>5. c = [i EXCEPT !.dot = d]
  BY <1>2 DEF HandleRawInput
<1>6. /\ c \in Buffers /\ c.txt = i.txt /\ c.dot = d /\ c.log = i.log /\ c.dirty = i.dirty
      /\ c.isFile = i.isFile /\ c.panicked = i.panicked
  BY <1>3, <1>4, <1>5, SetDotField
<1>7. Follows(b, c)
  BY <1>4, <1>6, FollowsDots
<1> QED
  BY <1>2, <1>4, <1>6, <1>7

(* The cursor is in the text although nothing clamps it.                    *)
LEMMA HandleRawInputStory ==
  ASSUME OneByte, NEW b \in Buffers, Calm(b), Recording(b.log), WellDot(b.dot, Len(b.txt)),
         NEW s \in Seq(Char), NEW x \in BOOLEAN, x => Len(s) = 1,
         NEW t, LogChain(t, b.log.edits, b.txt),
         NEW c, c = HandleRawInput(b, s, x)
  PROVE  Recorded(b, c, t) /\ WellDot(c.dot, Len(c.txt))
<1>1. PICK i, d : i = Insert(b, b.dot, s, x) /\ d = b.dot
  OBVIOUS
<1>2. d \in DotType /\ d.start \in Nat /\ Len(s) \in Nat
  BY <1>1, Fields DEF DotType
<1>3. /\ i \in Buffers /\ c.txt = i.txt /\ c.log = i.log /\ c.panicked = i.panicked
      /\ c.dot = Cur(b.dot.start + Len(s))
  BY <1>1, HandleRawInputFacts
<1>4. i = Insert(b, d, s, x) /\ ~b.panicked /\ WellDot(d, Len(b.txt))
  BY <1>1 DEF Calm
<1>5. Recorded(b, i, t) /\ d.start + Len(s) <= Len(i.txt)
  BY ONLY <1>2, <1>4, InsertStory, OneByte, b \in Buffers, Recording(b.log),
          s \in Seq(Char), x \in BOOLEAN, x => Len(s) = 1, LogChain(t, b.log.edits, b.txt)
<1>6. Recorded(b, c, t)
  BY <1>3, <1>5, RecordedDots
<1>7. PICK a, n : a = d.start + Len(s) /\ n = Len(i.txt)
  OBVIOUS
<1>8. a \in Nat /\ n \in Nat /\ a <= n
  BY <1>2, <1>3, <1>5, <1>7, Fields
<1>9. WellDot(c.dot, n)
  BY <1>1, <1>3, <1>7, <1>8, CurWell
<1> QED
  BY <1>3, <1>6, <1>7, <1>9

(* save_to_disk_at: the final newline                                       *)
LEMMA FinalNewlineFacts ==
  ASSUME NEW b \in Buffers, NEW c, c = WithFinalNewline(b)
  PROVE  /\ Follows(b, c) /\ c.dot = b.dot
         /\ \/ c = b
            \/ \E x \in BOOLEAN, s \in Seq(Char), d \in DotType :
                 /\ x = TRUE /\ Len(s) = 1 /\ d = Cur(Len(b.txt))
                 /\ c = Insert(b, d, s, x)
<1>1. Len(b.txt) \in Nat
  BY Fields
<1>2. CASE b.txt # <<>> /\ Last(b.txt) = NL
  <2>1. c = b
    BY <1>2 DEF WithFinalNewline
  <2> QED
    BY <2>1 DEF Follows
<1>3. CASE ~(b.txt # <<>> /\ Last(b.txt) = NL)
  <2>1. PICK x \in BOOLEAN : x = TRUE
    OBVIOUS
  <2>2. PICK s, d : s = <<NL>> /\ d = Cur(Len(b.txt))
    OBVIOUS
  <2>3. s \in Seq(Char) /\ Len(s) = 1 /\ d \in DotType
    BY <1>1, <2>2, BufferAssumption, CurType
  <2>4. c = Insert(b, d, s, x)
    BY <1>3, <2>1, <2>2 DEF WithFinalNewline
  <2>5. Follows(b, c) /\ c.dot = b.dot
    BY <2>3, <2>4, InsertFollows
  <2> QED
    BY <2>1, <2>2, <2>3, <2>4, <2>5
<1> QED
  BY <1>2, <1>3

(* The newline is in the log, and the selection stays where it was.         *)
LEMMA FinalNewlineStory ==
  ASSUME OneByte, NEW b \in Buffers, Calm(b), Recording(b.log), WellDot(b.dot, Len(b.txt)),
         NEW t, LogChain(t, b.log.edits, b.txt),
         NEW c, c = WithFinalNewline(b)
  PROVE  Recorded(b, c, t) /\ WellDot(c.dot, Len(c.txt))
<1>1. c.dot = b.dot /\ ~b.panicked /\ c \in Buffers
  BY FinalNewlineFacts DEF Calm, Follows
<1>2. CASE c = b
  BY <1>1, <1>2 DEF Recorded
<1>3. CASE c # b
  <2>1. PICK x \in BOOLEAN, s \in Seq(Char), d \in DotType :
           /\ x = TRUE /\ Len(s) = 1 /\ d = Cur(Len(b.txt))
           /\ c = Insert(b, d, s, x)
    BY <1>3, FinalNewlineFacts, ZenonT(30)
  <2>2. PICK n : n = Len(b.txt)
    OBVIOUS
  <2>3. n \in Nat
    BY <2>2, Fields
  <2>4. d.start = n /\ WellDot(d, n)
    BY <2>1, <2>2, <2>3, CurType, CurWell
  <2>5. x => Len(s) = 1
    BY <2>1
  <2>6. c = Insert(b, d, s, x) /\ WellDot(d, Len(b.txt))
    BY <2>1, <2>2, <2>4
  <2>7. Recorded(b, c, t) /\ d.start + Len(s) <= Len(c.txt)
    BY ONLY <1>1, <2>5, <2>6, InsertStory, OneByte, b \in Buffers, Recording(b.log),
            s \in Seq(Char), x \in BOOLEAN, d \in DotType, LogChain(t, b.log.edits, b.txt)
  <2>8. n <= Len(c.txt)
    <3>1. c.txt \in Seq(Char) /\ Len(s) = 1
      BY <1>1, <2>1, Fields
    <3>2. n + 1 <= Len(c.txt)
      BY <2>4, <2>7, <3>1
    <3> QED
      BY <2>3, <3>1, <3>2
  <2>9. b.dot.end <= Len(c.txt)
    <3>1. b.dot.end \in Nat /\ b.dot.end <= n /\ Len(c.txt) \in Nat
      BY <1>1, <2>2, Fields DEF WellDot, DotType
    <3> QED
      BY <2>3, <2>8, <3>1
  <2>10. WellDot(c.dot, Len(c.txt))
    BY <1>1, <2>9 DEF WellDot
  <2> QED
    BY <2>7, <2>10
<1> QED
  BY <1>2, <1>3

(* Where a client's insertion leaves the user's selection.                  *)
LEMMA DotAfterXInsertType ==
  ASSUME NEW b \in Buffers, NEW s \in Seq(Char)
  PROVE  DotAfterXInsert(b, s) \in DotType
<1>1. b.dot \in DotType /\ b.xdot \in DotType /\ Len(s) \in Nat
  BY Fields
<1>2. PICK x, d, f, n : x = b.xdot /\ d = b.dot /\ f = Cur(b.xdot.start) /\ n = Len(s)
  OBVIOUS
<1>3. x \in DotType /\ d \in DotType /\ x.start \in Nat /\ x.end \in Nat /\ f \in DotType /\ n \in Nat
  BY <1>1, <1>2, CurType DEF DotType
<1>4. PICK r : r = IF IsCur(x) THEN 0 ELSE NChars(x)
  OBVIOUS
<1>5. r \in Int
  BY <1>3, <1>4 DEF NChars
<1>6. WithOffset(f, 0, 1) \in DotType /\ WithOffset(f, n, 0) \in DotType
      /\ WithOffset(d, n, r) \in DotType
  <2>1. PICK z, o : z = 0 /\ o = 1
    OBVIOUS
  <2>2. z \in Nat /\ z \in Int /\ o \in Int
    BY <2>1
  <2>3. WithOffset(f, z, o) \in DotType /\ WithOffset(f, n, z) \in DotType
        /\ WithOffset(d, n, r) \in DotType
    BY <1>3, <1>5, <2>2, OffsetFacts
  <2> QED
    BY <2>1, <2>3
<1>7. \/ DotAfterXInsert(b, s) = WithOffset(f, 0, 1)
      \/ DotAfterXInsert(b, s) = WithOffset(f, n, 0)
      \/ DotAfterXInsert(b, s) = d
      \/ DotAfterXInsert(b, s) = WithOffset(d, n, r)
  BY <1>2, <1>4 DEF DotAfterXInsert, CollapseToFirst
<1> QED
  BY <1>3, <1>6, <1>7

(* insert_xdot                                                              *)
LEMMA HandleInsertXDotFacts ==
  ASSUME NEW b \in Buffers, NEW s \in Seq(Char), NEW c, c = HandleInsertXDot(b, s)
  PROVE  /\ Follows(b, c)
         /\ c.dot = ClampIdx(DotAfterXInsert(b, s), Len(c.txt))
         /\ \E x \in BOOLEAN, b0 \in Buffers :
              /\ b0.txt = b.txt /\ b0.panicked = b.panicked
              /\ c.txt = Insert(b0, b.xdot, s, x).txt
<1>1. PICK x \in BOOLEAN : x = FALSE
  OBVIOUS
<1>2. PICK d, b0 : d = b.xdot /\ b0 = [b EXCEPT !.dot = d]
  OBVIOUS
<1>3. d \in DotType
  BY <1>2, Fields
<1>4. /\ b0 \in Buffers /\ b0.txt = b.txt /\ b0.dot = d /\ b0.log = b.log
      /\ b0.dirty = b.dirty /\ b0.isFile = b.isFile /\ b0.panicked = b.panicked
  BY <1>2, <1>3, SetDotField
<1>5. Follows(b, b0)
  BY <1>4 DEF Follows
<1>6. PICK b1, i : b1 = HandleInsert(b0, s, x) /\ i = Insert(b0, b0.dot, s, x)
  OBVIOUS
<1>7. Follows(b0, b1) /\ b1.txt = i.txt
  BY <1>4, <1>6, HandleInsertFacts
<1>8. b1 \in Buffers
  BY <1>7 DEF Follows
<1>9. PICK p, q : p = b1.dot /\ q = ClampIdx(DotAfterXInsert(b, s), Len(b1.txt))
  OBVIOUS
<1>10. p \in DotType /\ q \in DotType
  <2>1. Len(b1.txt) \in Nat /\ b1.dot \in DotType
    BY <1>8, Fields
  <2> QED
    BY <1>9, <2>1, DotAfterXInsertType, ClampFacts
<1>11. c = [b1 EXCEPT !.xdot = p, !.dot = q]
  BY <1>1, <1>2, <1>6, <1>9 DEF HandleInsertXDot
<1>12. /\ c \in Buffers /\ c.txt = b1.txt /\ c.dot = q /\ c.log = b1.log
       /\ c.dirty = b1.dirty /\ c.isFile = b1.isFile
  BY <1>8, <1>10, <1>11 DEF Buffers
<1>13. Follows(b, c)
  BY <1>5, <1>7, <1>12, FollowsTwice, FollowsDots
<1>14. b0 \in Buffers /\ b0.txt = b.txt /\ b0.panicked = b.panicked
       /\ c.txt = Insert(b0, b.xdot, s, x).txt
  BY <1>2, <1>4, <1>6, <1>7, <1>12
<1>15. c.dot = ClampIdx(DotAfterXInsert(b, s), Len(c.txt))
  BY <1>9, <1>12
<1> QED
  BY <1>13, <1>14, <1>15

(* append and clear                                                         *)
LEMMA HandleAppendFollows ==
  ASSUME NEW b \in Buffers, NEW s \in Seq(Char), NEW c, c = HandleAppend(b, s)
  PROVE  Follows(b, c)
<1>1. PICK x \in BOOLEAN : x = FALSE
  OBVIOUS
<1>2. PICK a, d, e : a = ClampDots(b) /\ d = Cur(Len(b.txt)) /\ e = b.dot
  OBVIOUS
<1>3. d \in DotType /\ e \in DotType
  <2>1. Len(b.txt) \in Nat
    BY Fields
  <2> QED
    BY <1>2, <2>1, CurType, Fields
<1>4. /\ a \in Buffers /\ a.txt = b.txt /\ a.log = b.log /\ a.dirty = b.dirty
      /\ a.isFile = b.isFile
  BY <1>2, ClampDotsFacts
<1>5. PICK b0 : b0 = [a EXCEPT !.dot = d]
  OBVIOUS
<1>6. /\ b0 \in Buffers /\ b0.txt = a.txt /\ b0.log = a.log
      /\ b0.dirty = a.dirty /\ b0.isFile = a.isFile
  BY <1>3, <1>4, <1>5, SetDotField
<1>7. Follows(b, b0)
  BY <1>4, <1>6 DEF Follows
<1>8. PICK b1 : b1 = HandleInsert(b0, s, x)
  OBVIOUS
<1>9. Follows(b0, b1) /\ b1 \in Buffers
  <2>1. Follows(b0, b1)
    BY <1>6, <1>8, HandleInsertFacts
  <2> QED
    BY <2>1 DEF Follows
<1>10. PICK b2 : b2 = [b1 EXCEPT !.dot = e]
  OBVIOUS
<1>11. /\ b2 \in Buffers /\ b2.txt = b1.txt /\ b2.log = b1.log
       /\ b2.dirty = b1.dirty /\ b2.isFile = b1.isFile
  BY <1>3, <1>9, <1>10, SetDotField
<1>12. c = ClampDots(b2)
  BY <1>1, <1>2, <1>5, <1>8, <1>10 DEF HandleAppend
<1>13. /\ c \in Buffers /\ c.txt = b2.txt /\ c.log = b2.log /\ c.dirty = b2.dirty
       /\ c.isFile = b2.isFile
  BY <1>11, <1>12, ClampDotsFacts
<1>14. Follows(b, b1)
  BY <1>7, <1>9, FollowsTwice
<1> QED
  BY <1>11, <1>13, <1>14, FollowsDots

(* clear removes everything that can be selected.                           *)
LEMMA HandleClearFollows ==
  ASSUME NEW b \in Buffers, NEW c, c = HandleClear(b)
  PROVE  Follows(b, c)
<1>1. PICK a, f, d : /\ a = ClampDots(b) /\ f = FromCursors(0, Len(b.txt))
                     /\ d = CollapseNullRange(f)
  OBVIOUS
<1>2. f \in DotType
  <2>1. Len(b.txt) \in Nat
    BY Fields
  <2> QED
    BY <1>1, <2>1, FromCursorsFacts
<1>3. d \in DotType
  <2>1. Cur(f.start) \in DotType
    BY <1>2, CurType DEF DotType
  <2> QED
    BY <1>1, <1>2, <2>1 DEF CollapseNullRange
<1>4. /\ a \in Buffers /\ a.txt = b.txt /\ a.log = b.log /\ a.dirty = b.dirty
      /\ a.isFile = b.isFile
  BY <1>1, ClampDotsFacts
<1>5. PICK b0 : b0 = [a EXCEPT !.dot = d]
  OBVIOUS
<1>6. /\ b0 \in Buffers /\ b0.txt = a.txt /\ b0.log = a.log
      /\ b0.dirty = a.dirty /\ b0.isFile = a.isFile
  BY <1>3, <1>4, <1>5, SetDotField
<1>7. Follows(b, b0)
  BY <1>4, <1>6 DEF Follows
<1>8. c = HandleDelete(b0)
  BY <1>1, <1>5 DEF HandleClear
<1>9. Follows(b0, c)
  BY <1>6, <1>8, HandleDeleteFacts
<1> QED
  BY <1>7, <1>9, FollowsTwice

----------------------------------------------------------------------------
(* The selection of the user while a client writes.                         *)

(* u is t with the characters from a up to e replaced by n others.          *)
Spliced(t, a, e, n, u) ==
    /\ u \in Seq(Char)
    /\ Len(u) = Len(t) - (e - a) + n
    /\ \A k \in 1..a : u[k] = t[k]
    /\ \A k \in e + 1..Len(t) : u[k - (e - a) + n] = t[k]

(* An insertion replaces nothing by a string.                               *)
LEMMA InsSpliced ==
  ASSUME NEW t \in Seq(Char), NEW s \in Seq(Char), NEW a \in 0..Len(t)
  PROVE  Spliced(t, a, a, Len(s), Ins(t, a, s))
<1>1. PICK u, n : u = Ins(t, a, s) /\ n = Len(s)
  OBVIOUS
<1>2. /\ u \in Seq(Char) /\ Len(u) = Len(t) + n /\ n \in Nat /\ Len(t) \in Nat
      /\ \A i \in 1..a : u[i] = t[i]
      /\ \A i \in a + 1..Len(t) : u[n + i] = t[i]
  <2>1. /\ Ins(t, a, s) \in Seq(Char)
        /\ Len(Ins(t, a, s)) = Len(t) + Len(s)
        /\ \A i \in 1..a : Ins(t, a, s)[i] = t[i]
        /\ \A i \in a + 1..Len(t) : Ins(t, a, s)[Len(s) + i] = t[i]
    BY InsShape
  <2>2. Len(s) \in Nat /\ Len(t) \in Nat
    OBVIOUS
  <2> QED
    BY ONLY <1>1, <2>1, <2>2
<1>3. ASSUME NEW k \in a + 1..Len(t) PROVE u[k - (a - a) + n] = t[k]
  <2>1. k - (a - a) + n = n + k
    BY <1>2
  <2> QED
    BY <1>2, <2>1
<1>4. Len(u) = Len(t) - (a - a) + n
  BY <1>2
<1> QED
  BY <1>1, <1>2, <1>3, <1>4 DEF Spliced

(* A removal replaces a string by nothing.                                  *)
LEMMA CutSpliced ==
  ASSUME NEW t \in Seq(Char), NEW e \in 0..Len(t), NEW a \in 0..e
  PROVE  Spliced(t, a, e, 0, Cut(t, a, e)) /\ a \in 0..Len(Cut(t, a, e))
<1>1. PICK u, m : u = Cut(t, a, e) /\ m = Len(t)
  OBVIOUS
<1>2. /\ u \in Seq(Char) /\ Len(u) = m - (e - a) /\ m \in Nat
      /\ \A i \in 1..a : u[i] = t[i]
      /\ \A i \in a + 1..m - (e - a) : u[i] = t[i + (e - a)]
  <2>1. /\ Cut(t, a, e) \in Seq(Char)
        /\ Len(Cut(t, a, e)) = Len(t) - (e - a)
        /\ \A i \in 1..a : Cut(t, a, e)[i] = t[i]
        /\ \A i \in a + 1..Len(t) - (e - a) : Cut(t, a, e)[i] = t[i + (e - a)]
    BY CutShape
  <2>2. Len(t) \in Nat
    OBVIOUS
  <2> QED
    BY ONLY <1>1, <2>1, <2>2
<1>3. ASSUME NEW k \in e + 1..m PROVE u[k - (e - a) + 0] = t[k]
  <2>1. PICK i : i = k - (e - a)
    OBVIOUS
  <2>2. i \in a + 1..m - (e - a) /\ i + (e - a) = k /\ k - (e - a) + 0 = i
    BY <1>1, <1>2, <2>1
  <2> QED
    BY <1>2, <2>2
<1>4. Len(u) = m - (e - a) + 0 /\ a \in 0..Len(u)
  BY <1>1, <1>2
<1> QED
  BY <1>1, <1>2, <1>3, <1>4 DEF Spliced

(* An insertion where text was removed replaces it.                         *)
LEMMA SplicedInto ==
  ASSUME NEW t \in Seq(Char), NEW e \in 0..Len(t), NEW a \in 0..e, NEW v, NEW s \in Seq(Char),
         Spliced(t, a, e, 0, v), NEW u, u = Ins(v, a, s)
  PROVE  Spliced(t, a, e, Len(s), u)
<1>1. PICK n, m : n = Len(s) /\ m = Len(t)
  OBVIOUS
<1>2. n \in Nat /\ m \in Nat
  BY <1>1
<1>3. /\ v \in Seq(Char) /\ Len(v) = m - (e - a)
      /\ \A k \in 1..a : v[k] = t[k]
      /\ \A k \in e + 1..m : v[k - (e - a) + 0] = t[k]
  BY <1>1, <1>2 DEF Spliced
<1>4. a \in 0..Len(v)
  BY <1>1, <1>2, <1>3
<1>5. /\ u \in Seq(Char) /\ Len(u) = Len(v) + n
      /\ \A i \in 1..a : u[i] = v[i]
      /\ \A i \in a + 1..Len(v) : u[n + i] = v[i]
  BY <1>1, <1>3, <1>4, InsShape
<1>6. ASSUME NEW k \in e + 1..m PROVE u[k - (e - a) + n] = t[k]
  <2>1. PICK i : i = k - (e - a)
    OBVIOUS
  <2>2. i \in a + 1..Len(v) /\ k - (e - a) + n = n + i /\ k - (e - a) + 0 = i
    BY <1>1, <1>2, <1>3, <2>1
  <2> QED
    BY <1>3, <1>5, <2>2
<1>7. Len(u) = m - (e - a) + n
  BY <1>1, <1>2, <1>3, <1>5
<1> QED
  BY <1>1, <1>3, <1>5, <1>6, <1>7 DEF Spliced

(* the text of t from p to q *)
Sel(t, p, q) == [i \in { i \in 0..q - p : p + i < Len(t) } |-> t[p + i + 1]]

(* A selection before the replaced text stays as it is.                     *)
LEMMA SelBefore ==
  ASSUME NEW t \in Seq(Char), NEW e \in 0..Len(t), NEW a \in 0..e, NEW n \in Nat, NEW u,
         Spliced(t, a, e, n, u), NEW p \in Nat, NEW q \in Nat, q < a
  PROVE  Sel(u, p, q) = Sel(t, p, q) /\ q <= Len(u)
<1>1. /\ u \in Seq(Char) /\ Len(u) = Len(t) - (e - a) + n
      /\ \A k \in 1..a : u[k] = t[k]
  BY DEF Spliced
<1>2. Len(u) >= a /\ Len(t) >= a /\ Len(u) \in Nat /\ Len(t) \in Nat
  BY <1>1
<1>3. ASSUME NEW i \in 0..q - p
      PROVE  p + i < Len(u) /\ p + i < Len(t) /\ u[p + i + 1] = t[p + i + 1]
  <2>1. p + i < a /\ p + i + 1 \in 1..a
    OBVIOUS
  <2> QED
    BY <1>1, <1>2, <2>1
<1>4. { i \in 0..q - p : p + i < Len(u) } = 0..q - p
  BY <1>3
<1>5. { i \in 0..q - p : p + i < Len(t) } = 0..q - p
  BY <1>3
<1>6. [i \in 0..q - p |-> u[p + i + 1]] = [i \in 0..q - p |-> t[p + i + 1]]
  BY <1>3
<1>7. Sel(u, p, q) = Sel(t, p, q)
  BY <1>4, <1>5, <1>6 DEF Sel
<1> QED
  BY <1>2, <1>7

(* One behind it is shifted.                                                *)
LEMMA SelBehind ==
  ASSUME NEW t \in Seq(Char), NEW e \in 0..Len(t), NEW a \in 0..e, NEW n \in Nat, NEW u,
         Spliced(t, a, e, n, u), NEW p \in e..Len(t), NEW q \in p..Len(t),
         NEW x, x = p + n - (e - a), NEW y, y = q + n - (e - a)
  PROVE  Sel(u, x, y) = Sel(t, p, q) /\ x \in Nat /\ y \in Nat /\ y <= Len(u) /\ x <= y
<1>1. /\ u \in Seq(Char) /\ Len(u) = Len(t) - (e - a) + n
      /\ \A k \in e + 1..Len(t) : u[k - (e - a) + n] = t[k]
  BY DEF Spliced
<1>2. Len(u) \in Nat /\ Len(t) \in Nat
  BY <1>1
<1>3. x \in Nat /\ y \in Nat /\ y <= Len(u) /\ x <= y /\ y - x = q - p
  BY <1>1, <1>2
<1>4. ASSUME NEW i \in 0..q - p
      PROVE  (x + i < Len(u)) <=> (p + i < Len(t))
  BY <1>1, <1>2, <1>3
<1>5. ASSUME NEW i \in 0..q - p, p + i < Len(t)
      PROVE  u[x + i + 1] = t[p + i + 1]
  <2>1. p + i + 1 \in e + 1..Len(t) /\ (p + i + 1) - (e - a) + n = x + i + 1
    BY <1>2, <1>5
  <2> QED
    BY <1>1, <2>1
<1>6. PICK J, K : /\ J = { i \in 0..y - x : x + i < Len(u) }
                  /\ K = { i \in 0..q - p : p + i < Len(t) }
  OBVIOUS
<1>7. J = K
  BY <1>3, <1>4, <1>6
<1>8. [i \in K |-> u[x + i + 1]] = [i \in K |-> t[p + i + 1]]
  BY <1>5, <1>6
<1>9. Sel(u, x, y) = [i \in J |-> u[x + i + 1]] /\ Sel(t, p, q) = [i \in K |-> t[p + i + 1]]
  BY <1>6 DEF Sel
<1> QED
  BY <1>3, <1>7, <1>8, <1>9

(* Inserting at a dot inside of the text replaces what the dot selects.     *)
LEMMA InsertSpliced ==
  ASSUME NEW b \in Buffers, ~b.panicked, NEW d \in DotType, InBounds(d, Len(b.txt)),
         NEW s \in Seq(Char), NEW x \in BOOLEAN, NEW c, c = Insert(b, d, s, x),
         NEW e, e = IF IsCur(d) THEN d.start
                    ELSE IF d.end + 1 <= Len(b.txt) THEN d.end + 1 ELSE Len(b.txt)
  PROVE  /\ Spliced(b.txt, d.start, e, Len(s), c.txt)
         /\ e \in 0..Len(b.txt) /\ d.start \in 0..e
<1>1. PICK t, a, n : t = b.txt /\ a = d.start /\ n = Len(b.txt)
  OBVIOUS
<1>2. /\ t \in Seq(Char) /\ n = Len(t) /\ n \in Nat /\ a \in Nat /\ d.end \in Nat
      /\ a <= d.end /\ d.end <= n
  BY <1>1, Fields DEF DotType, InBounds
<1>3. e \in 0..n /\ a \in 0..e
  BY <1>1, <1>2
<1>4. PICK b1 : b1 = IF IsCur(d) THEN b ELSE DeleteDot(b, d)
  OBVIOUS
<1>5. ~b1.panicked /\ Spliced(t, a, e, 0, b1.txt) /\ d.start <= Len(b1.txt)
  <2>1. CASE IsCur(d)
    <3>1. b1 = b /\ e = a
      BY <1>1, <1>4, <2>1
    <3>2. \A k \in a + 1..n : k - (a - a) + 0 = k
      BY <1>2
    <3>3. Len(t) = Len(t) - (a - a) + 0
      BY <1>2
    <3>4. Spliced(t, a, a, 0, t)
      BY <1>2, <3>2, <3>3 DEF Spliced
    <3> QED
      BY <1>1, <1>2, <3>1, <3>4
  <2>2. CASE ~IsCur(d)
    <3>1. b1 = DeleteRange(b, d)
      BY <1>4, <2>2 DEF DeleteDot
    <3>2. /\ e = (IF d.end + 1 <= Len(b.txt) THEN d.end + 1 ELSE Len(b.txt))
          /\ e \in 0..Len(b.txt) /\ d.start <= e
      BY <1>1, <1>2, <1>3, <2>2
    <3>3. b1.panicked = b.panicked /\ b1.txt = Cut(b.txt, d.start, e)
      BY ONLY <3>1, <3>2, DeleteRangeFacts, b \in Buffers, d \in DotType, ZenonT(30)
    <3>4. b1.txt = Cut(t, a, e)
      BY <1>1, <3>3
    <3>5. e \in 0..Len(t)
      BY <1>2, <1>3
    <3>6. Spliced(t, a, e, 0, Cut(t, a, e)) /\ a \in 0..Len(Cut(t, a, e))
      BY ONLY <1>2, <1>3, <3>5, CutSpliced
    <3>7. Cut(t, a, e) \in Seq(Char)
      BY <3>6 DEF Spliced
    <3>8. a <= Len(Cut(t, a, e))
      BY <3>6, <3>7
    <3> QED
      BY <1>1, <3>3, <3>4, <3>6, <3>8
  <2> QED
    BY <2>1, <2>2
<1>6. /\ s = <<>> => c.txt = b1.txt
      /\ s # <<>> => c.txt = Ins(b1.txt, d.start, s)
  BY <1>4, <1>5, InsertFollows
<1>7. Spliced(t, a, e, Len(s), c.txt)
  <2>1. CASE s = <<>>
    <3>1. Len(s) = 0
      BY <2>1
    <3> QED
      BY <1>5, <1>6, <2>1, <3>1
  <2>2. CASE s # <<>>
    <3>1. PICK v, u : v = b1.txt /\ u = c.txt
      OBVIOUS
    <3>2. u = Ins(v, a, s) /\ Spliced(t, a, e, 0, v) /\ t \in Seq(Char)
          /\ e \in 0..Len(t) /\ a \in 0..e
      BY <1>1, <1>2, <1>3, <1>5, <1>6, <2>2, <3>1
    <3>3. Spliced(t, a, e, Len(s), u)
      BY ONLY <3>2, SplicedInto, s \in Seq(Char)
    <3> QED
      BY <3>1, <3>3
  <2> QED
    BY <2>1, <2>2
<1> QED
  BY <1>1, <1>2, <1>3, <1>7

(* Saturating subtraction where it does not saturate.                       *)
LEMMA OffsetExact ==
  ASSUME NEW d \in DotType, NEW n \in Nat, NEW r \in Nat, d.start + n >= r, d.end + n >= r,
         NEW f, f = WithOffset(d, n, r)
  PROVE  f \in DotType /\ f.start = d.start + n - r /\ f.end = d.end + n - r
<1>1. d.start \in Nat /\ d.end \in Nat
  BY DEF DotType
<1>2. /\ f \in DotType
      /\ f.start = SaturatingSub(d.start + n, r)
      /\ f.end   = SaturatingSub(d.end + n, r)
  BY OffsetFacts
<1> QED
  BY <1>1, <1>2 DEF SaturatingSub

(* The selected text stays selected when a client replaces text elsewhere.  *)
LEMMA XInsertKeepsSelection ==
  ASSUME NEW b \in Buffers, ~b.panicked, InBounds(b.xdot, Len(b.txt)),
         InBounds(b.dot, Len(b.txt)), ~Intersects(b.dot, b.xdot), NEW s \in Seq(Char)
  PROVE  Content(HandleInsertXDot(b, s)) = Content(b)
<1>1. PICK c, t, d, w, n, m : /\ c = HandleInsertXDot(b, s) /\ t = b.txt /\ d = b.dot /\ w = b.xdot
                              /\ n = Len(b.txt) /\ m = Len(s)
  OBVIOUS
<1>2. /\ t \in Seq(Char) /\ n = Len(t) /\ n \in Nat /\ m \in Nat
      /\ d \in DotType /\ d.start \in Nat /\ d.end \in Nat /\ d.start <= d.end /\ d.end <= n
      /\ w \in DotType /\ w.start \in Nat /\ w.end \in Nat /\ w.start <= w.end /\ w.end <= n
      /\ ~(d.start <= w.end /\ w.start <= d.end)
  BY <1>1, Fields DEF DotType, InBounds, Intersects
<1>3. PICK e : e = IF IsCur(w) THEN w.start ELSE IF w.end + 1 <= n THEN w.end + 1 ELSE n
  OBVIOUS
<1>4. PICK f : f = DotAfterXInsert(b, s)
  OBVIOUS
<1>5. c.dot = ClampIdx(f, Len(c.txt)) /\ c \in Buffers
  BY <1>1, <1>4, HandleInsertXDotFacts DEF Follows
<1>6. PICK x \in BOOLEAN, b0 \in Buffers :
        /\ b0.txt = b.txt /\ b0.panicked = b.panicked
        /\ c.txt = Insert(b0, b.xdot, s, x).txt
  BY <1>1, HandleInsertXDotFacts
<1>7. Spliced(t, w.start, e, m, c.txt) /\ e \in 0..n /\ w.start \in 0..e
  <2>1. PICK i : i = Insert(b0, w, s, x)
    OBVIOUS
  <2>2. /\ w \in DotType /\ ~b0.panicked /\ InBounds(w, Len(b0.txt))
        /\ e = IF IsCur(w) THEN w.start
               ELSE IF w.end + 1 <= Len(b0.txt) THEN w.end + 1 ELSE Len(b0.txt)
    BY <1>1, <1>2, <1>3, <1>6
  <2>3. /\ Spliced(b0.txt, w.start, e, Len(s), i.txt)
        /\ e \in 0..Len(b0.txt) /\ w.start \in 0..e
    BY ONLY <2>1, <2>2, InsertSpliced, b0 \in Buffers, s \in Seq(Char), x \in BOOLEAN
  <2>4. b0.txt = t /\ c.txt = i.txt
    BY <1>1, <1>6, <2>1
  <2> QED
    BY <1>1, <1>2, <2>3, <2>4
<1>8. c.txt \in Seq(Char) /\ Len(c.txt) \in Nat
  BY <1>5, Fields
<1>9. Content(b) = Sel(t, d.start, d.end)
  BY <1>1 DEF Content, Sel
<1>10. Content(c) = Sel(c.txt, c.dot.start, c.dot.end)
  BY DEF Content, Sel
<1>11. CASE w.start > d.end
  <2>1. f = d
    BY <1>1, <1>4, <1>11 DEF DotAfterXInsert
  <2>2. Sel(c.txt, d.start, d.end) = Sel(t, d.start, d.end) /\ d.end <= Len(c.txt)
    <3>1. PICK u, a, p, q : u = c.txt /\ a = w.start /\ p = d.start /\ q = d.end
      OBVIOUS
    <3>2. /\ t \in Seq(Char) /\ e \in 0..Len(t) /\ a \in 0..e /\ m \in Nat /\ p \in Nat /\ q \in Nat
          /\ Spliced(t, a, e, m, u) /\ q < a
      BY <1>2, <1>7, <1>11, <3>1
    <3>3. Sel(u, p, q) = Sel(t, p, q) /\ q <= Len(u)
      BY ONLY <3>2, SelBefore
    <3> QED
      BY <3>1, <3>3
  <2>3. d.start <= Len(c.txt)
    BY <1>2, <1>8, <2>2
  <2>4. c.dot = d
    BY <1>2, <1>5, <1>8, <2>1, <2>2, <2>3, ClampFacts
  <2> QED
    BY <1>1, <1>9, <1>10, <2>2, <2>4
<1>12. CASE ~(w.start > d.end)
  <2>1. d.start > w.end
    BY <1>2, <1>12
  <2>2. PICK r : r = IF IsCur(w) THEN 0 ELSE NChars(w)
    OBVIOUS
  <2>3. r \in Nat /\ r = e - w.start /\ d.start >= e
    BY <1>2, <1>3, <2>1, <2>2, SMTT(30) DEF NChars
  <2>4. f = WithOffset(d, m, r)
    BY <1>1, <1>4, <1>12, <2>2 DEF DotAfterXInsert
  <2>5. d.start + m >= r /\ d.end + m >= r
    BY <1>2, <1>7, <2>3, SMTT(30)
  <2>6. f \in DotType /\ f.start = d.start + m - r /\ f.end = d.end + m - r
    <3>1. d \in DotType /\ m \in Nat /\ r \in Nat /\ f = WithOffset(d, m, r)
      BY <1>2, <2>3, <2>4
    <3>2. f \in DotType
      BY ONLY <3>1, <2>5, OffsetExact
    <3>3. f.start = d.start + m - r
      BY ONLY <3>1, <2>5, OffsetExact
    <3>4. f.end = d.end + m - r
      BY ONLY <3>1, <2>5, OffsetExact
    <3> QED
      BY <3>2, <3>3, <3>4
  <2>7. /\ Sel(c.txt, f.start, f.end) = Sel(t, d.start, d.end)
        /\ f.end <= Len(c.txt) /\ f.start <= f.end /\ f.start \in Nat /\ f.end \in Nat
    <3>1. PICK u, a, p, q, y, z : /\ u = c.txt /\ a = w.start /\ p = d.start /\ q = d.end
                                  /\ y = f.start /\ z = f.end
      OBVIOUS
    <3>2. /\ t \in Seq(Char) /\ e \in 0..Len(t) /\ a \in 0..e /\ m \in Nat
          /\ p \in e..Len(t) /\ q \in p..Len(t) /\ Spliced(t, a, e, m, u)
          /\ y = p + m - (e - a) /\ z = q + m - (e - a)
      BY <1>2, <1>7, <2>3, <2>6, <3>1
    <3>3. Sel(u, y, z) = Sel(t, p, q) /\ y \in Nat /\ z \in Nat /\ z <= Len(u) /\ y <= z
      BY ONLY <3>2, SelBehind
    <3> QED
      BY <3>1, <3>3
  <2>8. f.start <= Len(c.txt)
    BY <1>8, <2>7
  <2>9. c.dot = f
    BY <1>5, <1>8, <2>6, <2>7, <2>8, ClampFacts
  <2> QED
    BY <1>1, <1>9, <1>10, <2>7, <2>9
<1> QED
  BY <1>11, <1>12

----------------------------------------------------------------------------
(* The steps.                                                               *)

(* the buffer is in order: the log records, and what was undone has edits *)
Steady(b) == b \in Buffers /\ Recording(b.log) /\ Full(b.log.undone)

SteadyInv ==
    /\ Steady(buf)
    /\ disk \in [txt : Seq(Char), newer : BOOLEAN]
    /\ base \in Seq(Char)
    /\ ahead \in Seq(Char)
    /\ scene \in Scenes

(* This is what the invariants of the module say of it.                     *)
LEMMA SteadyIs == SteadyInv <=> TypeOK /\ UndoneNonEmpty
<1>1. ASSUME buf \in Buffers PROVE Recording(buf.log) <=> ~buf.log.paused
  <2>1. buf.log.paused \in BOOLEAN
    BY <1>1, Fields, LogFields
  <2> QED
    BY <2>1 DEF Recording
<1> QED
  BY <1>1 DEF SteadyInv, Steady, TypeOK, UndoneNonEmpty, Full

(* A handler keeps the buffer in order, ...                                 *)
LEMMA FollowsSteady ==
  ASSUME NEW b, Steady(b), NEW c, Follows(b, c)
  PROVE  Steady(c)
<1>1. c \in Buffers /\ Recording(c.log) /\ (c.log.undone = b.log.undone \/ c.log.undone = <<>>)
  BY DEF Steady, Follows, Recording
<1>2. Full(<<>>)
  BY DEF Full
<1> QED
  BY <1>1, <1>2 DEF Steady

(* ... and what it records leads on from where the log led.                 *)
LEMMA ExactRecorded ==
  ASSUME NEW b, NEW t, NEW u, Exact(b, t, u), NEW c, Follows(b, c), Recorded(b, c, t),
         NEW v, v = IF c.log = b.log THEN u ELSE c.txt
  PROVE  Exact(c, t, v)
<1>1. Steady(b) /\ RedoChain(b.txt, b.log.undone, u)
  BY DEF Exact, Steady
<1>2. c \in Buffers /\ Recording(c.log) /\ Full(c.log.undone)
  BY <1>1, FollowsSteady DEF Steady
<1>3. Calm(c) /\ LogChain(t, c.log.edits, c.txt)
  BY DEF Recorded, Calm
<1>4. RedoChain(c.txt, c.log.undone, v)
  <2>1. CASE c.log = b.log
    <3>1. c.txt = b.txt /\ v = u
      BY <2>1 DEF Recorded
    <3> QED
      BY <1>1, <2>1, <3>1
  <2>2. CASE c.log # b.log
    <3>1. c.log.undone = <<>> /\ v = c.txt
      BY <2>2 DEF Recorded
    <3>2. c.txt \in Seq(Char)
      BY <1>2, Fields
    <3> QED
      BY <3>1, <3>2, LogChainEmpty
  <2> QED
    BY <2>1, <2>2
<1> QED
  BY <1>2, <1>3, <1>4 DEF Exact

(* the user is alone, and characters have one byte: the log is exact, and   *)
(* the selection is in the text                                             *)
Lone ==
    /\ OneByte
    /\ UserAlone
    /\ Exact(buf, base, ahead)
    /\ WellDot(buf.dot, Len(buf.txt))

(* the buffer becomes c by edits that its log has recorded, or by none *)
EditStep(c) ==
    /\ Follows(buf, c)
    /\ Lone => Recorded(buf, c, base) /\ WellDot(c.dot, Len(c.txt))
    /\ buf' = c
    /\ ahead' = IF c.log = buf.log THEN ahead ELSE c.txt
    /\ UNCHANGED <<disk, base, scene>>

(* Inserting.                                                               *)
LEMMA InsertSteps ==
  ASSUME SteadyInv, NEW s \in Seq(Char), NEW x \in BOOLEAN, x => Len(s) = 1
  PROVE  /\ Edited(HandleInsert(buf, s, x)) => \E c : EditStep(c)
         /\ Edited(HandleRawInput(buf, s, x)) => \E c : EditStep(c)
<1>1. buf \in Buffers
  BY DEF SteadyInv, Steady
<1>2. PICK c, r : c = HandleInsert(buf, s, x) /\ r = HandleRawInput(buf, s, x)
  OBVIOUS
<1>3. Follows(buf, c) /\ Follows(buf, r)
  BY <1>1, <1>2, HandleInsertFacts, HandleRawInputFacts
<1>4. ASSUME Lone
      PROVE  /\ Recorded(buf, c, base) /\ WellDot(c.dot, Len(c.txt))
             /\ Recorded(buf, r, base) /\ WellDot(r.dot, Len(r.txt))
  <2>1. /\ OneByte /\ Calm(buf) /\ Recording(buf.log) /\ WellDot(buf.dot, Len(buf.txt))
        /\ LogChain(base, buf.log.edits, buf.txt)
    BY <1>4 DEF Lone, Exact
  <2>2. PICK b, t : b = buf /\ t = base
    OBVIOUS
  <2>3. /\ OneByte /\ b \in Buffers /\ Calm(b) /\ Recording(b.log) /\ WellDot(b.dot, Len(b.txt))
        /\ LogChain(t, b.log.edits, b.txt)
        /\ c = HandleInsert(b, s, x) /\ r = HandleRawInput(b, s, x)
    BY <1>1, <1>2, <2>1, <2>2
  <2>4. Recorded(b, c, t) /\ WellDot(c.dot, Len(c.txt))
    BY ONLY <2>3, HandleInsertStory, s \in Seq(Char), x \in BOOLEAN, x => Len(s) = 1
  <2>5. Recorded(b, r, t) /\ WellDot(r.dot, Len(r.txt))
    BY ONLY <2>3, HandleRawInputStory, s \in Seq(Char), x \in BOOLEAN, x => Len(s) = 1
  <2> QED
    BY <2>2, <2>4, <2>5
<1>5. Edited(c) => EditStep(c)
  BY <1>3, <1>4 DEF Edited, EditStep
<1>6. Edited(r) => EditStep(r)
  BY <1>3, <1>4 DEF Edited, EditStep
<1> QED
  BY <1>2, <1>5, <1>6

(* Deleting.                                                                *)
LEMMA DeleteSteps ==
  ASSUME SteadyInv, Delete
  PROVE  \E c : EditStep(c)
<1>1. buf \in Buffers
  BY DEF SteadyInv, Steady
<1>2. PICK c : c = HandleDelete(buf)
  OBVIOUS
<1>3. Follows(buf, c)
  BY <1>1, <1>2, HandleDeleteFacts
<1>4. ASSUME Lone PROVE Recorded(buf, c, base) /\ WellDot(c.dot, Len(c.txt))
  <2>1. /\ OneByte /\ Calm(buf) /\ Recording(buf.log) /\ WellDot(buf.dot, Len(buf.txt))
        /\ LogChain(base, buf.log.edits, buf.txt)
    BY <1>4 DEF Lone, Exact
  <2>2. PICK b, t : b = buf /\ t = base
    OBVIOUS
  <2>3. /\ OneByte /\ b \in Buffers /\ Calm(b) /\ Recording(b.log) /\ WellDot(b.dot, Len(b.txt))
        /\ LogChain(t, b.log.edits, b.txt) /\ c = HandleDelete(b)
    BY <1>1, <1>2, <2>1, <2>2
  <2>4. Recorded(b, c, t) /\ WellDot(c.dot, Len(c.txt))
    BY ONLY <2>3, HandleDeleteStory
  <2> QED
    BY <2>2, <2>4
<1>5. Edited(c)
  BY <1>2 DEF Delete
<1> QED
  BY <1>3, <1>4, <1>5 DEF Edited, EditStep

(* A step that only moves the selections.                                   *)
LEMMA MoveStep ==
  ASSUME SteadyInv, NEW c \in Buffers,
         c.txt = buf.txt, c.log = buf.log, c.dirty = buf.dirty, c.isFile = buf.isFile,
         c.panicked = buf.panicked, Lone => WellDot(c.dot, Len(c.txt)), Moved(c)
  PROVE  EditStep(c)
<1>1. Follows(buf, buf)
  BY DEF SteadyInv, Steady, Follows
<1>2. Follows(buf, c)
  BY <1>1, FollowsDots
<1>3. Lone => Recorded(buf, c, base)
  BY DEF Lone, Exact, Calm, Recorded
<1> QED
  BY <1>2, <1>3 DEF Moved, EditStep

(* The dots a text object leaves, and those a client may choose.            *)
LEMMA DotsFacts ==
  ASSUME NEW n \in Nat, NEW d \in Dots(0..n)
  PROVE  d \in DotType /\ (CollapseNullRange(d) = d => WellDot(d, n))
<1>1. CASE \E i \in 0..n : d = Cur(i)
  <2>1. PICK i \in 0..n : d = Cur(i)
    BY <1>1
  <2>2. d \in DotType /\ d.tag = "Cur" /\ d.start = i /\ d.end = i
    BY <2>1, CurType
  <2> QED
    BY <2>2 DEF WellDot, IsCur
<1>2. CASE \E i, j \in 0..n : d = FromCursors(i, j)
  <2>1. PICK i \in 0..n, j \in 0..n : d = FromCursors(i, j)
    BY <1>2
  <2>2. d \in DotType /\ d.tag = "Range" /\ d.start <= d.end /\ d.end <= n
        /\ d.start \in Nat /\ d.end \in Nat
    BY <2>1 DEF FromCursors, DotType
  <2>3. ASSUME d.start = d.end PROVE CollapseNullRange(d) # d
    <3>1. CollapseNullRange(d) = Cur(d.start)
      BY <2>3 DEF CollapseNullRange
    <3>2. Cur(d.start).tag = "Cur"
      BY DEF Cur
    <3> QED
      BY <2>2, <3>1, <3>2
  <2> QED
    BY <2>2, <2>3 DEF WellDot, IsCur
<1> QED
  BY <1>1, <1>2 DEF Dots

(* Selecting.                                                               *)
LEMMA SetDotSteps ==
  ASSUME SteadyInv, NEW d \in Dots(0..Len(buf.txt)), SetDot(d)
  PROVE  \E c : EditStep(c)
<1>1. buf \in Buffers
  BY DEF SteadyInv, Steady
<1>2. PICK n : n = Len(buf.txt)
  OBVIOUS
<1>3. n \in Nat
  BY <1>1, <1>2, Fields
<1>4. d \in DotType /\ (CollapseNullRange(d) = d => WellDot(d, n))
  BY <1>2, <1>3, DotsFacts
<1>5. WellDot(d, n) /\ Moved(ClampDots([buf EXCEPT !.dot = d]))
  BY <1>4 DEF SetDot
<1>6. PICK i, c : i = [buf EXCEPT !.dot = d] /\ c = ClampDots(i)
  OBVIOUS
<1>7. /\ i \in Buffers /\ i.txt = buf.txt /\ i.dot = d /\ i.log = buf.log
      /\ i.dirty = buf.dirty /\ i.isFile = buf.isFile /\ i.panicked = buf.panicked
  BY <1>1, <1>4, <1>6, SetDotField
<1>8. /\ c \in Buffers /\ c.txt = i.txt /\ c.log = i.log /\ c.dirty = i.dirty
      /\ c.isFile = i.isFile /\ c.panicked = i.panicked
      /\ c.dot = ClampIdx(i.dot, Len(i.txt))
  BY <1>6, <1>7, ClampDotsFacts
<1>9. d.start <= n /\ d.end <= n
  BY <1>3, <1>4, <1>5 DEF WellDot, DotType
<1>10. c.dot = d
  BY <1>2, <1>3, <1>4, <1>7, <1>8, <1>9, ClampFacts
<1>11. WellDot(c.dot, Len(c.txt)) /\ Moved(c)
  BY <1>2, <1>5, <1>6, <1>7, <1>8, <1>10
<1>12. EditStep(c)
  BY <1>7, <1>8, <1>11, MoveStep
<1> QED
  BY <1>12

(* Collapsing the selection.                                                *)
LEMMA CollapseSteps ==
  ASSUME SteadyInv, NEW first \in BOOLEAN, CollapseDot(first)
  PROVE  \E c : EditStep(c)
<1>1. buf \in Buffers /\ buf.dot \in DotType /\ buf.dot.start \in Nat /\ buf.dot.end \in Nat
  BY Fields DEF SteadyInv, Steady, DotType
<1>2. PICK a, d : a = (IF first THEN buf.dot.start ELSE buf.dot.end) /\ d = Cur(a)
  OBVIOUS
<1>3. a \in Nat /\ d \in DotType /\ d.tag = "Cur" /\ d.start = a /\ d.end = a
  BY <1>1, <1>2, CurType
<1>4. PICK c : c = [buf EXCEPT !.dot = d]
  OBVIOUS
<1>5. /\ c \in Buffers /\ c.txt = buf.txt /\ c.dot = d /\ c.log = buf.log
      /\ c.dirty = buf.dirty /\ c.isFile = buf.isFile /\ c.panicked = buf.panicked
  BY <1>1, <1>3, <1>4, SetDotField
<1>6. Moved(c)
  BY <1>2, <1>4 DEF CollapseDot, CollapseToFirst, CollapseToLast
<1>7. ASSUME Lone PROVE WellDot(c.dot, Len(c.txt))
  <2>1. buf.dot.start <= buf.dot.end /\ buf.dot.end <= Len(buf.txt) /\ Len(buf.txt) \in Nat
    BY <1>1, <1>7, Fields DEF Lone, WellDot
  <2>2. a <= Len(buf.txt)
    BY <1>1, <1>2, <2>1
  <2> QED
    BY <1>3, <1>5, <2>2 DEF WellDot, IsCur
<1>8. EditStep(c)
  BY <1>5, <1>6, <1>7, MoveStep
<1> QED
  BY <1>8

(* fsys clients *)
LEMMA ClientSteps ==
  ASSUME SteadyInv,
         \/ \E d \in Dots(0..Len(buf.txt)) : SetAddr(d)
         \/ \E d \in Dots(0..Len(buf.txt)) : SetXAddr(d)
         \/ \E s \in Strings : InsertXDot(s)
         \/ \E s \in Strings : AppendBody(s)
         \/ ClearBody
  PROVE  \E c : EditStep(c)
<1>1. buf \in Buffers /\ Len(buf.txt) \in Nat
  BY Fields DEF SteadyInv, Steady
<1>2. "clients" \in scene.features
  BY DEF SetAddr, SetXAddr, InsertXDot, AppendBody, ClearBody
<1>3. ~Lone
  BY <1>2 DEF Lone, UserAlone
<1>4. ASSUME NEW d \in Dots(0..Len(buf.txt)), SetAddr(d) PROVE \E c : EditStep(c)
  <2>1. PICK f : f = ClampIdx(d, Len(buf.txt))
    OBVIOUS
  <2>2. f \in DotType
    BY <1>1, <2>1, DotsFacts, ClampFacts
  <2>3. PICK c : c = [buf EXCEPT !.dot = f]
    OBVIOUS
  <2>4. /\ c \in Buffers /\ c.txt = buf.txt /\ c.log = buf.log
        /\ c.dirty = buf.dirty /\ c.isFile = buf.isFile /\ c.panicked = buf.panicked
    BY <1>1, <2>2, <2>3, SetDotField
  <2>5. Moved(c)
    BY <1>4, <2>1, <2>3 DEF SetAddr
  <2>6. EditStep(c)
    BY <1>3, <2>4, <2>5, MoveStep
  <2> QED
    BY <2>6
<1>5. ASSUME NEW d \in Dots(0..Len(buf.txt)), SetXAddr(d) PROVE \E c : EditStep(c)
  <2>1. PICK f : f = ClampIdx(d, Len(buf.txt))
    OBVIOUS
  <2>2. f \in DotType
    BY <1>1, <2>1, DotsFacts, ClampFacts
  <2>3. PICK c : c = [buf EXCEPT !.xdot = f]
    OBVIOUS
  <2>4. /\ c \in Buffers /\ c.txt = buf.txt /\ c.log = buf.log
        /\ c.dirty = buf.dirty /\ c.isFile = buf.isFile /\ c.panicked = buf.panicked
    BY <1>1, <2>2, <2>3, SetXDotField
  <2>5. Moved(c)
    BY <1>5, <2>1, <2>3 DEF SetXAddr
  <2>6. EditStep(c)
    BY <1>3, <2>4, <2>5, MoveStep
  <2> QED
    BY <2>6
<1>6. ASSUME NEW c, Follows(buf, c), Edited(c) PROVE \E x : EditStep(x)
  <2>1. EditStep(c)
    BY <1>3, <1>6 DEF Edited, EditStep
  <2> QED
    BY <2>1
<1>7. ASSUME NEW s \in Strings, InsertXDot(s) PROVE \E c : EditStep(c)
  <2>1. s \in Seq(Char)
    BY BufferAssumption
  <2>2. Follows(buf, HandleInsertXDot(buf, s)) /\ Edited(HandleInsertXDot(buf, s))
    BY <1>1, <1>7, <2>1, HandleInsertXDotFacts DEF InsertXDot
  <2> QED
    BY <1>6, <2>2
<1>8. ASSUME NEW s \in Strings, AppendBody(s) PROVE \E c : EditStep(c)
  <2>1. s \in Seq(Char)
    BY BufferAssumption
  <2>2. Follows(buf, HandleAppend(buf, s)) /\ Edited(HandleAppend(buf, s))
    BY <1>1, <1>8, <2>1, HandleAppendFollows DEF AppendBody
  <2> QED
    BY <1>6, <2>2
<1>9. ASSUME ClearBody PROVE \E c : EditStep(c)
  <2>1. Follows(buf, HandleClear(buf)) /\ Edited(HandleClear(buf))
    BY <1>1, <1>9, HandleClearFollows DEF ClearBody
  <2> QED
    BY <1>6, <2>1
<1> QED
  BY <1>4, <1>5, <1>7, <1>8, <1>9

(* Every step but undo, redo, a new transaction, a save, a reload and a     *)
(* write to the file is an edit or a move.                                  *)
LEMMA StepKinds ==
  ASSUME SteadyInv, Next
  PROVE  \/ \E c : EditStep(c)
         \/ Undo
         \/ Redo
         \/ NewEditLogTransaction
         \/ \E force, writeFails \in BOOLEAN : Save(force, writeFails)
         \/ ReloadFromDisk
         \/ \E t \in ExternalTexts : ExternalWrite(t)
<1>1. PICK y \in BOOLEAN, z \in BOOLEAN : y = TRUE /\ z = FALSE
  OBVIOUS
<1>2. ASSUME NEW c \in Char, InsertChar(c) \/ RawChar(c) PROVE \E d : EditStep(d)
  <2>1. PICK s : s = <<c>>
    OBVIOUS
  <2>2. s \in Seq(Char) /\ (y => Len(s) = 1)
    BY <2>1
  <2>3. Edited(HandleInsert(buf, s, y)) \/ Edited(HandleRawInput(buf, s, y))
    BY <1>1, <1>2, <2>1 DEF InsertChar, RawChar
  <2> QED
    BY <2>2, <2>3, InsertSteps
<1>3. ASSUME NEW s \in Strings, InsertString(s) PROVE \E d : EditStep(d)
  <2>1. s \in Seq(Char) /\ (z => Len(s) = 1)
    BY <1>1, BufferAssumption
  <2>2. Edited(HandleInsert(buf, s, z))
    BY <1>1, <1>3 DEF InsertString
  <2> QED
    BY <2>1, <2>2, InsertSteps
<1>4. ASSUME NEW s \in Strings, RawReturn(s) PROVE \E d : EditStep(d)
  <2>1. PICK r : r = <<NL>> \o s
    OBVIOUS
  <2>2. r \in Seq(Char) /\ (z => Len(r) = 1)
    <3>1. s \in Seq(Char) /\ NL \in Char
      BY BufferAssumption
    <3>2. r \in Seq(Char)
      BY <2>1, <3>1
    <3> QED
      BY <1>1, <3>2
  <2>3. Edited(HandleRawInput(buf, r, z))
    BY <1>1, <1>4, <2>1 DEF RawReturn
  <2> QED
    BY <2>2, <2>3, InsertSteps
<1>5. ASSUME Delete PROVE \E d : EditStep(d)
  BY <1>5, DeleteSteps
<1>6. ASSUME NEW d \in Dots(0..Len(buf.txt)), SetDot(d) PROVE \E c : EditStep(c)
  BY <1>6, SetDotSteps
<1>7. ASSUME NEW first \in BOOLEAN, CollapseDot(first) PROVE \E c : EditStep(c)
  BY <1>7, CollapseSteps
<1> QED
  BY <1>2, <1>3, <1>4, <1>5, <1>6, <1>7, ClientSteps DEF Next

(* A buffer whose log has a new transaction.                                *)
LEMMA NewTransactionStep ==
  ASSUME NEW b, Steady(b), NEW c, c = [b EXCEPT !.log = NewTransaction(b.log)]
  PROVE  /\ Steady(c)
         /\ c.txt = b.txt /\ c.dot = b.dot /\ c.dirty = b.dirty /\ c.isFile = b.isFile
         /\ c.log.undone = b.log.undone
         /\ c.log.edits = b.log.edits \/ c.log.edits = Append(b.log.edits, <<>>)
         /\ \A t, u : Exact(b, t, u) => Exact(c, t, u)
<1>1. b \in Buffers /\ b.log \in Logs /\ Recording(b.log) /\ Full(b.log.undone)
  BY Fields DEF Steady
<1>2. PICK m, l : m = NewTransaction(b.log) /\ l = b.log
  OBVIOUS
<1>3. /\ m \in Logs /\ m.paused = l.paused /\ m.undone = l.undone
      /\ m.edits = l.edits \/ m.edits = Append(l.edits, <<>>)
  BY <1>1, <1>2, NewTransactionFacts
<1>4. c = [b EXCEPT !.log = m]
  BY <1>2
<1>5. /\ c \in Buffers /\ c.txt = b.txt /\ c.dot = b.dot /\ c.log = m
      /\ c.dirty = b.dirty /\ c.isFile = b.isFile /\ c.panicked = b.panicked
  <2>1. b \in Buffers /\ m \in Logs
    BY <1>1, <1>3
  <2> QED
    BY <1>4, <2>1 DEF Buffers
<1>6. Steady(c)
  BY <1>1, <1>2, <1>3, <1>5 DEF Steady, Recording
<1>7. ASSUME NEW t, NEW u, Exact(b, t, u) PROVE Exact(c, t, u)
  <2>1. Calm(c) /\ RedoChain(c.txt, c.log.undone, u)
    BY <1>2, <1>3, <1>5, <1>7 DEF Exact, Calm
  <2>2. LogChain(t, l.edits, b.txt) /\ l.edits \in Seq(Seq(Edits)) /\ b.txt \in Seq(Char)
    BY <1>1, <1>2, <1>7, LogFields, Fields DEF Exact
  <2>3. LogChain(t, m.edits, b.txt)
    <3>1. CASE m.edits = l.edits
      BY <2>2, <3>1
    <3>2. CASE m.edits = Append(l.edits, <<>>)
      <4>1. PICK E, L, w : E = <<>> /\ L = l.edits /\ w = b.txt
        OBVIOUS
      <4>2. E \in Seq(Edits) /\ Chain(w, E, w) /\ L \in Seq(Seq(Edits)) /\ LogChain(t, L, w)
        BY <2>2, <4>1, ChainEmpty
      <4>3. LogChain(t, Append(L, E), w)
        BY ONLY <4>2, LogChainAppend
      <4> QED
        BY <3>2, <4>1, <4>3
    <3> QED
      BY <1>3, <3>1, <3>2
  <2> QED
    BY <1>5, <1>6, <2>1, <2>3 DEF Exact, Steady
<1> QED
  BY <1>2, <1>3, <1>5, <1>6, <1>7

(* A save: the final newline is an edit, and dirty is cleared when the text *)
(* was written.                                                             *)
LEMMA SaveFacts ==
  ASSUME SteadyInv, NEW force \in BOOLEAN, NEW fails \in BOOLEAN, Save(force, fails)
  PROVE  \E c : /\ Follows(buf, c)
                /\ Lone => Recorded(buf, c, base) /\ WellDot(c.dot, Len(c.txt))
                /\ ahead' = IF c.log = buf.log THEN ahead ELSE c.txt
                /\ base' = base /\ scene' = scene
                /\ \/ buf' = c /\ disk' = disk
                   \/ buf' = [c EXCEPT !.dirty = FALSE] /\ disk' = [txt |-> c.txt, newer |-> FALSE]
<1>1. buf \in Buffers
  BY DEF SteadyInv, Steady
<1>2. PICK c : c = WithFinalNewline(buf)
  OBVIOUS
<1>3. Follows(buf, c)
  BY <1>1, <1>2, FinalNewlineFacts
<1>4. ASSUME Lone PROVE Recorded(buf, c, base) /\ WellDot(c.dot, Len(c.txt))
  <2>1. /\ OneByte /\ Calm(buf) /\ Recording(buf.log) /\ WellDot(buf.dot, Len(buf.txt))
        /\ LogChain(base, buf.log.edits, buf.txt)
    BY <1>4 DEF Lone, Exact
  <2>2. PICK b, t : b = buf /\ t = base
    OBVIOUS
  <2>3. /\ OneByte /\ b \in Buffers /\ Calm(b) /\ Recording(b.log) /\ WellDot(b.dot, Len(b.txt))
        /\ LogChain(t, b.log.edits, b.txt) /\ c = WithFinalNewline(b)
    BY <1>1, <1>2, <2>1, <2>2
  <2>4. Recorded(b, c, t) /\ WellDot(c.dot, Len(c.txt))
    BY ONLY <2>3, FinalNewlineStory
  <2> QED
    BY <2>2, <2>4
<1>5. /\ ahead' = IF c.log = buf.log THEN ahead ELSE c.txt
      /\ base' = base /\ scene' = scene
      /\ \/ buf' = c /\ disk' = disk
         \/ buf' = [c EXCEPT !.dirty = FALSE] /\ disk' = [txt |-> c.txt, newer |-> FALSE]
  BY <1>2 DEF Save
<1> QED
  BY <1>3, <1>4, <1>5

----------------------------------------------------------------------------
(* The buffer after the steps that are not edits.                           *)

(* A buffer that was written.                                               *)
LEMMA SavedFacts ==
  ASSUME NEW b, Steady(b), NEW c, c = [b EXCEPT !.dirty = FALSE]
  PROVE  /\ Steady(c)
         /\ c.txt = b.txt /\ c.dot = b.dot /\ c.log = b.log /\ c.dirty = FALSE
         /\ c.isFile = b.isFile
         /\ \A t, u : Exact(b, t, u) => Exact(c, t, u)
<1>1. b \in Buffers
  BY DEF Steady
<1>2. /\ c \in Buffers /\ c.txt = b.txt /\ c.dot = b.dot /\ c.log = b.log /\ c.dirty = FALSE
      /\ c.isFile = b.isFile /\ c.panicked = b.panicked
  BY <1>1 DEF Buffers
<1>3. Steady(c)
  BY <1>2 DEF Steady
<1>4. ASSUME NEW t, NEW u, Exact(b, t, u) PROVE Exact(c, t, u)
  BY <1>2, <1>4 DEF Exact, Calm
<1> QED
  BY <1>2, <1>3, <1>4

(* A buffer that was reloaded.                                              *)
LEMMA ReloadFacts ==
  ASSUME SteadyInv, ReloadFromDisk
  PROVE  Steady(buf') /\ buf'.txt = disk.txt
<1>1. /\ buf \in Buffers /\ buf.dot \in DotType /\ buf.xdot \in DotType
      /\ disk.txt \in Seq(Char)
  BY Fields DEF SteadyInv, Steady
<1>2. PICK t, d, x, l : /\ t = disk.txt
                        /\ d = ClampIdx(buf.dot, ByteLen(disk.txt))
                        /\ x = ClampIdx(buf.xdot, ByteLen(disk.txt))
                        /\ l = EmptyLog
  OBVIOUS
<1>3. buf' = [buf EXCEPT !.txt = t, !.dot = d, !.xdot = x, !.log = l, !.dirty = FALSE]
  BY <1>2 DEF ReloadFromDisk
<1>4. ByteLen(disk.txt) \in Nat
  BY <1>1, ByteLenFacts
<1>5. d \in DotType /\ x \in DotType
  BY <1>1, <1>2, <1>4, ClampFacts
<1>6. l \in Logs /\ l.undone = <<>> /\ l.paused = FALSE
  BY <1>2 DEF EmptyLog, Logs
<1>7. Recording(l) /\ Full(l.undone)
  BY <1>6 DEF Recording, Full
<1>8. buf' \in Buffers /\ buf'.txt = t /\ buf'.log = l
  BY <1>1, <1>2, <1>3, <1>5, <1>6 DEF Buffers
<1> QED
  BY <1>2, <1>7, <1>8 DEF Steady

----------------------------------------------------------------------------
(* The theorems.                                                            *)

(* The buffer is in order at the start, ...                                 *)
LEMMA InitSteady == Init => SteadyInv
<1> SUFFICES ASSUME Init PROVE SteadyInv
  OBVIOUS
<1>1. PICK t \in ExternalTexts \cup {<<>>} :
        /\ scene \in Scenes
        /\ buf = [txt |-> t, dot |-> Cur(0), xdot |-> Cur(0), log |-> EmptyLog,
                  dirty |-> FALSE, isFile |-> scene.isFile, panicked |-> FALSE]
        /\ disk = [txt |-> t, newer |-> FALSE]
        /\ base = t
        /\ ahead = t
  BY DEF Init
<1>2. t \in Seq(Char) /\ scene.isFile \in BOOLEAN
  <2>1. t \in Seq(Char)
    <3>1. CASE t \in ExternalTexts
      BY <3>1, BufferAssumption
    <3>2. CASE t = <<>>
      BY <3>2
    <3> QED
      BY <3>1, <3>2
  <2>2. scene.isFile \in BOOLEAN
    BY <1>1, BufferAssumption
  <2> QED
    BY <2>1, <2>2
<1>3. PICK d, l : d = Cur(0) /\ l = EmptyLog
  OBVIOUS
<1>4. d \in DotType
  BY <1>3 DEF Cur, DotType
<1>5. l \in Logs /\ l.undone = <<>> /\ l.paused = FALSE
  BY <1>3 DEF EmptyLog, Logs
<1>6. Recording(l) /\ Full(l.undone)
  BY <1>5 DEF Recording, Full
<1>7. buf = [txt |-> t, dot |-> d, xdot |-> d, log |-> l,
             dirty |-> FALSE, isFile |-> scene.isFile, panicked |-> FALSE]
  BY <1>1, <1>3
<1>8. buf \in Buffers /\ buf.log = l
  BY <1>2, <1>4, <1>5, <1>7 DEF Buffers
<1>9. Steady(buf)
  BY <1>6, <1>8 DEF Steady
<1> QED
  BY <1>1, <1>2, <1>9 DEF SteadyInv

(* ... and after every step.                                                *)
LEMMA NextSteady == SteadyInv /\ [Next]_vars => SteadyInv'
<1> SUFFICES ASSUME SteadyInv, [Next]_vars PROVE SteadyInv'
  OBVIOUS
<1>0. Steady(buf) /\ buf \in Buffers /\ Recording(buf.log) /\ Full(buf.log.undone)
      /\ disk \in [txt : Seq(Char), newer : BOOLEAN] /\ base \in Seq(Char) /\ ahead \in Seq(Char)
      /\ scene \in Scenes
  BY DEF SteadyInv, Steady
<1>1. ASSUME NEW c, EditStep(c) PROVE SteadyInv'
  <2>1. Steady(c)
    BY <1>0, <1>1, FollowsSteady DEF EditStep
  <2>2. c.txt \in Seq(Char)
    BY <2>1, Fields DEF Steady
  <2>3. ahead' \in Seq(Char)
    BY <1>0, <1>1, <2>2 DEF EditStep
  <2> QED
    BY <1>0, <1>1, <2>1, <2>3 DEF EditStep, SteadyInv
<1>2. ASSUME Undo PROVE SteadyInv'
  <2>1. Steady(HandleUndo(buf))
    BY <1>0, HandleUndoFacts DEF Steady
  <2> QED
    BY <1>0, <1>2, <2>1 DEF Undo, Moved, SteadyInv
<1>3. ASSUME Redo PROVE SteadyInv'
  <2>1. Steady(HandleRedo(buf))
    BY <1>0, HandleRedoFacts DEF Steady
  <2> QED
    BY <1>0, <1>3, <2>1 DEF Redo, Moved, SteadyInv
<1>4. ASSUME NewEditLogTransaction PROVE SteadyInv'
  <2>1. PICK c : c = [buf EXCEPT !.log = NewTransaction(buf.log)]
    OBVIOUS
  <2>2. Steady(c)
    BY <1>0, <2>1, NewTransactionStep
  <2> QED
    BY <1>0, <1>4, <2>1, <2>2 DEF NewEditLogTransaction, Moved, SteadyInv
<1>5. ASSUME NEW force \in BOOLEAN, NEW fails \in BOOLEAN, Save(force, fails) PROVE SteadyInv'
  <2>1. PICK c : /\ Follows(buf, c)
                 /\ ahead' = IF c.log = buf.log THEN ahead ELSE c.txt
                 /\ base' = base /\ scene' = scene
                 /\ \/ buf' = c /\ disk' = disk
                    \/ buf' = [c EXCEPT !.dirty = FALSE] /\ disk' = [txt |-> c.txt, newer |-> FALSE]
    BY <1>5, SaveFacts
  <2>2. Steady(c)
    BY <1>0, <2>1, FollowsSteady
  <2>3. c.txt \in Seq(Char)
    BY <2>2, Fields DEF Steady
  <2>4. Steady([c EXCEPT !.dirty = FALSE])
    BY <2>2, SavedFacts
  <2>5. Steady(buf')
    BY <2>1, <2>2, <2>4
  <2>6. disk' \in [txt : Seq(Char), newer : BOOLEAN]
    <3>1. PICK k : k = [txt |-> c.txt, newer |-> FALSE]
      OBVIOUS
    <3>2. k \in [txt : Seq(Char), newer : BOOLEAN]
      BY <2>3, <3>1
    <3>3. disk' = disk \/ disk' = k
      BY <2>1, <3>1
    <3> QED
      BY <1>0, <3>2, <3>3
  <2>7. ahead' \in Seq(Char)
    BY <1>0, <2>1, <2>3
  <2> QED
    BY <1>0, <2>1, <2>5, <2>6, <2>7 DEF SteadyInv
<1>6. ASSUME ReloadFromDisk PROVE SteadyInv'
  <2>1. Steady(buf')
    BY <1>6, ReloadFacts
  <2>2. /\ disk' \in [txt : Seq(Char), newer : BOOLEAN] /\ base' \in Seq(Char)
        /\ ahead' \in Seq(Char) /\ scene' = scene
    BY <1>0, <1>6 DEF ReloadFromDisk
  <2> QED
    BY <1>0, <2>1, <2>2 DEF SteadyInv
<1>7. ASSUME NEW t \in ExternalTexts, ExternalWrite(t) PROVE SteadyInv'
  <2>1. t \in Seq(Char)
    BY BufferAssumption
  <2> QED
    BY <1>0, <1>7, <2>1 DEF ExternalWrite, SteadyInv
<1>8. ASSUME UNCHANGED vars PROVE SteadyInv'
  BY <1>0, <1>8 DEF vars, SteadyInv
<1> QED
  BY <1>1, <1>2, <1>3, <1>4, <1>5, <1>6, <1>7, <1>8, StepKinds

(* Every handler leaves a buffer of the right type whose log records, and   *)
(* in which every undone transaction has an edit to redo (EditLog::redo     *)
(* would go on with the wrong stack otherwise).                             *)
THEOREM BufferSteady == Spec => [](TypeOK /\ UndoneNonEmpty)
<1>1. SteadyInv => TypeOK /\ UndoneNonEmpty
  BY SteadyIs
<1> QED
  BY <1>1, InitSteady, NextSteady, PTL DEF Spec

(* A client that writes to xdot leaves the selected text selected, wherever *)
(* in the text it writes, as long as it does not touch the selection        *)
(* (Buffer::insert_xdot).                                                   *)
THEOREM SelectionStays == Spec => []SelectionPreserved
<1>1. TypeOK => SelectionPreserved
  <2> SUFFICES ASSUME TypeOK PROVE SelectionPreserved
    OBVIOUS
  <2> SUFFICES ASSUME ~buf.panicked, XDotInBounds, DotInText, ~Intersects(buf.dot, buf.xdot),
                      NEW s \in Strings
               PROVE  Content(HandleInsertXDot(buf, s)) = Content(buf)
    BY DEF SelectionPreserved
  <2>1. PICK b : b = buf
    OBVIOUS
  <2>2. b \in Buffers /\ s \in Seq(Char)
    BY <2>1, BufferAssumption DEF TypeOK
  <2>3. ~b.panicked /\ InBounds(b.xdot, Len(b.txt)) /\ InBounds(b.dot, Len(b.txt))
        /\ ~Intersects(b.dot, b.xdot)
    BY <2>1 DEF XDotInBounds, DotInText
  <2>4. Content(HandleInsertXDot(b, s)) = Content(b)
    BY ONLY <2>2, <2>3, XInsertKeepsSelection
  <2> QED
    BY <2>1, <2>4
<1> QED
  BY <1>1, BufferSteady, PTL

(* A file buffer that is not dirty differs from its file only where undo    *)
(* has emptied its log, and something was undone (mark_dirty, undo, redo,   *)
(* save_to_disk_at).                                                        *)
THEOREM CleanMeansSaved == Spec => []CleanUnlessUndone
<1> DEFINE Empty(L) == \A i \in DOMAIN L : L[i] = <<>>
           Clean(b, k) == b.isFile /\ ~k.newer /\ ~b.dirty /\ b.txt # k.txt
                          => Empty(b.log.edits) /\ b.log.undone # <<>>
<1>1. CleanUnlessUndone <=> Clean(buf, disk)
  BY DEF CleanUnlessUndone
<1>2. CleanUnlessUndone' <=> Clean(buf', disk')
  BY DEF CleanUnlessUndone
<1>3. Init => CleanUnlessUndone
  BY DEF Init, CleanUnlessUndone
<1>4. SteadyInv /\ CleanUnlessUndone /\ [Next]_vars => CleanUnlessUndone'
  <2> SUFFICES ASSUME SteadyInv, CleanUnlessUndone, [Next]_vars PROVE Clean(buf', disk')
    BY <1>2
  <2>0. Clean(buf, disk) /\ Steady(buf) /\ buf \in Buffers
        /\ Recording(buf.log) /\ Full(buf.log.undone)
    BY <1>1 DEF SteadyInv, Steady
  <2>1. ASSUME NEW c, Follows(buf, c) PROVE Clean(c, disk)
    <3>1. c.isFile = buf.isFile
          /\ (c.dirty = buf.isFile \/ (c.txt = buf.txt /\ c.log = buf.log /\ c.dirty = buf.dirty))
      BY <2>1 DEF Follows
    <3>2. CASE c.dirty = buf.isFile
      BY <3>1, <3>2
    <3>3. CASE c.txt = buf.txt /\ c.log = buf.log /\ c.dirty = buf.dirty
      BY <2>0, <3>1, <3>3
    <3> QED
      BY <3>1, <3>2, <3>3
  <2>2. ASSUME NEW c, EditStep(c) PROVE Clean(buf', disk')
    BY <2>1, <2>2 DEF EditStep
  <2>3. ASSUME Undo PROVE Clean(buf', disk')
    <3>1. PICK c : c = HandleUndo(buf)
      OBVIOUS
    <3>2. /\ c.isFile = buf.isFile
          /\ \/ /\ c.txt = buf.txt /\ c.dirty = buf.dirty /\ c.log.edits = <<>>
                /\ c.log.undone = buf.log.undone
             \/ c.dirty = (c.log.edits # <<>>) /\ c.log.undone # <<>>
      BY <2>0, <3>1, HandleUndoFacts
    <3>3. Empty(<<>>)
      OBVIOUS
    <3> HIDE DEF Empty
    <3>4. ASSUME c.txt = buf.txt, c.dirty = buf.dirty, c.log.edits = <<>>,
                 c.log.undone = buf.log.undone
          PROVE  Clean(c, disk)
      <4>1. Empty(c.log.edits)
        BY <3>3, <3>4
      <4>2. Clean(c, disk)
        BY <2>0, <3>2, <3>4, <4>1
      <4> QED
        BY <4>2
    <3>5. ASSUME c.dirty = (c.log.edits # <<>>), c.log.undone # <<>>
          PROVE  Clean(c, disk)
      <4>1. ~c.dirty => c.log.edits = <<>>
        BY <3>5
      <4>2. CASE c.log.edits = <<>>
        <5>1. Empty(c.log.edits)
          BY <3>3, <4>2
        <5> QED
          BY <3>5, <5>1
      <4> QED
        BY <4>1, <4>2
    <3>6. Clean(c, disk)
      <4> HIDE DEF Clean
      <4> QED
        BY <3>2, <3>4, <3>5
    <3> QED
      BY <2>3, <3>1, <3>6 DEF Undo, Moved
  <2>4. ASSUME Redo PROVE Clean(buf', disk')
    <3>1. PICK c : c = HandleRedo(buf)
      OBVIOUS
    <3>2. /\ buf.log.undone = <<>> => c = buf
          /\ buf.log.undone # <<>> => c.dirty = TRUE
      BY <2>0, <3>1, HandleRedoFacts
    <3>3. Clean(c, disk)
      BY <2>0, <3>2
    <3> QED
      BY <2>4, <3>1, <3>3 DEF Redo, Moved
  <2>5. ASSUME NewEditLogTransaction PROVE Clean(buf', disk')
    <3>1. PICK c : c = [buf EXCEPT !.log = NewTransaction(buf.log)]
      OBVIOUS
    <3>2. /\ c.txt = buf.txt /\ c.dirty = buf.dirty /\ c.isFile = buf.isFile
          /\ c.log.undone = buf.log.undone
          /\ c.log.edits = buf.log.edits \/ c.log.edits = Append(buf.log.edits, <<>>)
      BY <2>0, <3>1, NewTransactionStep
    <3>3. ASSUME Empty(buf.log.edits) PROVE Empty(c.log.edits)
      <4>1. PICK L, E, N : L = buf.log.edits /\ E = c.log.edits /\ N = <<>>
        OBVIOUS
      <4>2. L \in Seq(Seq(Edits)) /\ N \in Seq(Edits) /\ (E = L \/ E = Append(L, N))
        BY <2>0, <3>2, <4>1, Fields, LogFields
      <4>3. \A k \in 1..Len(L) : L[k] = N
        BY <3>3, <4>1, <4>2
      <4>4. CASE E = Append(L, N)
        <5>1. /\ E \in Seq(Seq(Edits)) /\ Len(E) = Len(L) + 1
              /\ E[Len(L) + 1] = N /\ \A k \in 1..Len(L) : E[k] = L[k]
          BY <4>2, <4>4, AppendFacts
        <5>2. Len(L) \in Nat /\ DOMAIN E = 1..Len(L) + 1
          BY <4>2, <5>1
        <5>3. ASSUME NEW k \in 1..Len(L) + 1 PROVE E[k] = N
          <6>1. k \in 1..Len(L) \/ k = Len(L) + 1
            BY <5>2
          <6> QED
            BY <4>3, <5>1, <6>1
        <5> QED
          BY <4>1, <5>2, <5>3
      <4> QED
        BY <3>3, <4>1, <4>2, <4>4
    <3>4. Clean(c, disk)
      <4> HIDE DEF Empty
      <4> QED
        BY <2>0, <3>2, <3>3
    <3> QED
      BY <2>5, <3>1, <3>4 DEF NewEditLogTransaction, Moved
  <2>6. ASSUME NEW force \in BOOLEAN, NEW fails \in BOOLEAN, Save(force, fails)
        PROVE  Clean(buf', disk')
    <3>1. PICK c : /\ Follows(buf, c)
                   /\ \/ buf' = c /\ disk' = disk
                      \/ buf' = [c EXCEPT !.dirty = FALSE] /\ disk' = [txt |-> c.txt, newer |-> FALSE]
      BY <2>6, SaveFacts
    <3>2. CASE buf' = c /\ disk' = disk
      BY <2>1, <3>1, <3>2
    <3>3. CASE buf' = [c EXCEPT !.dirty = FALSE] /\ disk' = [txt |-> c.txt, newer |-> FALSE]
      <4>1. Steady(c)
        BY <2>0, <3>1, FollowsSteady
      <4>2. PICK d : d = [c EXCEPT !.dirty = FALSE]
        OBVIOUS
      <4>3. d.txt = c.txt
        BY <4>1, <4>2, SavedFacts
      <4>4. buf'.txt = disk'.txt
        BY <3>3, <4>2, <4>3
      <4> QED
        BY <4>4
    <3> QED
      BY <3>1, <3>2, <3>3
  <2>7. ASSUME ReloadFromDisk PROVE Clean(buf', disk')
    <3>1. buf'.txt = disk.txt
      BY <2>7, ReloadFacts
    <3>2. disk'.txt = disk.txt
      <4>1. disk \in [txt : Seq(Char), newer : BOOLEAN]
        BY DEF SteadyInv
      <4> QED
        BY <2>7, <4>1 DEF ReloadFromDisk
    <3> QED
      BY <3>1, <3>2
  <2>8. ASSUME NEW t \in ExternalTexts, ExternalWrite(t) PROVE Clean(buf', disk')
    <3>1. disk'.newer = TRUE
      BY <2>8 DEF ExternalWrite
    <3> QED
      BY <3>1
  <2>9. ASSUME UNCHANGED vars PROVE Clean(buf', disk')
    BY <2>0, <2>9 DEF vars
  <2> HIDE DEF Clean
  <2> QED
    BY <2>2, <2>3, <2>4, <2>5, <2>6, <2>7, <2>8, <2>9, StepKinds
<1> HIDE DEF Clean, Empty
<1> QED
  BY <1>3, <1>4, InitSteady, NextSteady, PTL DEF Spec

(* The inductive invariant of a user who edits alone.                       *)
AloneInv ==
    UserAlone => Exact(buf, base, ahead) /\ WellDot(buf.dot, Len(buf.txt))

(* It holds at the start, ...                                               *)
LEMMA InitAlone == Init => AloneInv
<1> SUFFICES ASSUME Init PROVE AloneInv
  OBVIOUS
<1>1. PICK t \in ExternalTexts \cup {<<>>} :
        /\ buf = [txt |-> t, dot |-> Cur(0), xdot |-> Cur(0), log |-> EmptyLog,
                  dirty |-> FALSE, isFile |-> scene.isFile, panicked |-> FALSE]
        /\ base = t
        /\ ahead = t
  BY DEF Init
<1>2. Steady(buf) /\ base \in Seq(Char)
  BY InitSteady DEF SteadyInv
<1>3. PICK d, l, p : d = Cur(0) /\ l = EmptyLog /\ p = FALSE
  OBVIOUS
<1>4. buf.txt = t /\ buf.dot = d /\ buf.log = l /\ buf.panicked = p
  BY <1>1, <1>3
<1>5. l.edits = <<>> /\ l.undone = <<>>
  BY <1>3 DEF EmptyLog
<1>6. Calm(buf)
  BY <1>3, <1>4 DEF Calm
<1>7. t \in Seq(Char)
  BY <1>1, <1>2
<1>8. LogChain(t, <<>>, t) /\ RedoChain(t, <<>>, t)
  BY <1>7, LogChainEmpty
<1>9. Exact(buf, base, ahead)
  BY <1>1, <1>2, <1>4, <1>5, <1>6, <1>8 DEF Exact, Steady
<1>10. WellDot(d, Len(t))
  <2>1. PICK a, n : a = 0 /\ n = Len(t)
    OBVIOUS
  <2>2. a \in Nat /\ n \in Nat /\ a <= n /\ d = Cur(a)
    BY <1>3, <1>7, <2>1
  <2> QED
    BY <2>1, <2>2, CurWell
<1> QED
  BY <1>4, <1>9, <1>10 DEF AloneInv

(* ... and after every step, if characters have one byte.                   *)
LEMMA NextAlone ==
  ASSUME OneByte
  PROVE  SteadyInv /\ AloneInv /\ [Next]_vars => AloneInv'
<1> SUFFICES ASSUME SteadyInv, AloneInv, [Next]_vars, UserAlone'
             PROVE  Exact(buf', base', ahead') /\ WellDot(buf'.dot, Len(buf'.txt))
  BY DEF AloneInv
<1>1. scene' = scene
  BY DEF Next, vars, InsertChar, InsertString, Delete, RawChar, RawReturn, Undo, Redo,
         NewEditLogTransaction, SetDot, CollapseDot, SetAddr, SetXAddr, InsertXDot,
         AppendBody, ClearBody, Save, ReloadFromDisk, ExternalWrite, Edited, Moved
<1>2. UserAlone
  BY <1>1 DEF UserAlone
<1>3. Lone /\ Exact(buf, base, ahead) /\ WellDot(buf.dot, Len(buf.txt))
  BY <1>2 DEF AloneInv, Lone
<1>4. ASSUME NEW c, Follows(buf, c), Recorded(buf, c, base),
             ahead' = IF c.log = buf.log THEN ahead ELSE c.txt
      PROVE  Exact(c, base, ahead')
  BY <1>3, <1>4, ExactRecorded
<1>5. ASSUME NEW c, EditStep(c)
      PROVE  Exact(buf', base', ahead') /\ WellDot(buf'.dot, Len(buf'.txt))
  <2>1. /\ Follows(buf, c) /\ Recorded(buf, c, base) /\ WellDot(c.dot, Len(c.txt))
        /\ buf' = c /\ base' = base
        /\ ahead' = IF c.log = buf.log THEN ahead ELSE c.txt
    BY <1>3, <1>5 DEF EditStep
  <2>2. Exact(c, base, ahead')
    BY <1>4, <2>1
  <2> QED
    BY <2>1, <2>2
<1>6. ASSUME Undo PROVE Exact(buf', base', ahead') /\ WellDot(buf'.dot, Len(buf'.txt))
  <2>1. PICK c : c = HandleUndo(buf)
    OBVIOUS
  <2>2. Exact(c, base, ahead) /\ WellDot(c.dot, Len(c.txt))
    BY <1>3, <2>1, HandleUndoExact
  <2>3. buf' = c /\ base' = base /\ ahead' = ahead
    BY <1>6, <2>1 DEF Undo, Moved
  <2> QED
    BY <2>2, <2>3
<1>7. ASSUME Redo PROVE Exact(buf', base', ahead') /\ WellDot(buf'.dot, Len(buf'.txt))
  <2>1. PICK c : c = HandleRedo(buf)
    OBVIOUS
  <2>2. Exact(c, base, ahead) /\ WellDot(c.dot, Len(c.txt))
    BY <1>3, <2>1, HandleRedoExact
  <2>3. buf' = c /\ base' = base /\ ahead' = ahead
    BY <1>7, <2>1 DEF Redo, Moved
  <2> QED
    BY <2>2, <2>3
<1>8. ASSUME NewEditLogTransaction
      PROVE  Exact(buf', base', ahead') /\ WellDot(buf'.dot, Len(buf'.txt))
  <2>1. PICK c : c = [buf EXCEPT !.log = NewTransaction(buf.log)]
    OBVIOUS
  <2>2. Steady(buf)
    BY DEF SteadyInv
  <2>3. Exact(c, base, ahead) /\ c.dot = buf.dot /\ c.txt = buf.txt
    BY <1>3, <2>1, <2>2, NewTransactionStep
  <2>4. buf' = c /\ base' = base /\ ahead' = ahead
    BY <1>8, <2>1 DEF NewEditLogTransaction, Moved
  <2> QED
    BY <1>3, <2>3, <2>4
<1>9. ASSUME NEW force \in BOOLEAN, NEW fails \in BOOLEAN, Save(force, fails)
      PROVE  Exact(buf', base', ahead') /\ WellDot(buf'.dot, Len(buf'.txt))
  <2>1. PICK c : /\ Follows(buf, c)
                 /\ Lone => Recorded(buf, c, base) /\ WellDot(c.dot, Len(c.txt))
                 /\ ahead' = IF c.log = buf.log THEN ahead ELSE c.txt
                 /\ base' = base
                 /\ buf' = c \/ buf' = [c EXCEPT !.dirty = FALSE]
    BY <1>9, SaveFacts
  <2>2. Exact(c, base, ahead') /\ WellDot(c.dot, Len(c.txt))
    BY <1>3, <1>4, <2>1
  <2>3. Steady(c)
    BY <2>2 DEF Exact, Steady
  <2>4. PICK d : d = [c EXCEPT !.dirty = FALSE]
    OBVIOUS
  <2>5. d.dot = c.dot /\ d.txt = c.txt /\ Exact(d, base, ahead')
    BY <2>2, <2>3, <2>4, SavedFacts
  <2> QED
    BY <2>1, <2>2, <2>4, <2>5
<1>10. ~ReloadFromDisk
  BY <1>2 DEF ReloadFromDisk, UserAlone
<1>11. ASSUME NEW t \in ExternalTexts, ExternalWrite(t)
       PROVE  Exact(buf', base', ahead') /\ WellDot(buf'.dot, Len(buf'.txt))
  BY <1>3, <1>11 DEF ExternalWrite
<1>12. ASSUME UNCHANGED vars
       PROVE  Exact(buf', base', ahead') /\ WellDot(buf'.dot, Len(buf'.txt))
  BY <1>3, <1>12 DEF vars
<1> QED
  BY <1>5, <1>6, <1>7, <1>8, <1>9, <1>10, <1>11, <1>12, StepKinds

(* While the user edits alone, and each character is encoded in one byte,   *)
(* undoing everything gives back the text the buffer was loaded with, and   *)
(* redoing what was undone the text before, however the edits were merged   *)
(* and grouped (EditLog::push, try_extend, undo, redo, Buffer::apply_edit). *)
THEOREM UndoIsExact ==
  ASSUME OneByte
  PROVE  Spec => []UndoRedoExact
<1>1. AloneInv => UndoRedoExact
  <2> SUFFICES ASSUME AloneInv PROVE UndoRedoExact
    OBVIOUS
  <2>1. ASSUME UserAlone PROVE Unwound(buf).txt = base /\ Rewound(buf).txt = ahead
    <3>1. Exact(buf, base, ahead)
      BY <2>1 DEF AloneInv
    <3> QED
      BY <3>1, UnwoundText, RewoundText
  <2> QED
    BY <2>1 DEF UndoRedoExact, Unwinds, Rewinds, RewindsAlways
<1>2. SteadyInv /\ AloneInv /\ [Next]_vars => AloneInv'
  BY NextAlone
<1> QED
  BY <1>1, <1>2, InitSteady, InitAlone, NextSteady, PTL DEF Spec

(* Then, too, no handler edits outside of the text, and the selection is    *)
(* inside of it after each of them.                                         *)
THEOREM BufferFits ==
  ASSUME OneByte
  PROVE  Spec => []BufferInv
<1>1. SteadyInv /\ AloneInv => BufferInv
  <2> SUFFICES ASSUME SteadyInv, AloneInv PROVE BufferInv
    OBVIOUS
  <2>1. TypeOK /\ UndoneNonEmpty
    BY SteadyIs
  <2>2. ASSUME UserAlone PROVE InBounds(buf.dot, Len(buf.txt)) /\ ~buf.panicked
    BY <2>2 DEF AloneInv, Exact, Calm, WellDot, InBounds
  <2> QED
    BY <2>1, <2>2 DEF BufferInv, DotInBounds, DotInText, NeverPanics
<1>2. SteadyInv /\ AloneInv /\ [Next]_vars => AloneInv'
  BY NextAlone
<1> QED
  BY <1>1, <1>2, InitSteady, InitAlone, NextSteady, PTL DEF Spec
=============================================================================
