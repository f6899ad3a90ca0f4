-------------------------- MODULE ReplWindowProofs --------------------------
(***************************************************************************)
(* Proofs about ReplWindow, for a transcript and an edit line of any size, *)
(* any keys at any moments and any output: no index leaves its buffer, the *)
(* ring holds the last rows of what was written, the screen shows it, and  *)
(* the reader gets what was entered.                                       *)
(***************************************************************************)
EXTENDS ReplWindow, SequenceTheorems, TLAPS

-----------------------------------------------------------------------------
(* The ring.                                                               *)

LEMMA Sizes == Rows \in Nat /\ Rows >= 1 /\ Columns \in Nat /\ Columns >= 1
               /\ TranscriptRows \in Nat /\ TranscriptRows >= 1 /\ TranscriptRows <= Rows
               /\ InputBufferSize \in Nat /\ InputBufferSize >= 1
               /\ MaxKeys \in Nat /\ MaxPrints \in Nat
BY SizesAssumption

\* An index that is less than twice the size of the ring wraps once.
LEMMA WrapsOnce ==
  ASSUME NEW x \in Int
  PROVE  /\ x \in 0 .. Rows - 1 => x % Rows = x
         /\ x \in Rows .. 2 * Rows - 1 => x % Rows = x - Rows
<1>1. Rows \in Nat /\ Rows >= 1
  BY Sizes
<1>2. QED
  BY <1>1, Z3

\* The row that follows the current one.
LEMMA NextRow ==
  ASSUME TypeOK
  PROVE  (currentRow + 1) % Rows = IF currentRow + 1 = Rows THEN 0 ELSE currentRow + 1
<1>1. currentRow \in Nat /\ currentRow < Rows /\ Rows \in Nat
  BY Sizes DEF TypeOK
<1>2. currentRow + 1 \in Int
  BY <1>1
<1>3. CASE currentRow + 1 = Rows
  BY <1>1, <1>2, <1>3, WrapsOnce
<1>4. CASE currentRow + 1 # Rows
  BY <1>1, <1>2, <1>4, WrapsOnce
<1>5. QED
  BY <1>3, <1>4

\* Counted from its first row or from its current one, a ring has the same rows.
LEMMA PlaceByAge ==
  ASSUME TypeOK, RingByAge, NEW l \in 0 .. count - 1
  PROVE  PhysicalForLogical(l) = Back(count - 1 - l)
<1>1. /\ currentRow \in Nat /\ currentRow < Rows /\ Rows \in Nat /\ Rows >= 1
      /\ count \in Nat /\ count >= 1 /\ count <= Rows /\ l \in Nat /\ l < count
      /\ count < Rows => currentRow = count - 1
  BY Sizes DEF TypeOK, RingByAge
<1>2. CASE count < Rows
  <2>1. FirstRow = 0
    BY <1>2 DEF FirstRow
  <2>2. (0 + l) % Rows = l
    <3>1. 0 + l \in Int /\ 0 + l \in 0 .. Rows - 1
      BY <1>1
    <3>2. (0 + l) % Rows = 0 + l
      BY <3>1, WrapsOnce
    <3>3. QED
      BY <1>1, <3>2
  <2>3. Back(count - 1 - l) = l
    BY <1>1, <1>2 DEF Back
  <2>4. QED
    BY <2>1, <2>2, <2>3 DEF PhysicalForLogical
<1>3. CASE ~(count < Rows)
  <2>1. FirstRow = IF currentRow + 1 = Rows THEN 0 ELSE currentRow + 1
    BY <1>3, NextRow DEF FirstRow
  <2> DEFINE f == FirstRow
  <2>2. f + l \in Int /\ f \in Nat /\ f < Rows
    BY <1>1, <2>1
  <2>3. CASE f + l < Rows
    <3>1. (f + l) % Rows = f + l
      BY <1>1, <2>2, <2>3, WrapsOnce
    <3>2. Back(count - 1 - l) = f + l
      BY <1>1, <1>3, <2>1, <2>3 DEF Back
    <3>3. QED
      BY <3>1, <3>2 DEF PhysicalForLogical
  <2>4. CASE ~(f + l < Rows)
    <3>1. (f + l) % Rows = f + l - Rows
      BY <1>1, <2>2, <2>4, WrapsOnce
    <3>2. Back(count - 1 - l) = f + l - Rows
      BY <1>1, <1>3, <2>1, <2>4 DEF Back
    <3>3. QED
      BY <3>1, <3>2 DEF PhysicalForLogical
  <2>5. QED
    BY <2>3, <2>4
<1>4. QED
  BY <1>2, <1>3

LEMMA RingFromAge ==
  ASSUME TypeOK, Recorded, RingByAge
  PROVE  RingHolds
<1>1. /\ count \in Nat /\ Len(paper) \in Nat /\ count <= Len(paper)
  BY Sizes DEF TypeOK, Recorded, RingByAge
<1>2. ASSUME NEW l \in 0 .. count - 1
      PROVE  rows[PhysicalForLogical(l)] = paper[Len(paper) - count + l + 1]
  <2>1. count - 1 - l \in 0 .. count - 1
    BY <1>1
  <2>2. rows[Back(count - 1 - l)] = paper[Len(paper) - (count - 1 - l)]
    BY <2>1 DEF RingByAge
  <2>3. Len(paper) - (count - 1 - l) = Len(paper) - count + l + 1
    BY <1>1
  <2>4. QED
    BY <2>2, <2>3, PlaceByAge
<1>3. QED
  BY <1>1, <1>2 DEF RingHolds

\* A character at the end of the current row.
LEMMA PutKeepsRing ==
  ASSUME TypeOK, Recorded, RingByAge, NEW r \in Seq(Chars),
         rows' = [rows EXCEPT ![currentRow] = r], paper' = [paper EXCEPT ![Len(paper)] = r],
         UNCHANGED <<currentRow, count>>
  PROVE  RingByAge' /\ paper' \in Seq(Seq(Chars))
<1>1. /\ currentRow \in Nat /\ currentRow < Rows /\ Rows \in Nat /\ Rows >= 1
      /\ count \in Nat /\ count >= 1 /\ count <= Rows
      /\ DOMAIN rows = 0 .. Rows - 1 /\ currentRow \in DOMAIN rows
  BY Sizes DEF TypeOK
<1>2. /\ paper \in Seq(Seq(Chars)) /\ Len(paper) \in Nat /\ Len(paper) >= 1
      /\ Len(paper) \in 1 .. Len(paper) /\ count <= Len(paper)
  BY <1>1 DEF Recorded, RingByAge
<1>3. /\ paper' \in Seq(Seq(Chars)) /\ Len(paper') = Len(paper) /\ paper'[Len(paper)] = r
      /\ \A k \in 1 .. Len(paper) : k # Len(paper) => paper'[k] = paper[k]
  BY <1>2, ExceptSeq
<1>4. ASSUME NEW d \in 0 .. count - 1
      PROVE  rows'[Back(d)] = paper'[Len(paper) - d]
  <2>1. CASE d = 0
    <3>1. Back(d) = currentRow /\ Len(paper) - d = Len(paper)
      BY <1>1, <1>2, <2>1 DEF Back
    <3>2. rows'[currentRow] = r
      BY <1>1
    <3>3. QED
      BY <1>3, <3>1, <3>2
  <2>2. CASE d # 0
    <3>1. Back(d) \in DOMAIN rows /\ Back(d) # currentRow
      BY <1>1, <2>2 DEF Back
    <3>2. Len(paper) - d \in 1 .. Len(paper) /\ Len(paper) - d # Len(paper)
      BY <1>1, <1>2, <2>2
    <3>3. rows[Back(d)] = paper[Len(paper) - d]
      BY DEF RingByAge
    <3>4. QED
      BY <1>3, <3>1, <3>2, <3>3
  <2>3. QED
    BY <2>1, <2>2
<1>5. \A d : Back(d)' = Back(d)
  BY DEF Back
<1>6. QED
  BY <1>1, <1>2, <1>3, <1>4, <1>5 DEF RingByAge

LEMMA OneMoreRow ==
  ASSUME NEW p \in Seq(Seq(Chars))
  PROVE  /\ Append(p, << >>) \in Seq(Seq(Chars)) /\ Len(Append(p, << >>)) = Len(p) + 1
         /\ Append(p, << >>)[Len(p) + 1] = << >>
         /\ \A k \in 1 .. Len(p) : Append(p, << >>)[k] = p[k]
<1>1. << >> \in Seq(Chars)
  OBVIOUS
<1>2. QED
  BY <1>1, AppendProperties

\* A row that is begun: the one before it stays as it is, or with the character that
\* filled it.
LEMMA AdvanceKeepsRing ==
  ASSUME TypeOK, Recorded, RingByAge, NEW r \in Seq(Chars), NEW p \in Seq(Seq(Chars)), Advance,
         rows' = [[rows EXCEPT ![currentRow] = r] EXCEPT ![(currentRow + 1) % Rows] = << >>],
         p = [paper EXCEPT ![Len(paper)] = r], paper' = Append(p, << >>)
  PROVE  RingByAge' /\ paper' \in Seq(Seq(Chars))
<1>1. /\ currentRow \in Nat /\ currentRow < Rows /\ Rows \in Nat /\ Rows >= 1
      /\ count \in Nat /\ count >= 1 /\ count <= Rows
      /\ DOMAIN rows = 0 .. Rows - 1 /\ currentRow \in DOMAIN rows
      /\ count < Rows => currentRow = count - 1
  BY Sizes DEF TypeOK, RingByAge
<1>2. /\ paper \in Seq(Seq(Chars)) /\ Len(paper) \in Nat /\ Len(paper) >= 1
      /\ Len(paper) \in 1 .. Len(paper) /\ count <= Len(paper)
  BY <1>1 DEF Recorded, RingByAge
<1>3. /\ Len(p) = Len(paper) /\ p[Len(paper)] = r
      /\ \A k \in 1 .. Len(paper) : k # Len(paper) => p[k] = paper[k]
  BY <1>2, ExceptSeq
<1>5. /\ paper' \in Seq(Seq(Chars)) /\ Len(paper') = Len(paper) + 1
      /\ paper'[Len(paper) + 1] = << >> /\ paper'[Len(paper)] = r
      /\ \A k \in 1 .. Len(paper) : k # Len(paper) => paper'[k] = paper[k]
  BY <1>2, <1>3, OneMoreRow
<1>6. currentRow' = IF currentRow + 1 = Rows THEN 0 ELSE currentRow + 1
  BY NextRow DEF Advance
<1>7. count' = IF count < Rows THEN count + 1 ELSE count
  BY DEF Advance
<1>8. /\ rows'[currentRow'] = << >> /\ (currentRow' # currentRow => rows'[currentRow] = r)
      /\ \A k \in DOMAIN rows : k # currentRow /\ k # currentRow' => rows'[k] = rows[k]
  BY <1>1, <1>6, NextRow
<1>9. ASSUME NEW d \in 0 .. count' - 1
      PROVE  rows'[Back(d)'] = paper'[Len(paper') - d]
  <2>1. d \in Nat /\ d < count' /\ count' <= Rows /\ d < Rows
    BY <1>1, <1>7
  <2>2. CASE d = 0
    <3>1. Back(d)' = currentRow' /\ Len(paper') - d = Len(paper) + 1
      BY <1>1, <1>2, <1>5, <1>6, <2>2 DEF Back
    <3>2. QED
      BY <1>5, <1>8, <3>1
  <2>3. CASE d # 0
    <3>1. d - 1 \in 0 .. count - 1 /\ d - 1 \in Nat
      BY <1>1, <1>7, <2>1, <2>3
    <3>2. Back(d)' = Back(d - 1)
      BY <1>1, <1>6, <2>1, <2>3 DEF Back
    <3>3. Back(d - 1) \in DOMAIN rows /\ Back(d - 1) # currentRow'
      BY <1>1, <1>6, <2>1, <2>3 DEF Back
    <3>4. CASE d = 1
      <4>1. Back(d - 1) = currentRow /\ Len(paper') - d = Len(paper)
        BY <1>1, <1>2, <1>5, <3>4 DEF Back
      <4>2. QED
        BY <1>5, <1>8, <3>2, <3>3, <4>1
    <3>5. CASE d # 1
      <4>1. Back(d - 1) # currentRow
        BY <1>1, <2>1, <2>3, <3>5 DEF Back
      <4>2. rows[Back(d - 1)] = paper[Len(paper) - (d - 1)]
        BY <3>1 DEF RingByAge
      <4>3. /\ Len(paper') - d = Len(paper) - (d - 1)
            /\ Len(paper) - (d - 1) \in 1 .. Len(paper)
            /\ Len(paper) - (d - 1) # Len(paper)
        BY <1>1, <1>2, <1>5, <1>7, <2>1, <2>3, <3>5
      <4>4. QED
        BY <1>5, <1>8, <3>2, <3>3, <4>1, <4>2, <4>3
    <3>6. QED
      BY <3>4, <3>5
  <2>4. QED
    BY <2>2, <2>3
<1>10. count' < Rows => currentRow' = count' - 1
  BY <1>1, <1>6, <1>7
<1>11. count' <= Len(paper')
  BY <1>1, <1>2, <1>5, <1>7
<1>12. QED
  BY <1>5, <1>9, <1>10, <1>11 DEF RingByAge

-----------------------------------------------------------------------------
(* What a step leaves alone, it leaves as it was.                          *)

LEMMA RingStays ==
  ASSUME RingByAge, UNCHANGED ring
  PROVE  RingByAge'
BY DEF RingByAge, ring, Back

\* What the renderer composes is a matter of the transcript, the view and the line.
LEMMA ViewStays ==
  ASSUME UNCHANGED <<ring, view, text, cursor>>
  PROVE  View' = View
BY DEF View, ring, view, PhysicalForLogical, FirstRow

LEMMA TranscriptStays ==
  ASSUME UNCHANGED <<ring, view>>
  PROVE  View'.transcript = View.transcript
BY DEF View, ring, view, PhysicalForLogical, FirstRow

LEMMA OwedStays ==
  ASSUME OwedIsLine, UNCHANGED <<text, committed, readPos, owed, misread>>, ahead => ahead'
  PROVE  OwedIsLine'
BY DEF OwedIsLine

\* The last row to scroll to grows with the rows.
LEMMA TailGrows ==
  ASSUME NEW m \in Nat, NEW n \in Nat, m <= n
  PROVE  Tail_(m) \in Nat /\ Tail_(n) \in Nat /\ Tail_(m) <= Tail_(n)
BY Sizes DEF Tail_

-----------------------------------------------------------------------------
(* The transcript.                                                         *)

LEMMA AppendRing ==
  ASSUME IInv, BackBufferAppend
  PROVE  RingByAge' /\ Recorded'
<1> DEFINE c == Head(out)
           row == rows[currentRow]
           r == Append(row, c)
           next == (currentRow + 1) % Rows
<1>1. /\ out \in Seq(Chars \union {nl}) /\ out # << >> /\ c \in Chars \union {nl}
      /\ currentRow \in DOMAIN rows /\ row \in Seq(Chars) /\ UNCHANGED owed
      /\ rows \in [0 .. Rows - 1 -> Seq(Chars)]
  BY HeadTailProperties DEF BackBufferAppend, IInv, TypeOK, due
<1>2. /\ paper \in Seq(Seq(Chars)) /\ Len(paper) \in 1 .. Len(paper) /\ Len(paper) \in Nat
      /\ paper[Len(paper)] = row
  <2>1. /\ paper \in Seq(Seq(Chars)) /\ count \in Nat /\ count >= 1 /\ count <= Len(paper)
        /\ Len(paper) \in Nat
    BY Sizes DEF IInv, Recorded, RingByAge, TypeOK
  <2>2. 0 \in 0 .. count - 1 /\ Len(paper) - 0 = Len(paper)
    BY <2>1
  <2>3. rows[Back(0)] = paper[Len(paper)]
    BY <2>2 DEF IInv, RingByAge
  <2>4. Back(0) = currentRow
    BY Sizes DEF Back, IInv, TypeOK
  <2>5. QED
    BY <2>1, <2>3, <2>4
<1>3. CASE c # nl
  <2>1. r \in Seq(Chars)
    BY <1>1, <1>3, AppendProperties
  <2>2. Written(c) = [paper EXCEPT ![Len(paper)] = r]
    BY <1>2, <1>3 DEF Written
  <2>3. CASE ~Wraps(c)
    <3>1. /\ rows' = [rows EXCEPT ![currentRow] = r] /\ UNCHANGED <<currentRow, count>>
          /\ paper' = [paper EXCEPT ![Len(paper)] = r]
      BY <1>1, <1>3, <2>2, <2>3 DEF BackBufferAppend, Put
    <3>2. QED
      BY <1>1, <2>1, <3>1, PutKeepsRing DEF IInv, Recorded
  <2>4. CASE Wraps(c)
    <3> DEFINE p == [paper EXCEPT ![Len(paper)] = r]
    <3>1. /\ rows' = [[rows EXCEPT ![currentRow] = r] EXCEPT ![next] = << >>]
          /\ Advance /\ paper' = Append(p, << >>)
      BY <1>1, <1>3, <2>2, <2>4 DEF BackBufferAppend
    <3>2. p \in Seq(Seq(Chars))
      BY <1>2, <2>1, ExceptSeq
    <3>3. QED
      BY <1>1, <2>1, <3>1, <3>2, AdvanceKeepsRing DEF IInv, Recorded
  <2>5. QED
    BY <2>3, <2>4
<1>4. CASE c = nl
  <2>1. /\ rows' = [rows EXCEPT ![next] = << >>] /\ Advance /\ paper' = Append(paper, << >>)
    BY <1>4 DEF BackBufferAppend, Cleared
  <2>2. rows = [rows EXCEPT ![currentRow] = row]
    BY <1>1
  <2>3. paper = [paper EXCEPT ![Len(paper)] = row]
    BY <1>2
  <2>4. rows' = [[rows EXCEPT ![currentRow] = row] EXCEPT ![next] = << >>]
    BY <2>1, <2>2
  <2>5. QED
    BY <1>1, <1>2, <2>1, <2>3, <2>4, AdvanceKeepsRing DEF IInv, Recorded
<1>5. QED
  BY <1>3, <1>4

\* No row grows past the width of the window, and the rows are counted up to Rows.
LEMMA AppendType ==
  ASSUME IInv, BackBufferAppend
  PROVE  TypeOK' /\ FollowsTail'
<1> DEFINE c == Head(out)
           next == (currentRow + 1) % Rows
<1>1. /\ out \in Seq(Chars \union {nl}) /\ out # << >> /\ c \in Chars \union {nl}
      /\ out' \in Seq(Chars \union {nl})
      /\ currentRow \in 0 .. Rows - 1 /\ rows \in [0 .. Rows - 1 -> Seq(Chars)]
      /\ \A r \in 0 .. Rows - 1 : Len(rows[r]) <= Columns /\ Len(rows[r]) \in Nat
      /\ Len(rows[currentRow]) < Columns /\ count \in 1 .. Rows
  BY HeadTailProperties DEF BackBufferAppend, IInv, TypeOK
<1>2. next \in 0 .. Rows - 1
  BY <1>1, NextRow, Sizes DEF IInv
<1>3. << >> \in Seq(Chars) /\ Len(<< >>) = 0
  OBVIOUS
<1>4. /\ rows' \in [0 .. Rows - 1 -> Seq(Chars)]
      /\ \A r \in 0 .. Rows - 1 : Len(rows'[r]) <= Columns
      /\ currentRow' \in 0 .. Rows - 1 /\ Len(rows'[currentRow']) < Columns
      /\ count' \in 1 .. Rows /\ count <= count'
  <2> DEFINE r == Append(rows[currentRow], c)
  <2>1. CASE c # nl /\ ~Wraps(c)
    <3>1. rows' = [rows EXCEPT ![currentRow] = r] /\ UNCHANGED <<currentRow, count>>
      BY <1>1, <2>1 DEF BackBufferAppend, Put
    <3>2. r \in Seq(Chars) /\ Len(r) = Len(rows[currentRow]) + 1
      BY <1>1, <2>1, AppendProperties
    <3>3. Len(r) < Columns
      BY <1>1, <2>1, <3>2, Sizes DEF Wraps
    <3> HIDE DEF r
    <3>4. QED
      BY <1>1, <3>1, <3>2, <3>3, Sizes
  <2>2. CASE c # nl /\ Wraps(c)
    <3>1. /\ rows' = [rows EXCEPT ![currentRow] = r, ![next] = << >>]
          /\ currentRow' = next /\ count' = IF count < Rows THEN count + 1 ELSE count
      BY <1>1, <2>2 DEF BackBufferAppend, Advance
    <3>2. r \in Seq(Chars) /\ Len(r) = Len(rows[currentRow]) + 1
      BY <1>1, <2>2, AppendProperties
    <3>3. Len(r) <= Columns
      BY <1>1, <3>2, Sizes
    <3> HIDE DEF r, next
    <3>4. /\ rows' \in [0 .. Rows - 1 -> Seq(Chars)] /\ rows'[next] = << >>
          /\ \A k \in 0 .. Rows - 1 : rows'[k] \in {<< >>, r, rows[k]}
      BY <1>1, <1>2, <1>3, <3>1, <3>2
    <3>5. ASSUME NEW k \in 0 .. Rows - 1
          PROVE  Len(rows'[k]) <= Columns
      <4>1. CASE rows'[k] = << >>
        BY <1>3, <4>1, Sizes
      <4>2. CASE rows'[k] = r
        BY <3>3, <4>2
      <4>3. CASE rows'[k] = rows[k]
        BY <1>1, <4>3
      <4>4. QED
        BY <3>4, <4>1, <4>2, <4>3
    <3>6. currentRow' \in 0 .. Rows - 1 /\ Len(rows'[currentRow']) < Columns
      BY <1>2, <1>3, <3>1, <3>4, Sizes
    <3>7. count' \in 1 .. Rows /\ count <= count'
      BY <1>1, <3>1, Sizes
    <3>8. QED
      BY <3>4, <3>5, <3>6, <3>7
  <2>3. CASE c = nl
    <3>1. /\ rows' = [rows EXCEPT ![next] = << >>]
          /\ currentRow' = next /\ count' = IF count < Rows THEN count + 1 ELSE count
      BY <1>1, <2>3 DEF BackBufferAppend, Advance, Cleared
    <3> HIDE DEF next
    <3>2. QED
      BY <1>1, <1>2, <1>3, <3>1, Sizes
  <2>4. QED
    BY <2>1, <2>2, <2>3
<1>5. /\ followTail \in BOOLEAN /\ followTail' = followTail
      /\ viewportStart' = IF followTail THEN Tail_(count') ELSE viewportStart
      /\ viewportStart \in 0 .. Tail_(count)
  BY DEF BackBufferAppend, IInv, TypeOK
<1>6. viewportStart' \in 0 .. Tail_(count')
  <2>1. Tail_(count) \in Nat /\ Tail_(count') \in Nat /\ Tail_(count) <= Tail_(count')
    <3>1. count \in Nat /\ count' \in Nat /\ count <= count'
      BY <1>1, <1>4, Sizes
    <3>2. QED
      BY <3>1, TailGrows
  <2>2. QED
    BY <1>5, <2>1
<1>7. FollowsTail'
  BY <1>5 DEF FollowsTail, Tail_
<1>8. /\ uiDirty' \in BOOLEAN
      /\ UNCHANGED <<edit, screen, keys, mode, reader, flags, newline, due, bounds>>
  BY DEF BackBufferAppend
<1>9. QED
  BY <1>1, <1>4, <1>5, <1>6, <1>7, <1>8
  DEF IInv, TypeOK, edit, screen, reader, flags, due, bounds

LEMMA AppendStep ==
  ASSUME IInv, BackBufferAppend
  PROVE  IInv'
<1>1. /\ uiDirty' = TRUE
      /\ UNCHANGED <<text, committed, readPos, owed, misread, ahead>>
  BY DEF BackBufferAppend, edit, due
<1>2. OwedIsLine'
  BY <1>1, OwedStays DEF IInv
<1>3. DrawnSound'
  BY <1>1 DEF DrawnSound
<1>4. QED
  BY <1>2, <1>3, AppendType, AppendRing DEF IInv

-----------------------------------------------------------------------------
(* Keys.                                                                   *)

LEMMA StandsStill ==
  ASSUME IInv, UNCHANGED <<ring, view, edit, owed, misread>>, ahead => ahead'
  PROVE  Recorded' /\ RingByAge' /\ FollowsTail' /\ OwedIsLine'
<1>1. RingByAge'
  BY RingStays DEF IInv
<1>2. OwedIsLine'
  BY OwedStays DEF IInv, edit
<1>3. Recorded' /\ FollowsTail'
  BY DEF IInv, Recorded, FollowsTail, ring, view, Tail_
<1>4. QED
  BY <1>1, <1>2, <1>3

\* What is on the screen stays as good as it was while nothing of the window changes.
LEMMA DrawnStays ==
  ASSUME IInv, UNCHANGED <<ring, view, text, cursor, drawn>>,
         uiDirty => uiDirty', muted => muted',
         committed' => committed \/ uiDirty' \/ muted' \/ out' # << >>,
         out # << >> => uiDirty' \/ muted' \/ out' # << >>
  PROVE  DrawnSound'
<1>1. View' = View
  BY ViewStays
<1>2. QED
  BY <1>1 DEF IInv, DrawnSound

\* Keys that change nothing but flags, and a key that is pressed.
LEMMA PressStep ==
  ASSUME IInv, NEW k \in Keys, Press(k)
  PROVE  IInv'
<1>1. Recorded' /\ RingByAge' /\ FollowsTail' /\ OwedIsLine'
  BY StandsStill DEF Press, due
<1>2. DrawnSound'
  BY DrawnStays DEF Press, edit, screen
<1>3. keys' \in Seq(Keys) /\ pressed' \in 0 .. MaxKeys
  <2>1. keys' \in Seq(Keys)
    BY AppendProperties DEF Press, IInv, TypeOK
  <2>2. pressed \in 0 .. MaxKeys /\ pressed < MaxKeys /\ pressed' = pressed + 1
    BY DEF Press, IInv, TypeOK
  <2>3. QED
    BY <2>1, <2>2, Sizes
<1>4. TypeOK'
  BY <1>3 DEF Press, IInv, TypeOK, ring, view, edit, screen, reader, flags, due, bounds, Tail_
<1>5. QED
  BY <1>1, <1>2, <1>4 DEF IInv

LEMMA TakeType ==
  ASSUME TypeOK, NEW k, Take(k)
  PROVE  keys' \in Seq(Keys) /\ mode' = "line" /\ out = << >>
BY HeadTailProperties DEF Take, Reading, TypeOK

LEMMA QuietKeyStep ==
  ASSUME IInv, KeyEsc \/ KeyUnknown \/ NoKey \/ ClearNoEcho
  PROVE  IInv'
<1>1. UNCHANGED <<ring, view, edit, owed, misread, ahead, drawn, muted>> /\ out = << >>
      /\ (uiDirty => uiDirty')
  BY DEF KeyEsc, KeyUnknown, NoKey, ClearNoEcho, Take, Reading, screen, due
<1>2. Recorded' /\ RingByAge' /\ FollowsTail' /\ OwedIsLine'
  BY <1>1, StandsStill
<1>3. DrawnSound'
  <2>1. UNCHANGED <<text, cursor, committed>>
    BY <1>1 DEF edit
  <2>2. QED
    BY <1>1, <2>1, DrawnStays
<1>4. keys' \in Seq(Keys)
  BY TakeType DEF KeyEsc, KeyUnknown, NoKey, ClearNoEcho, IInv, TypeOK
<1>5. out' \in Seq(Chars \union {nl})
  <2>1. <<"[", "?", "]">> \in Seq(Chars \union {nl})
    BY DEF Chars
  <2>2. out \in Seq(Chars \union {nl})
    BY DEF IInv, TypeOK
  <2>3. QED
    BY <2>1, <2>2 DEF KeyEsc, KeyUnknown, NoKey, ClearNoEcho
<1>6. mode' \in {"key", "line"} /\ ESCAPE' \in BOOLEAN /\ NOECHO' \in BOOLEAN /\ uiDirty' \in BOOLEAN
  BY DEF KeyEsc, KeyUnknown, NoKey, ClearNoEcho, IInv, TypeOK, Take, flags, Reading
<1>7. UNCHANGED <<reader, newline, bounds>>
  BY DEF KeyEsc, KeyUnknown, NoKey, ClearNoEcho, Take
<1>8. TypeOK'
  BY <1>1, <1>4, <1>5, <1>6, <1>7
  DEF IInv, TypeOK, ring, view, edit, reader, bounds, Tail_
<1>9. QED
  BY <1>2, <1>3, <1>8 DEF IInv

\* Scrolling stops at both ends.
LEMMA ScrollStep ==
  ASSUME IInv, KeyUp \/ KeyDown
  PROVE  IInv'
<1>1. UNCHANGED <<ring, edit, owed, misread, ahead, drawn, muted, out>> /\ uiDirty' = TRUE
  BY DEF KeyUp, KeyDown, Take, screen
<1>2. /\ viewportStart \in 0 .. Tail_(count) /\ count \in Nat /\ Tail_(count) \in Nat
      /\ followTail \in BOOLEAN /\ FollowsTail
  BY TailGrows, Sizes DEF IInv, TypeOK
<1>3. viewportStart' \in 0 .. Tail_(count') /\ followTail' \in BOOLEAN /\ FollowsTail'
  <2>1. Tail_(count') = Tail_(count) /\ count' = count
    BY <1>1 DEF ring
  <2>2. CASE KeyUp /\ viewportStart > 0
    <3>1. viewportStart' = viewportStart - 1 /\ followTail' = FALSE
      BY <2>2 DEF KeyUp, Scrolled
    <3>2. viewportStart - 1 \in 0 .. Tail_(count)
      BY <1>2, <2>2
    <3>3. QED
      BY <2>1, <3>1, <3>2 DEF FollowsTail
  <2>3. CASE UNCHANGED view
    BY <1>2, <2>1, <2>3 DEF view, FollowsTail
  <2>4. CASE KeyDown /\ MoreBelow
    <3>1. viewportStart' = viewportStart + 1 /\ followTail' = followTail
      BY <2>4 DEF KeyDown
    <3>2. viewportStart + 1 <= Tail_(count)
      BY <1>2, <2>4, Sizes DEF MoreBelow, Tail_
    <3>3. viewportStart' \in 0 .. Tail_(count)
      BY <1>2, <3>1, <3>2
    <3>4. viewportStart # Tail_(count)
      BY <1>2, <3>2
    <3>5. ~followTail
      BY <1>2, <3>4 DEF FollowsTail
    <3>6. QED
      BY <1>2, <2>1, <3>1, <3>3, <3>5 DEF FollowsTail
  <2>5. CASE KeyDown /\ ~MoreBelow
    <3>1. viewportStart' = Tail_(count) /\ followTail' = TRUE
      BY <2>5 DEF KeyDown
    <3>2. Tail_(count) \in 0 .. Tail_(count)
      BY <1>2
    <3>3. QED
      BY <2>1, <3>1, <3>2 DEF FollowsTail
  <2>6. QED
    BY <2>2, <2>3, <2>4, <2>5 DEF KeyUp
<1>4. RingByAge' /\ Recorded' /\ OwedIsLine' /\ DrawnSound'
  BY <1>1, RingStays, OwedStays DEF IInv, Recorded, DrawnSound, ring, edit
<1>5. keys' \in Seq(Keys) /\ mode' = "line"
  BY TakeType DEF KeyUp, KeyDown, IInv
<1>6. UNCHANGED <<reader, ESCAPE, NOECHO, newline, bounds>>
  BY DEF KeyUp, KeyDown, Take
<1>7. TypeOK'
  BY <1>1, <1>3, <1>5, <1>6 DEF IInv, TypeOK, ring, edit, reader, bounds
<1>8. QED
  BY <1>3, <1>4, <1>7 DEF IInv

-----------------------------------------------------------------------------
(* The edit line.                                                          *)

LEMMA LineType ==
  ASSUME TypeOK
  PROVE  /\ text \in Seq(Printable) /\ Len(text) \in Nat /\ Len(text) < InputBufferSize
         /\ cursor \in 0 .. Len(text) /\ cursor \in Nat /\ cursor <= Len(text)
BY Sizes DEF TypeOK

\* A line without its nth character.
LEMMA WithoutOne ==
  ASSUME TypeOK, NEW n \in 1 .. Len(text)
  PROVE  Without(n) \in Seq(Printable) /\ Len(Without(n)) = Len(text) - 1
<1>1. text \in Seq(Printable) /\ Len(text) \in Nat /\ n \in Nat /\ 1 <= n /\ n <= Len(text)
  BY LineType
<1>2. SubSeq(text, 1, n - 1) \in Seq(Printable) /\ Len(SubSeq(text, 1, n - 1)) = n - 1
  BY <1>1, SubSeqProperties
<1>3. /\ SubSeq(text, n + 1, Len(text)) \in Seq(Printable)
      /\ Len(SubSeq(text, n + 1, Len(text))) = Len(text) - n
  BY <1>1, SubSeqProperties
<1> DEFINE a == SubSeq(text, 1, n - 1)
           b == SubSeq(text, n + 1, Len(text))
<1> HIDE DEF a, b
<1>4. a \in Seq(Printable) /\ b \in Seq(Printable) /\ Len(a) = n - 1 /\ Len(b) = Len(text) - n
  BY <1>2, <1>3 DEF a, b
<1>5. a \o b \in Seq(Printable) /\ Len(a \o b) = Len(a) + Len(b)
  BY <1>4, ConcatProperties
<1>6. Len(a) + Len(b) = Len(text) - 1
  BY <1>1, <1>4
<1>7. QED
  BY <1>5, <1>6 DEF a, b, Without

\* A line with one more, at the cursor.
LEMMA WithOne ==
  ASSUME TypeOK, NEW c \in Printable
  PROVE  LET s == SubSeq(text, 1, cursor) \o <<c>> \o SubSeq(text, cursor + 1, Len(text))
         IN  s \in Seq(Printable) /\ Len(s) = Len(text) + 1
<1>1. text \in Seq(Printable) /\ Len(text) \in Nat /\ cursor \in Nat /\ cursor <= Len(text)
  BY LineType
<1>2. SubSeq(text, 1, cursor) \in Seq(Printable) /\ Len(SubSeq(text, 1, cursor)) = cursor
  BY <1>1, SubSeqProperties
<1>3. /\ SubSeq(text, cursor + 1, Len(text)) \in Seq(Printable)
      /\ Len(SubSeq(text, cursor + 1, Len(text))) = Len(text) - cursor
  BY <1>1, SubSeqProperties
<1> DEFINE a == SubSeq(text, 1, cursor)
           b == SubSeq(text, cursor + 1, Len(text))
<1> HIDE DEF a, b
<1>4. /\ a \in Seq(Printable) /\ b \in Seq(Printable) /\ <<c>> \in Seq(Printable)
      /\ Len(a) = cursor /\ Len(b) = Len(text) - cursor /\ Len(<<c>>) = 1
  BY <1>2, <1>3 DEF a, b
<1>5. a \o <<c>> \in Seq(Printable) /\ Len(a \o <<c>>) = Len(a) + Len(<<c>>)
  BY <1>4, ConcatProperties
<1>6. (a \o <<c>>) \o b \in Seq(Printable) /\ Len((a \o <<c>>) \o b) = Len(a \o <<c>>) + Len(b)
  BY <1>4, <1>5, ConcatProperties
<1>7. Len(a) + Len(<<c>>) + Len(b) = Len(text) + 1
  BY <1>1, <1>4
<1>8. QED
  BY <1>5, <1>6, <1>7 DEF a, b

\* The cursor stays in the line and the line in its buffer.
LEMMA EditType ==
  ASSUME TypeOK, Backspace \/ Delete \/ Move(-1) \/ Move(1) \/ \E c \in Printable : Insert(c)
  PROVE  text' \in Seq(Printable) /\ Len(text') < InputBufferSize /\ cursor' \in 0 .. Len(text')
<1>1. /\ text \in Seq(Printable) /\ Len(text) \in Nat /\ Len(text) < InputBufferSize
      /\ cursor \in Nat /\ cursor <= Len(text) /\ InputBufferSize \in Nat
  BY LineType, Sizes
<1>2. CASE UNCHANGED <<text, cursor>>
  BY <1>1, <1>2
<1>3. CASE Backspace /\ cursor # 0
  <2>1. text' = Without(cursor) /\ cursor' = cursor - 1 /\ cursor \in 1 .. Len(text)
    BY <1>1, <1>3 DEF Backspace
  <2>2. text' \in Seq(Printable) /\ Len(text') = Len(text) - 1
    BY <2>1, WithoutOne
  <2>3. QED
    BY <1>1, <1>3, <2>1, <2>2
<1>4. CASE Delete /\ ~(cursor >= Len(text))
  <2>1. text' = Without(cursor + 1) /\ cursor' = cursor /\ cursor + 1 \in 1 .. Len(text)
    BY <1>1, <1>4 DEF Delete
  <2>2. text' \in Seq(Printable) /\ Len(text') = Len(text) - 1
    BY <2>1, WithoutOne
  <2>3. QED
    BY <1>1, <1>4, <2>1, <2>2
<1>5. CASE Move(-1) \/ Move(1)
  <2>1. text' = text /\ cursor' \in 0 .. Len(text)
    BY <1>1, <1>5 DEF Move
  <2>2. QED
    BY <1>1, <2>1
<1>6. CASE \E c \in Printable : Insert(c) /\ ~(Len(text) >= InputBufferSize - 1)
  <2>1. PICK c \in Printable : Insert(c) /\ ~(Len(text) >= InputBufferSize - 1)
    BY <1>6
  <2>2. /\ text' = SubSeq(text, 1, cursor) \o <<c>> \o SubSeq(text, cursor + 1, Len(text))
        /\ cursor' = cursor + 1
    BY <2>1 DEF Insert
  <2>3. text' \in Seq(Printable) /\ Len(text') = Len(text) + 1
    BY <2>2, WithOne
  <2>4. Len(text) < InputBufferSize - 1
    BY <1>1, <2>1
  <2>5. cursor' \in 0 .. Len(text) + 1 /\ Len(text) + 1 < InputBufferSize
    <3>1. cursor' = cursor + 1
      BY <2>2
    <3>2. QED
      BY <1>1, <2>4, <3>1
  <2>6. QED
    BY <2>3, <2>5
<1>7. QED
  BY <1>2, <1>3, <1>4, <1>5, <1>6 DEF Backspace, Delete, Insert

LEMMA EditStep ==
  ASSUME IInv, KeyEdit
  PROVE  IInv'
<1>1. /\ UNCHANGED <<ring, view, out, committed, readPos, ESCAPE, owed, misread, drawn, muted,
                     reader, NOECHO, newline, bounds>>
      /\ uiDirty' = TRUE /\ ahead' = (ahead \/ (committed /\ text' # text))
      /\ Backspace \/ Delete \/ Move(-1) \/ Move(1) \/ \E c \in Printable : Insert(c)
  BY DEF KeyEdit, Take, Edited, Changes, screen
<1>2. text' \in Seq(Printable) /\ Len(text') < InputBufferSize /\ cursor' \in 0 .. Len(text')
  BY <1>1, EditType DEF IInv
<1>3. keys' \in Seq(Keys) /\ mode' = "line"
  BY TakeType DEF KeyEdit, IInv
<1>4. OwedIsLine'
  BY <1>1 DEF IInv, OwedIsLine
<1>5. RingByAge' /\ Recorded' /\ DrawnSound' /\ FollowsTail'
  BY <1>1, RingStays DEF IInv, Recorded, DrawnSound, FollowsTail, ring, view, Tail_
<1>6. ahead' \in BOOLEAN
  BY <1>1 DEF IInv, TypeOK
<1>7. TypeOK'
  BY <1>1, <1>2, <1>3, <1>6 DEF IInv, TypeOK, ring, view, reader, bounds, Tail_
<1>8. QED
  BY <1>4, <1>5, <1>7 DEF IInv

\* The line and a newline, in characters.
LEMMA LineEntered ==
  ASSUME TypeOK
  PROVE  LET s == Append(text, nl)
         IN  /\ s \in Seq(Printable \union {nl}) /\ s \in Seq(Chars \union {nl})
             /\ Len(s) = Len(text) + 1 /\ s[Len(s)] = nl
             /\ \A i \in 1 .. Len(text) : s[i] = text[i]
<1>1. /\ text \in Seq(Printable \union {nl}) /\ text \in Seq(Chars \union {nl})
      /\ Len(text) \in Nat
  BY LineType DEF Chars
<1>2. nl \in Printable \union {nl} /\ nl \in Chars \union {nl}
  OBVIOUS
<1>3. QED
  BY <1>1, <1>2, AppendProperties

LEMMA EnterStep ==
  ASSUME IInv, KeyEnter
  PROVE  IInv'
<1>1. /\ UNCHANGED <<ring, view, text, cursor, uiDirty, ESCAPE, misread, drawn, muted,
                     reader, NOECHO, newline, bounds>>
      /\ out' = Append(text, nl) /\ committed' = TRUE /\ readPos' = 0
      /\ owed' = owed \o text \o <<nl>> /\ ahead' = (ahead \/ committed)
  BY DEF KeyEnter, Take, Changes, screen
<1>2. keys' \in Seq(Keys) /\ mode' = "line"
  BY TakeType DEF KeyEnter, IInv
<1>3. /\ text \in Seq(Printable \union {nl}) /\ Len(text) \in Nat
      /\ owed \in Seq(Printable \union {nl}) /\ <<nl>> \in Seq(Printable \union {nl})
      /\ Len(<<nl>>) = 1
  BY LineType DEF IInv, Recorded
<1>4. /\ owed \o text \in Seq(Printable \union {nl})
      /\ owed' \in Seq(Printable \union {nl})
  BY <1>1, <1>3, ConcatProperties
<1>5. out' \in Seq(Chars \union {nl}) /\ out' # << >>
  BY <1>1, LineEntered, LineType DEF IInv
<1>6. OwedIsLine'
  <2>1. CASE ahead'
    BY <2>1 DEF OwedIsLine
  <2>2. CASE ~ahead'
    <3>1. ~ahead /\ ~committed /\ ~misread /\ owed = << >>
      BY <1>1, <2>2 DEF IInv, OwedIsLine
    <3>2. owed' = text \o <<nl>>
      BY <1>1, <1>3, <3>1, ConcatEmptySeq
    <3>3. /\ Len(owed') = Len(text) + 1
          /\ \A i \in 1 .. Len(text) + 1 : owed'[i] = IF i <= Len(text) THEN text[i] ELSE nl
      BY <1>3, <3>2, ConcatProperties
    <3>4. /\ Len(owed') = Len(text) - 0 + 1 /\ owed'[Len(owed')] = nl /\ 0 <= Len(text)
          /\ \A i \in 1 .. Len(text) - 0 : owed'[i] = text[0 + i]
      BY <1>3, <3>3
    <3>5. QED
      BY <1>1, <3>1, <3>4 DEF OwedIsLine
  <2>3. QED
    BY <2>1, <2>2
<1>7. DrawnSound'
  BY <1>1, <1>5, DrawnStays
<1>8. RingByAge' /\ Recorded' /\ FollowsTail'
  BY <1>1, <1>4, RingStays DEF IInv, Recorded, FollowsTail, ring, view, Tail_
<1>9. 0 \in 0 .. InputBufferSize - 1
  BY Sizes
<1>10. TypeOK'
  <2>1. ahead' \in BOOLEAN
    BY <1>1 DEF IInv, TypeOK
  <2>2. QED
    BY <1>1, <1>2, <1>5, <1>9, <2>1 DEF IInv, TypeOK, ring, view, reader, bounds, Tail_
<1>11. QED
  BY <1>6, <1>7, <1>8, <1>10 DEF IInv

\* The line goes to the reader, character by character, and is empty after its end; or
\* there is none, and what has changed is drawn.
LEMMA LineStep ==
  ASSUME IInv, Line
  PROVE  IInv'
<1>1. /\ UNCHANGED <<ring, view, out, keys, prompted, comment, ESCAPE, NOECHO, newline, ahead,
                     pressed, printed>>
      /\ out = << >> /\ mode' \in {"char", "key"}
  BY DEF Line, Return, flags, bounds
<1>2. RingByAge' /\ FollowsTail' /\ paper' = paper
  BY <1>1, RingStays DEF IInv, FollowsTail, ring, view, Tail_
<1>3. /\ text \in Seq(Printable) /\ Len(text) \in Nat /\ Len(text) < InputBufferSize
      /\ InputBufferSize \in Nat /\ readPos \in Nat /\ readPos < InputBufferSize
      /\ owed \in Seq(Printable \union {nl})
  BY LineType, Sizes DEF IInv, TypeOK, Recorded
<1>4. owed # << >> => /\ Tail(owed) \in Seq(Printable \union {nl}) /\ Head(owed) = owed[1]
                      /\ Len(Tail(owed)) = Len(owed) - 1 /\ Len(owed) \in Nat
                      /\ \A i \in 1 .. Len(owed) - 1 : Tail(owed)[i] = owed[i + 1]
  BY <1>3, HeadTailProperties
<1>5. CASE committed /\ More
  <2>1. /\ Return(text[readPos + 1]) /\ readPos' = readPos + 1
        /\ UNCHANGED <<text, cursor, committed, uiDirty, drawn, muted>>
    BY <1>5 DEF Line, screen
  <2>2. readPos < Len(text) /\ readPos + 1 \in 1 .. Len(text) /\ text[readPos + 1] \in Printable
    BY <1>3, <1>5 DEF More
  <2>3. /\ ch' = text[readPos + 1] /\ owed' = IF owed = << >> THEN owed ELSE Tail(owed)
        /\ misread' = (misread \/ owed = << >> \/ Head(owed) # text[readPos + 1])
    BY <2>1 DEF Return
  <2>4. OwedIsLine'
    <3>1. CASE ahead
      BY <1>1, <3>1 DEF OwedIsLine
    <3>2. CASE ~ahead
      <4>1. /\ ~misread /\ Len(owed) = Len(text) - readPos + 1 /\ owed[Len(owed)] = nl
            /\ \A i \in 1 .. Len(text) - readPos : owed[i] = text[readPos + i]
        BY <1>5, <3>2 DEF IInv, OwedIsLine
      <4>2. owed # << >> /\ Len(owed) >= 2 /\ Len(owed) \in Nat
        BY <1>3, <2>2, <4>1
      <4>3. Head(owed) = text[readPos + 1] /\ owed' = Tail(owed)
        <5>1. 1 \in 1 .. Len(text) - readPos
          BY <1>3, <2>2
        <5>2. QED
          BY <1>4, <2>3, <4>1, <4>2, <5>1
      <4>4. ~misread'
        BY <2>3, <4>1, <4>2, <4>3
      <4>5. /\ Len(owed') = Len(text) - (readPos + 1) + 1 /\ readPos + 1 <= Len(text)
            /\ owed'[Len(owed')] = nl
        <5>1. Len(owed') = Len(owed) - 1 /\ Len(owed) - 1 \in 1 .. Len(owed) - 1
          BY <1>4, <4>2, <4>3
        <5>2. owed'[Len(owed) - 1] = owed[Len(owed) - 1 + 1]
          BY <1>4, <4>2, <4>3, <5>1
        <5>3. QED
          BY <1>3, <2>2, <4>1, <4>2, <5>1, <5>2
      <4>6. ASSUME NEW i \in 1 .. Len(text) - (readPos + 1)
            PROVE  owed'[i] = text[readPos + 1 + i]
        <5>1. i \in 1 .. Len(owed) - 1 /\ i + 1 \in 1 .. Len(text) - readPos
          BY <1>3, <2>2, <4>1
        <5>2. owed'[i] = owed[i + 1] /\ owed[i + 1] = text[readPos + (i + 1)]
          BY <1>4, <4>1, <4>2, <4>3, <5>1
        <5>3. readPos + (i + 1) = readPos + 1 + i
          BY <1>3
        <5>4. QED
          BY <5>2, <5>3
      <4>7. committed' /\ text' = text /\ readPos' = readPos + 1
        BY <1>5, <2>1
      <4>8. QED
        BY <4>4, <4>5, <4>6, <4>7 DEF OwedIsLine
    <3>3. QED
      BY <3>1, <3>2
  <2>5. DrawnSound'
    BY <1>1, <2>1, DrawnStays
  <2>6. Recorded'
    BY <1>2, <1>3, <1>4, <2>3 DEF IInv, Recorded
  <2>7. misread' \in BOOLEAN /\ readPos' \in 0 .. InputBufferSize - 1 /\ ch' \in Printable
    <3>1. readPos + 1 \in 0 .. InputBufferSize - 1
      BY <1>3, <2>2
    <3>2. QED
      BY <2>1, <2>2, <2>3, <3>1 DEF IInv, TypeOK
  <2>8. TypeOK'
    BY <1>1, <2>1, <2>7 DEF IInv, TypeOK, ring, view, Tail_
  <2>9. QED
    BY <1>2, <2>4, <2>5, <2>6, <2>8 DEF IInv
<1>6. CASE committed /\ ~More
  <2>1. /\ Return(nl) /\ text' = << >> /\ cursor' = 0 /\ committed' = FALSE /\ readPos' = 0
        /\ UNCHANGED <<uiDirty, drawn, muted>>
    BY <1>6 DEF Line, Reset, screen
  <2>2. /\ ch' = nl /\ owed' = IF owed = << >> THEN owed ELSE Tail(owed)
        /\ misread' = (misread \/ owed = << >> \/ Head(owed) # nl)
    BY <2>1 DEF Return
  <2>3. OwedIsLine'
    <3>1. CASE ahead
      BY <1>1, <3>1 DEF OwedIsLine
    <3>2. CASE ~ahead
      <4>1. /\ ~misread /\ readPos <= Len(text) /\ Len(owed) = Len(text) - readPos + 1
            /\ owed[Len(owed)] = nl
        BY <1>6, <3>2 DEF IInv, OwedIsLine
      <4>2. Len(owed) = 1 /\ owed # << >>
        BY <1>3, <1>6, <4>1 DEF More
      <4>3. ~misread' /\ owed' = Tail(owed) /\ Len(Tail(owed)) = 0
        <5>1. Head(owed) = nl
          BY <1>4, <4>1, <4>2
        <5>2. Len(Tail(owed)) = 0
          BY <1>4, <4>2
        <5>3. ~misread' /\ owed' = Tail(owed)
          BY <2>2, <4>1, <4>2, <5>1
        <5>4. QED
          BY <5>2, <5>3
      <4>4. owed' = << >>
        BY <1>4, <4>2, <4>3
      <4>5. QED
        BY <2>1, <4>3, <4>4 DEF OwedIsLine
    <3>3. QED
      BY <3>1, <3>2
  <2>4. DrawnSound'
    <3>1. uiDirty \/ muted
      BY <1>1, <1>6 DEF IInv, DrawnSound
    <3>2. ~uiDirty => drawn'.transcript = View'.transcript
      BY <1>1, <2>1, TranscriptStays DEF IInv, DrawnSound
    <3>3. QED
      BY <2>1, <3>1, <3>2 DEF DrawnSound
  <2>5. Recorded'
    BY <1>2, <1>3, <1>4, <2>2 DEF IInv, Recorded
  <2>6. /\ misread' \in BOOLEAN /\ ch' \in Printable \union {nl}
        /\ text' \in Seq(Printable) /\ Len(text') < InputBufferSize
        /\ cursor' \in 0 .. Len(text') /\ readPos' \in 0 .. InputBufferSize - 1
    BY <2>1, <2>2, Sizes DEF IInv, TypeOK
  <2>7. TypeOK'
    BY <1>1, <2>1, <2>6 DEF IInv, TypeOK, ring, view, Tail_
  <2>8. QED
    BY <1>2, <2>3, <2>4, <2>5, <2>7 DEF IInv
<1>7. CASE ~committed
  <2>1. RenderIfDirty /\ UNCHANGED <<edit, ch, owed, misread>>
    BY <1>7 DEF Line
  <2>2. View' = View /\ View'.transcript = View.transcript
    BY <1>1, <2>1, ViewStays DEF edit
  <2>3. DrawnSound'
    BY <1>7, <2>1, <2>2 DEF RenderIfDirty, IInv, DrawnSound, edit, screen
  <2>4. OwedIsLine' /\ Recorded'
    BY <1>1, <1>2, <2>1, OwedStays DEF IInv, Recorded, edit
  <2>5. uiDirty' \in BOOLEAN /\ muted' \in BOOLEAN
    BY <2>1 DEF RenderIfDirty, IInv, TypeOK, screen
  <2>6. TypeOK'
    BY <1>1, <2>1, <2>5 DEF IInv, TypeOK, ring, view, edit, Tail_
  <2>7. QED
    BY <1>2, <2>3, <2>4, <2>6 DEF IInv
<1>8. QED
  BY <1>5, <1>6, <1>7 DEF Line

-----------------------------------------------------------------------------
(* The reader and the loop of repl.                                        *)

\* What is printed is left to be appended.
LEMMA Printed ==
  ASSUME TypeOK, NEW s \in Seq(Chars \union {nl}), pserial(s)
  PROVE  out' \in Seq(Chars \union {nl}) /\ newline' \in BOOLEAN
BY DEF pserial, Shown

\* A prompt that nothing is drawn after is on its way, or is hidden.
LEMMA Prompted ==
  ASSUME TypeOK, NEW s \in Seq(Chars \union {nl}), ToPrompt(s)
  PROVE  /\ out' \in Seq(Chars \union {nl}) /\ newline' \in BOOLEAN
         /\ mode' = "key" /\ prompted' \in BOOLEAN /\ comment' \in BOOLEAN /\ muted' \in BOOLEAN
         /\ (muted => muted') /\ (muted' \/ out' # << >>)
<1>1. Prompt \in Seq(Chars \union {nl}) /\ Len(Prompt) = 1
  BY DEF Prompt, Chars
<1>2. s \o Prompt \in Seq(Chars \union {nl}) /\ Len(s \o Prompt) = Len(s) + Len(Prompt)
  BY <1>1, ConcatProperties
<1>3. s \o Prompt # << >>
  <2>1. Len(s) \in Nat
    OBVIOUS
  <2>2. Len(s \o Prompt) >= 1
    BY <1>1, <1>2, <2>1
  <2>3. QED
    BY <2>2
<1>4. out' \in Seq(Chars \union {nl}) /\ newline' \in BOOLEAN
  BY <1>2, Printed DEF ToPrompt
<1>5. muted' = (muted \/ NOECHO) /\ muted \in BOOLEAN /\ NOECHO \in BOOLEAN
  BY DEF ToPrompt, TypeOK
<1>6. ~NOECHO => out' # << >>
  BY <1>3 DEF ToPrompt, pserial, Shown
<1>7. mode' = "key" /\ prompted' = TRUE /\ comment' = FALSE
  BY DEF ToPrompt
<1>8. QED
  BY <1>4, <1>5, <1>6, <1>7

\* The newline that starts a fresh line, if there is one, before what is printed.
LEMMA FreshLine ==
  ASSUME NEW s \in Seq(Chars \union {nl})
  PROVE  pfl \o s \in Seq(Chars \union {nl})
<1>1. << >> \in Seq(Chars \union {nl}) /\ <<nl>> \in Seq(Chars \union {nl})
  OBVIOUS
<1>2. pfl \in Seq(Chars \union {nl})
  BY <1>1 DEF pfl
<1>3. QED
  BY <1>2, ConcatProperties

\* An interpreter's step keeps the window as it is, but for what it prints and draws.
LEMMA StillStep ==
  ASSUME IInv, Still, out' \in Seq(Chars \union {nl}), keys' \in Seq(Keys),
         mode' \in {"key", "line", "char", "enter", "eval", "draw"}, ch' = ch,
         prompted' \in BOOLEAN, comment' \in BOOLEAN, ESCAPE' \in BOOLEAN, NOECHO' \in BOOLEAN,
         newline' \in BOOLEAN, muted' \in BOOLEAN, muted => muted', printed' \in 0 .. MaxPrints,
         \/ UNCHANGED <<uiDirty, drawn>>
         \/ (muted' \/ out' # << >>) /\ uiDirty' = FALSE /\ drawn' = IF uiDirty THEN View ELSE drawn
  PROVE  IInv'
<1>1. /\ out = << >> /\ UNCHANGED <<ring, view, edit, owed, misread, ahead, pressed>>
      /\ UNCHANGED <<text, cursor, committed, readPos>>
  BY DEF Still, edit
<1>2. Recorded' /\ RingByAge' /\ FollowsTail' /\ OwedIsLine'
  BY <1>1, StandsStill
<1>3. DrawnSound'
  <2>1. CASE UNCHANGED <<uiDirty, drawn>>
    BY <1>1, <2>1, DrawnStays
  <2>2. CASE /\ muted' \/ out' # << >>
             /\ uiDirty' = FALSE
             /\ drawn' = IF uiDirty THEN View ELSE drawn
    <3>1. View' = View /\ View'.transcript = View.transcript
      BY <1>1, ViewStays
    <3>2. QED
      BY <2>2, <3>1 DEF IInv, DrawnSound
  <2>3. QED
    BY <2>1, <2>2
<1>4. uiDirty' \in BOOLEAN
  BY DEF IInv, TypeOK
<1>5. TypeOK'
  BY <1>1, <1>4 DEF IInv, TypeOK, ring, view, Tail_
<1>6. QED
  BY <1>2, <1>3, <1>5 DEF IInv

\* What the interpreter has in any state.
LEMMA Held ==
  ASSUME IInv
  PROVE  /\ out \in Seq(Chars \union {nl}) /\ keys \in Seq(Keys) /\ prompted \in BOOLEAN
         /\ comment \in BOOLEAN /\ ESCAPE \in BOOLEAN /\ NOECHO \in BOOLEAN
         /\ newline \in BOOLEAN /\ muted \in BOOLEAN /\ printed \in 0 .. MaxPrints
BY DEF IInv, TypeOK

LEMMA AbortKeeps ==
  ASSUME IInv, Still, Abort, keys' \in Seq(Keys), UNCHANGED <<ch, NOECHO, printed>>,
         ESCAPE' \in BOOLEAN
  PROVE  IInv'
<1>1. <<"!", nl>> \in Seq(Chars \union {nl})
  BY DEF Chars
<1>2. pfl \o <<"!", nl>> \in Seq(Chars \union {nl})
  BY <1>1, FreshLine
<1>3. ToPrompt(pfl \o <<"!", nl>>) /\ UNCHANGED <<uiDirty, drawn>> /\ TypeOK
  BY DEF Abort, IInv
<1> DEFINE s == pfl \o <<"!", nl>>
<1> HIDE DEF s
<1>4. s \in Seq(Chars \union {nl}) /\ ToPrompt(s)
  BY <1>2, <1>3 DEF s
<1>5. /\ out' \in Seq(Chars \union {nl}) /\ newline' \in BOOLEAN
      /\ mode' = "key" /\ prompted' \in BOOLEAN /\ comment' \in BOOLEAN /\ muted' \in BOOLEAN
      /\ (muted => muted')
  BY <1>3, <1>4, Prompted
<1>6. QED
  BY <1>3, <1>5, Held, StillStep

LEMMA ReaderStep ==
  ASSUME IInv, SkipComment \/ ReadOn \/ ReadDone \/ ReadError
  PROVE  IInv'
<1>1. Still
  BY DEF SkipComment, ReadOn, ReadDone, ReadError
<1>2. CASE SkipComment
  <2>1. /\ comment' \in BOOLEAN /\ NOECHO' \in BOOLEAN /\ mode' = "key"
        /\ UNCHANGED <<out, uiDirty, drawn, muted, keys, ch, prompted, ESCAPE, newline, printed>>
    BY <1>2, Held DEF SkipComment, screen
  <2>2. QED
    BY <1>1, <2>1, Held, StillStep
<1>3. CASE ReadOn
  <2>1. /\ comment' \in BOOLEAN /\ mode' = "key"
        /\ UNCHANGED <<out, uiDirty, drawn, muted, keys, ch, prompted, ESCAPE, NOECHO, newline,
                       printed>>
    BY <1>3, Held DEF ReadOn, screen, flags
  <2>2. QED
    BY <1>1, <2>1, Held, StillStep
<1>4. CASE ReadDone
  <2>1. <<nl>> \in Seq(Chars \union {nl})
    OBVIOUS
  <2>2. out' \in Seq(Chars \union {nl}) /\ newline' \in BOOLEAN
    BY <1>4, <2>1, Printed, Held DEF ReadDone, IInv
  <2>3. /\ mode' \in {"enter", "eval"}
        /\ UNCHANGED <<uiDirty, drawn, muted, keys, ch, prompted, comment, ESCAPE, NOECHO, printed>>
    BY <1>4 DEF ReadDone, screen, reader, flags
  <2>4. QED
    BY <1>1, <2>2, <2>3, Held, StillStep
<1>5. CASE ReadError
  BY <1>1, <1>5, Held, AbortKeeps DEF ReadError, flags
<1>6. QED
  BY <1>2, <1>3, <1>4, <1>5

LEMMA EvalStep ==
  ASSUME IInv, EnterEval \/ EvalAgain \/ testescape
  PROVE  IInv'
<1>1. Still
  BY DEF EnterEval, EvalAgain, testescape
<1>2. CASE EnterEval /\ ESCAPE
  BY <1>1, <1>2, Held, AbortKeeps DEF EnterEval
<1>3. CASE EnterEval /\ ~ESCAPE
  <2>1. /\ ESCAPE' = FALSE /\ mode' = "eval"
        /\ UNCHANGED <<out, uiDirty, drawn, muted, newline, prompted, comment, keys, ch, NOECHO,
                       printed>>
    BY <1>3 DEF EnterEval, screen
  <2>2. QED
    BY <1>1, <2>1, Held, StillStep
<1>4. CASE EvalAgain
  <2>1. /\ mode' = "enter"
        /\ UNCHANGED <<out, uiDirty, drawn, muted, keys, ch, prompted, comment, ESCAPE, NOECHO,
                       newline, printed>>
    BY <1>4 DEF EvalAgain, screen, reader, flags
  <2>2. QED
    BY <1>1, <2>1, Held, StillStep
<1>5. CASE testescape
  <2>1. keys' \in Seq(Keys) /\ UNCHANGED <<ch, ESCAPE, NOECHO, printed>>
    BY <1>5, Held, HeadTailProperties DEF testescape, Taken, flags
  <2>2. CASE Head(keys) = "esc"
    BY <1>1, <1>5, <2>1, <2>2, Held, AbortKeeps DEF testescape
  <2>3. CASE Head(keys) # "esc"
    <3>1. mode' = "eval" /\ UNCHANGED <<out, uiDirty, drawn, muted, newline, prompted, comment>>
      BY <1>5, <2>3 DEF testescape, screen
    <3>2. QED
      BY <1>1, <2>1, <3>1, Held, StillStep
  <2>4. QED
    BY <2>2, <2>3
<1>6. QED
  BY <1>2, <1>3, <1>4, <1>5

LEMMA ProgramStep ==
  ASSUME IInv, Read \/ Finish \/ Draw \/ \E c \in {"o", nl} : Output(c)
  PROVE  IInv'
<1>1. Still
  BY DEF Read, Finish, Draw, Output
<1>2. CASE Read
  <2>1. /\ mode' = "key" /\ prompted' = FALSE
        /\ UNCHANGED <<out, uiDirty, drawn, muted, keys, ch, comment, ESCAPE, NOECHO, newline,
                       printed>>
    BY <1>2 DEF Read, screen, flags
  <2>2. QED
    BY <1>1, <2>1, Held, StillStep
<1>3. CASE Finish
  <2>1. <<"v", nl>> \in Seq(Chars \union {nl})
    BY DEF Chars
  <2>2. out' \in Seq(Chars \union {nl}) /\ newline' \in BOOLEAN
    BY <1>3, <2>1, FreshLine, Printed DEF Finish, IInv
  <2>3. /\ mode' = "draw"
        /\ UNCHANGED <<uiDirty, drawn, muted, keys, ch, prompted, comment, ESCAPE, NOECHO, printed>>
    BY <1>3 DEF Finish, screen, reader, flags
  <2>4. QED
    BY <1>1, <2>2, <2>3, Held, StillStep
<1>4. CASE Draw
  <2>1. << >> \in Seq(Chars \union {nl}) /\ ToPrompt(<< >>) /\ TypeOK
    BY <1>4 DEF Draw, IInv
  <2>2. /\ out' \in Seq(Chars \union {nl}) /\ newline' \in BOOLEAN
        /\ mode' = "key" /\ prompted' \in BOOLEAN /\ comment' \in BOOLEAN /\ muted' \in BOOLEAN
        /\ (muted => muted') /\ (muted' \/ out' # << >>)
    BY <2>1, Prompted
  <2>3. /\ uiDirty' = FALSE /\ drawn' = IF uiDirty THEN View ELSE drawn
        /\ UNCHANGED <<keys, ch, ESCAPE, NOECHO, printed>>
    BY <1>4, <2>1 DEF Draw, flags, TypeOK
  <2>4. QED
    BY <1>1, <2>2, <2>3, Held, StillStep
<1>5. CASE \E c \in {"o", nl} : Output(c)
  <2>1. PICK c \in {"o", nl} : Output(c)
    BY <1>5
  <2>2. <<c>> \in Seq(Chars \union {nl})
    BY DEF Chars
  <2>3. out' \in Seq(Chars \union {nl}) /\ newline' \in BOOLEAN
    BY <2>1, <2>2, Printed DEF Output, IInv
  <2>4. printed' \in 0 .. MaxPrints
    <3>1. printed' = printed + 1 /\ printed < MaxPrints
      BY <2>1 DEF Output
    <3>2. QED
      BY <3>1, Held, Sizes
  <2>5. /\ mode' = "eval"
        /\ UNCHANGED <<uiDirty, drawn, muted, keys, ch, prompted, comment, ESCAPE, NOECHO>>
    BY <2>1 DEF Output, screen, reader, flags
  <2>6. QED
    BY <1>1, <2>3, <2>4, <2>5, Held, StillStep
<1>6. QED
  BY <1>2, <1>3, <1>4, <1>5

-----------------------------------------------------------------------------
(* Theorems.                                                               *)

LEMMA InitIInv == Init => IInv
<1> SUFFICES ASSUME Init PROVE IInv
  OBVIOUS
<1>1. << >> \in Seq(Chars) /\ Len(<< >>) = 0 /\ << << >> >> \in Seq(Seq(Chars))
      /\ Len(<< << >> >>) = 1 /\ << << >> >>[1] = << >>
  OBVIOUS
<1>2. Prompt \in Seq(Chars \union {nl})
  BY DEF Prompt, Chars
<1>3. Tail_(1) = 0
  BY Sizes DEF Tail_
<1>4. TypeOK
  <2>1. /\ rows \in [0 .. Rows - 1 -> Seq(Chars)]
        /\ \A r \in 0 .. Rows - 1 : rows[r] = << >>
    BY <1>1 DEF Init
  <2>2. \A r \in 0 .. Rows - 1 : Len(rows[r]) = 0
    BY <1>1, <2>1
  <2>3. currentRow = 0 /\ count = 1 /\ viewportStart = 0 /\ 0 \in 0 .. Rows - 1 /\ 1 \in 1 .. Rows
    BY Sizes DEF Init
  <2>4. /\ \A r \in 0 .. Rows - 1 : Len(rows[r]) <= Columns
        /\ Len(rows[currentRow]) < Columns
    BY <2>2, <2>3, Sizes
  <2>5. viewportStart \in 0 .. Tail_(count)
    BY <1>3, <2>3
  <2>6. text = << >> /\ cursor = 0 /\ readPos = 0 /\ pressed = 0 /\ printed = 0
    BY DEF Init
  <2>7. << >> \in Seq(Printable) /\ << >> \in Seq(Keys)
    OBVIOUS
  <2>8. /\ text \in Seq(Printable) /\ Len(text) < InputBufferSize
        /\ cursor \in 0 .. Len(text) /\ readPos \in 0 .. InputBufferSize - 1
    BY <1>1, <2>6, <2>7, Sizes
  <2>9. pressed \in 0 .. MaxKeys /\ printed \in 0 .. MaxPrints
    BY <2>6, Sizes
  <2>10. out \in Seq(Chars \union {nl}) /\ keys \in Seq(Keys) /\ ch \in Printable \union {nl}
    BY <1>2, <2>7 DEF Init
  <2>11. /\ followTail \in BOOLEAN /\ committed \in BOOLEAN /\ uiDirty \in BOOLEAN
         /\ prompted \in BOOLEAN /\ comment \in BOOLEAN /\ ESCAPE \in BOOLEAN
         /\ NOECHO \in BOOLEAN /\ newline \in BOOLEAN /\ misread \in BOOLEAN
         /\ ahead \in BOOLEAN /\ muted \in BOOLEAN
         /\ mode \in {"key", "line", "char", "enter", "eval", "draw"}
    BY DEF Init
  <2>12. QED
    BY <2>1, <2>3, <2>4, <2>5, <2>8, <2>9, <2>10, <2>11 DEF TypeOK
<1>5. Recorded /\ FollowsTail /\ OwedIsLine
  BY <1>1, <1>3 DEF Init, Recorded, FollowsTail, OwedIsLine
<1>6. DrawnSound
  BY DEF Init, DrawnSound
<1>7. RingByAge
  <2>1. count = 1 /\ currentRow = 0 /\ Len(paper) = 1 /\ paper[1] = << >> /\ rows[0] = << >>
    BY <1>1, Sizes DEF Init
  <2>2. Back(0) = 0
    BY <2>1 DEF Back
  <2>3. \A d \in 0 .. count - 1 : d = 0 /\ Len(paper) - d = 1
    BY <2>1
  <2>4. QED
    BY <2>1, <2>2, <2>3 DEF RingByAge
<1>8. QED
  BY <1>4, <1>5, <1>6, <1>7 DEF IInv

LEMMA NextIInv == IInv /\ [Next]_vars => IInv'
<1> SUFFICES ASSUME IInv, [Next]_vars PROVE IInv'
  OBVIOUS
<1>1. CASE \E k \in Keys : Press(k)
  BY <1>1, PressStep
<1>2. CASE BackBufferAppend
  BY <1>2, AppendStep
<1>3. CASE KeyEsc \/ KeyUnknown \/ NoKey \/ ClearNoEcho
  BY <1>3, QuietKeyStep
<1>4. CASE KeyUp \/ KeyDown
  BY <1>4, ScrollStep
<1>5. CASE KeyEnter
  BY <1>5, EnterStep
<1>6. CASE KeyEdit
  BY <1>6, EditStep
<1>7. CASE Line
  BY <1>7, LineStep
<1>8. CASE SkipComment \/ ReadOn \/ ReadDone \/ ReadError
  BY <1>8, ReaderStep
<1>9. CASE EnterEval \/ EvalAgain \/ testescape
  BY <1>9, EvalStep
<1>10. CASE Read \/ Finish \/ Draw \/ \E c \in {"o", nl} : Output(c)
  BY <1>10, ProgramStep
<1>11. CASE UNCHANGED vars
  <2>1. UNCHANGED <<ring, view, edit, owed, misread, ahead, drawn, uiDirty, muted, out,
                    text, cursor, committed>>
    BY <1>11 DEF vars, edit, due, screen
  <2>2. Recorded' /\ RingByAge' /\ FollowsTail' /\ OwedIsLine'
    BY <2>1, StandsStill
  <2>3. DrawnSound'
    BY <2>1, DrawnStays
  <2>4. TypeOK'
    BY <1>11 DEF vars, IInv, TypeOK, ring, view, edit, screen, reader, flags, due, bounds, Tail_
  <2>5. QED
    BY <2>2, <2>3, <2>4 DEF IInv
<1>12. QED
  BY <1>1, <1>2, <1>3, <1>4, <1>5, <1>6, <1>7, <1>8, <1>9, <1>10, <1>11 DEF Next, gserial

\* The invariant holds whatever is typed, read and printed, and in what order.
THEOREM Invariance == Spec => []IInv
<1>1. QED
  BY InitIInv, NextIInv, PTL DEF Spec

\* Every index stays in its buffer, the ring holds the last rows of all that was
\* written, in order, and a window that follows the output shows its last row.
THEOREM TranscriptCorrect == Spec => []TranscriptRight
<1>1. IInv => TranscriptRight
  BY RingFromAge DEF IInv, TranscriptRight
<1>2. QED
  BY <1>1, Invariance, PTL

\* The reader gets the lines that were entered, whole and once, as long as no key
\* changes one while it is read.
THEOREM LinesDelivered == Spec => []DeliversUndisturbed
<1>1. IInv => DeliversUndisturbed
  BY DEF IInv, OwedIsLine, DeliversUndisturbed, DeliversLines
<1>2. QED
  BY <1>1, Invariance, PTL

\* When nothing is left to draw the screen shows the transcript, and when keys are
\* awaited the line as well, unless a comment has hidden the prompt.
THEOREM ScreenTrue == Spec => []ScreenCurrent
<1>1. IInv => ScreenCurrent
  BY DEF IInv, DrawnSound, ScreenCurrent, InputShown
<1>2. QED
  BY <1>1, Invariance, PTL
=============================================================================
