-------------------------- MODULE CleanPathProofs --------------------------
(***************************************************************************)
(* For every set of strings: no index of cleanPath or removeRepeatedChar   *)
(* runs out of the path or of the buffer, cleanPath returns the canonical  *)
(* path, and removeRepeatedChar the string with every run of slashes made  *)
(* one.                                                                    *)
(***************************************************************************)
EXTENDS PathRules, SequenceTheorems, WellFoundedInduction, TLAPS

Cells == Bytes \cup {"zero"}

(* What bufApp leaves: the same buffer, or none, or a new one of the       *)
(* path's length (path.go:128-151).                                        *)
LEMMA BufAppFits ==
    ASSUME p \in Seq(Bytes), buf \in Seq(Cells), NEW i \in Nat, i < Size, NEW c \in Bytes
    PROVE  /\ bufApp(i, c) \in Seq(Cells)
           /\ buf # <<>> => Len(bufApp(i, c)) = Len(buf)
           /\ bufApp(i, c) # <<>> /\ buf = <<>> => Len(bufApp(i, c)) = n
<1>1. CASE buf # <<>>
  <2>1. bufApp(i, c) = [buf EXCEPT ![i + 1] = c]
    BY <1>1 DEF bufApp
  <2>2. i + 1 \in 1..Len(buf) /\ c \in Cells
    BY <1>1 DEF Size, Cells
  <2>3. [buf EXCEPT ![i + 1] = c] \in Seq(Cells) /\ Len([buf EXCEPT ![i + 1] = c]) = Len(buf)
    BY <2>2, ExceptSeq
  <2> QED
    BY <1>1, <2>1, <2>3
<1>2. CASE buf = <<>>
  <2> DEFINE made == [j \in 1..n |-> IF j <= i THEN p[j] ELSE IF j = i + 1 THEN c ELSE "zero"]
  <2>1. n \in Nat
    BY DEF n
  <2>2. \A j \in 1..n : (IF j <= i THEN p[j] ELSE IF j = i + 1 THEN c ELSE "zero") \in Cells
    BY DEF Cells, n
  <2>3. made \in Seq(Cells) /\ Len(made) = n
    BY <2>1, <2>2, IsASeq, Z3
  <2>4. bufApp(i, c) = buf \/ bufApp(i, c) = made
    BY <1>2 DEF bufApp
  <2> QED
    BY <1>2, <2>3, <2>4
<1> QED
  BY <1>1, <1>2

(* The invariant holds when a job starts (path.go:23-50, 155-173).         *)
LEMMA InitIInv == Init => IInv
<1> SUFFICES ASSUME Init PROVE IInv
  OBVIOUS
<1>1. p \in Seq(Bytes) /\ n \in Nat
  BY PathsAssumption DEF Init, n
<1>2. CASE InitRepeat
  <2>1. buf = <<>> /\ r = 0 /\ w = 0 /\ job = "repeat" /\ pc = "loop" /\ trailing = FALSE
    BY <1>2 DEF Init, InitRepeat
  <2>2. TypeOK
    BY <1>1, <2>1, EmptySeq DEF TypeOK
  <2>3. Behind /\ Owed /\ InBounds
    BY <1>1, <2>1 DEF Behind, Owed, InBounds, Size, Rooted, Lead
  <2> QED
    BY <2>1, <2>2, <2>3 DEF IInv, Rooted
<1>3. CASE InitClean /\ p[1] = "/"
  <2>1. n > 0
    BY <1>1, <1>3, EmptySeq DEF InitClean, n
  <2>2. /\ buf = <<>> /\ r = 1 /\ w = 1 /\ job = "clean" /\ pc = "loop" /\ p # <<>>
        /\ trailing \in BOOLEAN /\ (trailing => n > 1 /\ p[n] = "/")
    BY <1>3 DEF Init, InitClean
  <2>3. TypeOK
    BY <1>1, <2>2, EmptySeq DEF TypeOK
  <2>4. Behind /\ Owed /\ InBounds
    BY <1>1, <2>1, <2>2 DEF Behind, Owed, InBounds, Size, Rooted, Lead
  <2> QED
    BY <1>3, <2>2, <2>3, <2>4 DEF IInv, Rooted
<1>4. CASE InitClean /\ p[1] # "/"
  <2> DEFINE made == [j \in 1 .. n + 1 |-> IF j = 1 THEN "/" ELSE "zero"]
  <2>1. n > 0
    BY <1>1, <1>4, EmptySeq DEF InitClean, n
  <2>2. made \in Seq(Bytes \cup {"zero"}) /\ Len(made) = n + 1
    BY <1>1 DEF Bytes
  <2>3. made # <<>>
    BY <2>2, <1>1
  <2>4. /\ r = 0 /\ w = 1 /\ buf = made /\ job = "clean" /\ pc = "loop"
        /\ trailing \in BOOLEAN /\ (trailing => n > 1 /\ p[n] = "/")
    BY <1>4 DEF Init, InitClean
  <2> HIDE DEF made
  <2>5. TypeOK
    BY <1>1, <2>2, <2>4 DEF TypeOK
  <2>6. Behind /\ Owed /\ InBounds
    BY <1>1, <1>4, <2>1, <2>2, <2>3, <2>4 DEF Behind, Owed, InBounds, Size, Rooted, Lead
  <2> QED
    BY <1>1, <1>4, <2>1, <2>2, <2>3, <2>4, <2>5, <2>6, EmptySeq DEF IInv, Rooted, Lead, n
<1> QED
  BY <1>2, <1>3, <1>4 DEF Init

(* The room there is: the path's bytes, and one more without leading slash.*)
LEMMA Room ==
    ASSUME IInv
    PROVE  /\ n \in Nat /\ Lead \in {0, 1} /\ Size = n + Lead
           /\ p \in Seq(Bytes) /\ r \in Nat /\ w \in Nat /\ buf \in Seq(Cells)
           /\ r < n => At(r) \in Bytes
<1>1. n \in Nat /\ p \in Seq(Bytes) /\ r \in Nat /\ w \in Nat /\ buf \in Seq(Cells)
  BY DEF IInv, TypeOK, n, Cells
<1>2. Lead \in {0, 1} /\ Size = n + Lead
  BY <1>1 DEF IInv, Size, Lead
<1>3. r < n => At(r) \in Bytes
  BY <1>1 DEF At, n
<1> QED
  BY <1>1, <1>2, <1>3

(* The actions that read and write nothing.                                *)
LEMMA ReadingIInv ==
    ASSUME IInv, EmptyElement \/ LastDot \/ Dot
    PROVE  IInv'
<1>1. /\ r' \in Nat /\ r' > r /\ r' <= n
      /\ job = "clean" /\ pc = "loop" /\ r < n /\ UNCHANGED <<job, p, w, buf, pc>>
      /\ trailing' \in BOOLEAN /\ (trailing' => trailing \/ r' = n)
  <2>1. trailing \in BOOLEAN /\ r \in Nat /\ n \in Nat
    BY Room DEF IInv, TypeOK
  <2>2. CASE EmptyElement
    BY <2>1, <2>2 DEF EmptyElement, Cleaning
  <2>3. CASE LastDot
    BY <2>1, <2>3 DEF LastDot, Cleaning
  <2>4. CASE Dot
    BY <2>1, <2>4 DEF Dot, Cleaning
  <2> QED
    BY <2>2, <2>3, <2>4
<1>2. /\ n' = n /\ Lead' = Lead /\ Size' = Size /\ (Rooted' <=> Rooted)
  BY <1>1 DEF n, Lead, Size, Rooted
<1>3. TypeOK'
  BY <1>1 DEF IInv, TypeOK
<1>4. Behind'
  BY <1>1, <1>2, Room DEF IInv, Behind
<1>5. Owed'
  BY <1>1, <1>2, Room DEF IInv, Owed
<1>6. InBounds'
  BY <1>1, <1>2, Room DEF IInv, InBounds, Behind
<1> QED
  BY <1>1, <1>2, <1>3, <1>4, <1>5, <1>6 DEF IInv

(* An element .. is skipped or starts the descent, within the bounds.      *)
LEMMA DotDotIInv ==
    ASSUME IInv, DotDot
    PROVE  IInv'
<1>1. /\ r' = r + 3 /\ r + 1 < n /\ job = "clean" /\ pc = "loop" /\ UNCHANGED <<job, p, buf, trailing>>
      /\ w > 1 => w' = w - 1 /\ pc' = "back"
      /\ w <= 1 => w' = w /\ pc' = "loop"
  BY Room DEF DotDot, Cleaning, IsDotDot
<1>2. /\ n' = n /\ Lead' = Lead /\ Size' = Size /\ (Rooted' <=> Rooted)
  BY <1>1 DEF n, Lead, Size, Rooted
<1>3. TypeOK'
  BY <1>1, Room DEF IInv, TypeOK
<1>4. Behind'
  BY <1>1, <1>2, Room DEF IInv, Behind
<1>5. Owed'
  BY <1>1, <1>2, Room DEF IInv, Owed
<1>6. InBounds'
  BY <1>1, <1>2, Room DEF IInv, InBounds, Behind
<1> QED
  BY <1>1, <1>2, <1>3, <1>4, <1>5, <1>6, Room DEF IInv

(* A step back writes nothing and stays behind the reading.                *)
LEMMA BackIInv ==
    ASSUME IInv, Back
    PROVE  IInv'
<1>1. /\ pc = "back" /\ w' \in Nat /\ w' <= w /\ UNCHANGED <<job, p, r, buf, trailing>>
      /\ pc' \in {"back", "loop"}
  BY Room DEF Back
<1>2. /\ n' = n /\ Lead' = Lead /\ Size' = Size /\ (Rooted' <=> Rooted)
  BY <1>1 DEF n, Lead, Size, Rooted
<1>3. TypeOK'
  BY <1>1, Room DEF IInv, TypeOK
<1>4. Behind'
  BY <1>1, <1>2, Room DEF IInv, Behind
<1>5. Owed'
  BY <1>1, <1>2, Room DEF IInv, Owed
<1>6. InBounds'
  BY <1>1, <1>2, Room DEF IInv, InBounds, Behind
<1> QED
  BY <1>1, <1>2, <1>3, <1>4, <1>5, <1>6 DEF IInv

(* One byte is written: the room does not change, or is the path's length. *)
LEMMA WriteKeepsRoom ==
    ASSUME IInv, NEW c \in Bytes, w < Size, buf' = bufApp(w, c), UNCHANGED <<job, p>>
    PROVE  /\ buf' \in Seq(Cells) /\ Size' = Size /\ Lead' = Lead /\ n' = n
           /\ (Rooted' <=> Rooted) /\ (~Rooted' => buf' # <<>>)
           /\ (buf' # <<>> => Len(buf') = n' + Lead')
<1>1. /\ bufApp(w, c) \in Seq(Cells)
      /\ buf # <<>> => Len(bufApp(w, c)) = Len(buf)
      /\ bufApp(w, c) # <<>> /\ buf = <<>> => Len(bufApp(w, c)) = n
  BY Room, BufAppFits
<1>2. n' = n /\ Lead' = Lead /\ (Rooted' <=> Rooted)
  BY DEF n, Lead, Rooted
<1>3. buf # <<>> => Len(buf) > 0
  BY Room, EmptySeq
<1>4. buf # <<>> => buf' # <<>>
  BY <1>1, <1>3, EmptySeq
<1>5. (~Rooted => buf # <<>>) /\ (buf # <<>> => Len(buf) = n + Lead) /\ (buf = <<>> => Lead = 0)
  BY DEF IInv, Lead
<1>6. buf' # <<>> => Len(buf') = n + Lead
  BY <1>1, <1>5, Room
<1>7. Size' = n + Lead
  BY <1>2, <1>4, <1>5, <1>6, Room DEF Size
<1> QED
  BY <1>1, <1>2, <1>4, <1>5, <1>6, <1>7, Room

(* The slash before an element has its place in the buffer.                *)
LEMMA ElementIInv ==
    ASSUME IInv, Element
    PROVE  IInv'
<1>1. /\ job = "clean" /\ pc = "loop" /\ pc' = "copy" /\ r < n /\ At(r) # "/"
      /\ UNCHANGED <<job, p, r, trailing>>
  BY DEF Element, Cleaning, IsElement
<1>2. w < Size /\ "/" \in Bytes
  BY <1>1, Room DEF IInv, InBounds, Bytes
<1>3. \/ w > 1 /\ buf' = bufApp(w, "/") /\ w' = w + 1
      \/ w <= 1 /\ buf' = buf /\ w' = w
  BY Room DEF Element
<1>4. /\ buf' \in Seq(Cells) /\ Size' = Size /\ Lead' = Lead /\ n' = n
      /\ (Rooted' <=> Rooted) /\ (~Rooted' => buf' # <<>>)
      /\ (buf' # <<>> => Len(buf') = n' + Lead')
  <2>1. CASE buf' = bufApp(w, "/")
    BY <1>1, <1>2, <2>1, WriteKeepsRoom
  <2>2. CASE buf' = buf
    BY <1>1, <2>2, Room DEF n, Lead, Rooted, Size, IInv
  <2> QED
    BY <1>3, <2>1, <2>2
<1>5. TypeOK'
  BY <1>1, <1>3, <1>4, Room DEF IInv, TypeOK, Cells
<1>6. Behind'
  BY <1>1, <1>3, <1>4, Room DEF IInv, Behind
<1>7. Owed'
  BY <1>1, <1>4, Room DEF IInv, Owed
<1>8. InBounds'
  BY <1>1, <1>2, <1>3, <1>4, <1>6, Room DEF InBounds, Behind
<1> QED
  BY <1>1, <1>4, <1>5, <1>6, <1>7, <1>8 DEF IInv

(* So has every byte of an element.                                        *)
LEMMA CopyIInv ==
    ASSUME IInv, Copy
    PROVE  IInv'
<1>1. /\ pc = "copy" /\ job = "clean" /\ UNCHANGED <<job, p, trailing>>
      /\ w <= r + Lead /\ r <= n /\ (trailing => r < n /\ p[n] = "/")
  <2>1. pc = "copy" /\ UNCHANGED <<job, p, trailing>>
    BY DEF Copy
  <2>2. job = "clean"
    BY <2>1 DEF IInv, TypeOK
  <2>3. w <= r + Lead /\ r <= n
    BY <2>1 DEF IInv, Behind
  <2>4. trailing => r < n
    BY <2>1, <2>2 DEF IInv, Owed
  <2>5. trailing => p[n] = "/"
    BY <2>1, <2>2 DEF IInv, Owed
  <2> QED
    BY <2>1, <2>2, <2>3, <2>4, <2>5
<1>2. CASE r < n /\ At(r) # "/"
  <2>1. buf' = bufApp(w, At(r)) /\ w' = w + 1 /\ r' = r + 1 /\ pc' = pc
    BY <1>2 DEF Copy
  <2>2. w < Size /\ At(r) \in Bytes
    BY <1>1, <1>2, Room
  <2>3. /\ buf' \in Seq(Cells) /\ Size' = Size /\ Lead' = Lead /\ n' = n
        /\ (Rooted' <=> Rooted) /\ (~Rooted' => buf' # <<>>)
        /\ (buf' # <<>> => Len(buf') = n' + Lead')
    BY <1>1, <2>1, <2>2, WriteKeepsRoom
  <2>4. TypeOK'
    BY <1>1, <2>1, <2>3, Room DEF IInv, TypeOK, Cells
  <2>5. Behind'
    BY <1>1, <1>2, <2>1, <2>3, Room DEF Behind
  <2>6. trailing => r + 1 < n
    BY <1>1, <1>2, Room DEF At
  <2>7. Owed'
    BY <1>1, <2>1, <2>3, <2>6, Room DEF IInv, Owed
  <2>8. InBounds'
    BY <1>1, <1>2, <2>1, <2>2, <2>3, Room DEF InBounds
  <2> QED
    BY <1>1, <2>1, <2>3, <2>4, <2>5, <2>7, <2>8 DEF IInv
<1>3. CASE r >= n \/ At(r) = "/"
  <2>1. pc' = "loop" /\ UNCHANGED <<job, p, trailing, r, w, buf>>
    BY <1>1, <1>3, Room DEF Copy
  <2>2. /\ n' = n /\ Lead' = Lead /\ Size' = Size /\ (Rooted' <=> Rooted) /\ At(r)' = At(r)
    BY <2>1 DEF n, Lead, Size, Rooted, At
  <2>3. TypeOK'
    BY <2>1 DEF IInv, TypeOK
  <2>4. Behind'
    BY <1>1, <1>3, <2>1, <2>2, Room DEF Behind
  <2>5. Owed'
    BY <1>1, <2>1, <2>2, Room DEF Owed
  <2>6. InBounds'
    BY <1>1, <2>1, <2>2, Room DEF InBounds, IInv
  <2> QED
    BY <1>1, <2>1, <2>2, <2>3, <2>4, <2>5, <2>6 DEF IInv
<1> QED
  BY <1>2, <1>3, Room

(* The end of either function leaves a result within its string.           *)
LEMMA FinishIInv ==
    ASSUME IInv, Finish \/ FinishRepeat
    PROVE  IInv'
<1>1. pc' = "done" /\ pc = "loop" /\ r >= n /\ UNCHANGED <<job, p, r, trailing>>
  BY DEF Finish, FinishRepeat
<1>2. \/ w < Size /\ buf' = bufApp(w, "/") /\ w' = w + 1
      \/ buf' = buf /\ w' = w
  <2>1. CASE Finish /\ trailing /\ w > 1
    <3>1. w < Size
      BY <1>1, <2>1 DEF IInv, InBounds, Finish
    <3> QED
      BY <2>1, <3>1 DEF Finish
  <2>2. CASE Finish /\ ~(trailing /\ w > 1)
    BY <2>2 DEF Finish
  <2>3. CASE FinishRepeat
    BY <2>3 DEF FinishRepeat
  <2> QED
    BY <2>1, <2>2, <2>3
<1>3. /\ buf' \in Seq(Cells) /\ Size' = Size /\ Lead' = Lead /\ n' = n
      /\ (Rooted' <=> Rooted) /\ (~Rooted' => buf' # <<>>)
      /\ (buf' # <<>> => Len(buf') = n' + Lead')
  <2>1. CASE w < Size /\ buf' = bufApp(w, "/")
    <3>1. "/" \in Bytes
      BY DEF Bytes
    <3> QED
      BY <1>1, <2>1, <3>1, WriteKeepsRoom
  <2>2. CASE buf' = buf
    BY <1>1, <2>2, Room DEF n, Lead, Rooted, Size, IInv
  <2> QED
    BY <1>2, <2>1, <2>2
<1>4. TypeOK'
  BY <1>1, <1>2, <1>3, Room DEF IInv, TypeOK, Cells
<1>5. Behind'
  BY <1>1 DEF Behind
<1>6. Owed'
  BY <1>1, <1>3, Room DEF IInv, Owed
<1>7. InBounds'
  BY <1>1, <1>2, <1>3, Room DEF IInv, InBounds
<1> QED
  BY <1>1, <1>3, <1>4, <1>5, <1>6, <1>7 DEF IInv

(* removeRepeatedChar has no leading slash to add: w never passes r.       *)
LEMMA KeepIInv ==
    ASSUME IInv, Keep
    PROVE  IInv'
<1>1. /\ job = "repeat" /\ pc = "loop" /\ r < n /\ UNCHANGED <<job, p, trailing>>
      /\ buf' = bufApp(w, At(r)) /\ w' = w + 1 /\ r' = r + 1 /\ pc' \in {"loop", "skip"}
  BY DEF Keep
<1>2. w < Size /\ At(r) \in Bytes /\ w <= r + Lead
  BY <1>1, Room DEF IInv, InBounds, Behind
<1>3. Lead = 0
  BY <1>1 DEF Lead, Rooted
<1>4. /\ buf' \in Seq(Cells) /\ Size' = Size /\ Lead' = Lead /\ n' = n
      /\ (Rooted' <=> Rooted) /\ (~Rooted' => buf' # <<>>)
      /\ (buf' # <<>> => Len(buf') = n' + Lead')
  BY <1>1, <1>2, WriteKeepsRoom
<1>5. TypeOK'
  BY <1>1, <1>4, Room DEF IInv, TypeOK, Cells
<1>6. Behind'
  BY <1>1, <1>2, <1>4, Room DEF Behind
<1>7. Owed'
  BY <1>1 DEF Owed
<1>8. InBounds'
  BY <1>1, <1>2, <1>3, <1>4, Room DEF InBounds
<1> QED
  BY <1>1, <1>4, <1>5, <1>6, <1>7, <1>8 DEF IInv

(* A slash that is skipped moves the reading only.                         *)
LEMMA SkipIInv ==
    ASSUME IInv, Skip
    PROVE  IInv'
<1>1. /\ pc = "skip" /\ UNCHANGED <<job, p, w, buf, trailing>>
      /\ r' \in Nat /\ r' >= r /\ pc' \in {"loop", "skip"}
  BY Room DEF Skip
<1>2. job = "repeat"
  BY <1>1 DEF IInv, TypeOK
<1>3. /\ n' = n /\ Lead' = Lead /\ Size' = Size /\ (Rooted' <=> Rooted)
  BY <1>1 DEF n, Lead, Size, Rooted
<1>4. TypeOK'
  BY <1>1 DEF IInv, TypeOK
<1>5. w <= r + Lead
  BY <1>1 DEF IInv, Behind
<1>6. Behind'
  BY <1>1, <1>2, <1>3, <1>5, Room DEF Behind
<1>7. Owed'
  BY <1>1, <1>2 DEF Owed
<1>8. InBounds'
  BY <1>1, <1>2, <1>3, <1>5, Room DEF IInv, InBounds
<1> QED
  BY <1>1, <1>2, <1>3, <1>4, <1>6, <1>7, <1>8 DEF IInv

(* The bounds speak of these variables only.                               *)
LEMMA StutterIInv ==
    ASSUME IInv, UNCHANGED cvars
    PROVE  IInv'
BY DEF cvars, IInv, TypeOK, Rooted, Lead, Behind, Owed, InBounds, Size, n, At

(* Every step keeps the bounds.                                            *)
LEMMA NextIInv == IInv /\ [Next]_cvars => IInv'
<1> SUFFICES ASSUME IInv, [Next]_cvars PROVE IInv'
  OBVIOUS
<1>1. CASE EmptyElement \/ LastDot \/ Dot
  BY <1>1, ReadingIInv
<1>2. CASE DotDot
  BY <1>2, DotDotIInv
<1>3. CASE Back
  BY <1>3, BackIInv
<1>4. CASE Element
  BY <1>4, ElementIInv
<1>5. CASE Copy
  BY <1>5, CopyIInv
<1>6. CASE Finish \/ FinishRepeat
  BY <1>6, FinishIInv
<1>7. CASE Keep
  BY <1>7, KeepIInv
<1>8. CASE Skip
  BY <1>8, SkipIInv
<1>9. CASE UNCHANGED cvars
  BY <1>9, StutterIInv
<1> QED
  BY <1>1, <1>2, <1>3, <1>4, <1>5, <1>6, <1>7, <1>8, <1>9 DEF Next

(* The strengthened invariant holds in every state of every run of         *)
(* cleanPath and removeRepeatedChar, on any set of strings.                *)
THEOREM PathInvariant == Spec => []IInv
<1>1. Init => IInv
  BY InitIInv
<1>2. IInv /\ [Next]_cvars => IInv'
  BY NextIInv
<1> QED
  BY <1>1, <1>2, PTL DEF Spec

(* No read of p, no write into the buffer and no result slice is out of    *)
(* range, whatever the path (path.go:23-146, 153-195).                     *)
THEOREM IndicesInBounds == Spec => []InBounds
<1>1. Spec => []IInv
  BY PathInvariant
<1>2. IInv => InBounds
  BY DEF IInv
<1> QED
  BY <1>1, <1>2, PTL

-----------------------------------------------------------------------------

(* Counting up: a set that holds 0, and with a number the next one up to m.*)
LEMMA CountUp ==
    ASSUME NEW m \in Nat, NEW T, 0 \in T, \A i \in 1..m : i - 1 \in T => i \in T
    PROVE  \A i \in 0..m : i \in T
<1>1. SUFFICES ASSUME (0..m) \ T # {} PROVE FALSE
  OBVIOUS
<1>2. PICK x \in (0..m) \ T : \A y \in (0..m) \ T : ~(<<y, x>> \in OpToRel(<, Nat))
  <2>1. (0..m) \ T \subseteq Nat
    OBVIOUS
  <2>. HIDE <1>1
  <2>. QED BY <1>1, <2>1, NatLessThanWellFounded, WFMin
<1>3. x \in 0..m /\ x \notin T
  OBVIOUS
<1>4. x # 0
  BY <1>3
<1>5. x \in 1..m /\ x - 1 \in 0..m /\ x - 1 \in Nat /\ x \in Nat /\ x - 1 < x
  BY <1>3, <1>4
<1>6. <<x - 1, x>> \in OpToRel(<, Nat)
  BY <1>5 DEF OpToRel
<1>7. x - 1 \in T
  BY <1>2, <1>5, <1>6
<1>. QED BY <1>3, <1>5, <1>7

(* The same for a property of the values of a function.                    *)
LEMMA Closed ==
    ASSUME NEW m \in Nat, NEW D, NEW g, g[0] \in D, \A i \in 1..m : g[i - 1] \in D => g[i] \in D
    PROVE  \A i \in 0..m : g[i] \in D
<1>. DEFINE T == {i \in 0..m : g[i] \in D}
<1>1. 0 \in T /\ \A i \in 1..m : i - 1 \in T => i \in T
  OBVIOUS
<1>. HIDE DEF T
<1>2. \A i \in 0..m : i \in T
  BY <1>1, CountUp
<1>. QED BY <1>2 DEF T

(* g is what the steps make of b, within D.                                *)
Solves(g, m, D, b, step) ==
    /\ g[0] = b /\ g[m] \in D
    /\ \A i \in 1..m : g[i - 1] \in D /\ g[i] = step[i][g[i - 1]]

(* A recursion over 0..m within a set has a solution.                      *)
LEMMA Recursion ==
    ASSUME NEW m \in Nat, NEW D, NEW b, b \in D,
           NEW step, \A i \in 1..m : \A x \in D : step[i][x] \in D
    PROVE  \E g : Solves(g, m, D, b, step)
<1>. DEFINE fits(g, k) == Solves(g, k, D, b, step)
            T == {k \in 0..m : \E g : fits(g, k)}
<1>1. 0 \in T
  <2>1. fits([i \in 0..0 |-> b], 0)
    BY DEF Solves
  <2>. HIDE DEF fits
  <2>. QED BY <2>1
<1>2. ASSUME NEW k \in 1..m, k - 1 \in T PROVE k \in T
  <2>1. PICK g : fits(g, k - 1)
    BY <1>2
  <2>. DEFINE h == [i \in 0..k |-> IF i < k THEN g[i] ELSE step[k][g[k - 1]]]
  <2>2. k \in 0..m /\ k - 1 \in 0..k
    OBVIOUS
  <2>3. \A i \in 0 .. k - 1 : h[i] = g[i]
    OBVIOUS
  <2>4. h[k] = step[k][g[k - 1]]
    OBVIOUS
  <2>. HIDE DEF h
  <2>5. h[0] = b /\ h[k] \in D
    BY <2>1, <2>3, <2>4 DEF Solves
  <2>6. ASSUME NEW i \in 1..k PROVE h[i - 1] \in D /\ h[i] = step[i][h[i - 1]]
    BY <2>1, <2>3, <2>4 DEF Solves
  <2>7. fits(h, k)
    BY <2>2, <2>5, <2>6 DEF Solves
  <2>. HIDE DEF fits
  <2>. QED BY <2>2, <2>7
<1>3. m \in T
  <2>. HIDE DEF T
  <2>1. \A k \in 1..m : k - 1 \in T => k \in T
    BY <1>2
  <2>2. \A k \in 0..m : k \in T
    BY <1>1, <2>1, CountUp
  <2>. QED BY <2>2
<1>. QED BY <1>3

(* Elements hold no slash, and none is empty.                              *)
Plain == Bytes \ {"/"}
Names == Seq(Plain) \ {<<>>}
Reading == [elements : Seq(Names), last : Seq(Plain)]

(* Entering an element leaves elements.                                    *)
LEMMA EnteredType ==
    ASSUME NEW e \in Seq(Names), NEW x \in Seq(Plain)
    PROVE  Entered(e, x) \in Seq(Names)
<1>1. e # <<>> => Front(e) \in Seq(Names)
  BY EmptySeq DEF Front
<1>2. x # <<>> => Append(e, x) \in Seq(Names)
  BY DEF Names
<1>. QED BY <1>1, <1>2, EmptySeq DEF Entered

(* What is read of a path, byte by byte.                                   *)
LEMMA ScanStep ==
    ASSUME NEW q \in Seq(Bytes)
    PROVE  /\ \A i \in 0..Len(q) : Scanned(q)[i] \in Reading
           /\ Scanned(q)[0] = [elements |-> <<>>, last |-> <<>>]
           /\ \A i \in 1..Len(q) : Scanned(q)[i] = Read(Scanned(q)[i - 1], q[i])
<1>. DEFINE start == [elements |-> <<>>, last |-> <<>>]
            step == [i \in 1..Len(q) |-> [s \in Reading |-> Read(s, q[i])]]
            fits(g) == g = [i \in 0..Len(q) |-> IF i = 0 THEN start ELSE Read(g[i - 1], q[i])]
<1>1. ASSUME NEW s \in Reading, NEW c \in Bytes PROVE Read(s, c) \in Reading
  <2>1. Entered(s.elements, s.last) \in Seq(Names)
    BY EnteredType DEF Reading
  <2>2. c # "/" => Append(s.last, c) \in Seq(Plain)
    BY DEF Reading, Plain
  <2>. QED BY <2>1, <2>2, EmptySeq DEF Read, Reading
<1>2. start \in Reading /\ Len(q) \in Nat
  BY EmptySeq DEF Reading
<1>3. \A i \in 1..Len(q) : \A x \in Reading : step[i][x] = Read(x, q[i]) /\ step[i][x] \in Reading
  BY <1>1
<1>4. PICK g : Solves(g, Len(q), Reading, start, step)
  <2>. HIDE DEF start, step
  <2>. QED BY <1>2, <1>3, Recursion
<1>5. g[0] = start /\ \A i \in 1..Len(q) : g[i] = Read(g[i - 1], q[i])
  <2>. HIDE DEF start, step
  <2>. QED BY <1>3, <1>4 DEF Solves
<1>. DEFINE h == [i \in 0..Len(q) |-> g[i]]
<1>6. fits(h)
  <2>1. \A i \in 0..Len(q) : g[i] = IF i = 0 THEN start ELSE Read(h[i - 1], q[i])
    <3>. HIDE DEF start
    <3>. QED BY <1>2, <1>5
  <2>. HIDE DEF start
  <2>. QED BY <2>1
<1>7. fits(Scanned(q))
  BY <1>6 DEF Scanned
<1>. HIDE DEF step
<1>8. Scanned(q)[0] = start /\ \A i \in 1..Len(q) : Scanned(q)[i] = Read(Scanned(q)[i - 1], q[i])
  <2>. HIDE DEF start
  <2>. QED BY <1>2, <1>7
<1>9. \A i \in 0..Len(q) : Scanned(q)[i] \in Reading
  <2>1. Scanned(q)[0] \in Reading
    BY <1>2, <1>8
  <2>2. \A i \in 1..Len(q) : Scanned(q)[i - 1] \in Reading => Scanned(q)[i] \in Reading
    BY <1>1, <1>8
  <2>. QED BY <1>2, <2>1, <2>2, Closed
<1>. QED BY <1>8, <1>9

(* What is kept of a string without repeated slashes, byte by byte.        *)
LEMMA CollapseStep ==
    ASSUME NEW q \in Seq(Bytes)
    PROVE  /\ \A i \in 0..Len(q) : Collapsed(q)[i] \in Seq(Bytes)
           /\ Collapsed(q)[0] = <<>>
           /\ \A i \in 1..Len(q) : Collapsed(q)[i] = Squeezed(Collapsed(q)[i - 1], q[i])
<1>. DEFINE step == [i \in 1..Len(q) |-> [s \in Seq(Bytes) |-> Squeezed(s, q[i])]]
            fits(g) == g = [i \in 0..Len(q) |-> IF i = 0 THEN <<>> ELSE Squeezed(g[i - 1], q[i])]
<1>1. ASSUME NEW s \in Seq(Bytes), NEW c \in Bytes PROVE Squeezed(s, c) \in Seq(Bytes)
  BY DEF Squeezed
<1>2. <<>> \in Seq(Bytes) /\ Len(q) \in Nat
  BY EmptySeq
<1>3. \A i \in 1..Len(q) : \A x \in Seq(Bytes) : step[i][x] = Squeezed(x, q[i]) /\ step[i][x] \in Seq(Bytes)
  BY <1>1
<1>4. PICK g : Solves(g, Len(q), Seq(Bytes), <<>>, step)
  <2>. HIDE DEF step
  <2>. QED BY <1>2, <1>3, Recursion
<1>5. g[0] = <<>> /\ \A i \in 1..Len(q) : g[i] = Squeezed(g[i - 1], q[i])
  <2>. HIDE DEF step
  <2>. QED BY <1>3, <1>4 DEF Solves
<1>. DEFINE h == [i \in 0..Len(q) |-> g[i]]
<1>6. fits(h)
  <2>1. \A i \in 0..Len(q) : g[i] = IF i = 0 THEN <<>> ELSE Squeezed(h[i - 1], q[i])
    BY <1>2, <1>5
  <2>. QED BY <2>1
<1>7. fits(Collapsed(q))
  BY <1>6 DEF Collapsed
<1>8. Collapsed(q)[0] = <<>> /\ \A i \in 1..Len(q) : Collapsed(q)[i] = Squeezed(Collapsed(q)[i - 1], q[i])
  BY <1>2, <1>7
<1>9. \A i \in 0..Len(q) : Collapsed(q)[i] \in Seq(Bytes)
  <2>1. Collapsed(q)[0] \in Seq(Bytes)
    BY <1>2, <1>8
  <2>2. ASSUME NEW i \in 1..Len(q), Collapsed(q)[i - 1] \in Seq(Bytes) PROVE Collapsed(q)[i] \in Seq(Bytes)
    <3>1. q[i] \in Bytes
      OBVIOUS
    <3>. QED BY <1>1, <1>8, <2>2, <3>1
  <2>. QED BY <1>2, <2>1, <2>2, Closed
<1>. QED BY <1>8, <1>9

(* j joins the first elements of e one after the other.                    *)
Joins(j, e) ==
    /\ j[0] = <<>> /\ Joined(e) = j[Len(e)]
    /\ \A i \in 1..Len(e) : j[i - 1] \in Seq(Bytes) /\ j[i] = Slashed(j[i - 1], e[i])

(* Joining has a value, and it is a string.                                *)
LEMMA JoinStep ==
    ASSUME NEW e \in Seq(Names)
    PROVE  Joined(e) \in Seq(Bytes) /\ \E j : Joins(j, e)
<1>. DEFINE step == [i \in 1..Len(e) |-> [s \in Seq(Bytes) |-> Slashed(s, e[i])]]
            fits(g) == g = [i \in 0..Len(e) |-> IF i = 0 THEN <<>> ELSE Slashed(g[i - 1], e[i])]
<1>1. ASSUME NEW s \in Seq(Bytes), NEW x \in Names PROVE Slashed(s, x) \in Seq(Bytes)
  <2>1. x \in Seq(Bytes) /\ <<"/">> \in Seq(Bytes)
    BY DEF Names, Plain, Bytes
  <2>. QED BY <2>1 DEF Slashed
<1>2. <<>> \in Seq(Bytes) /\ Len(e) \in Nat
  BY EmptySeq
<1>3. \A i \in 1..Len(e) : \A x \in Seq(Bytes) : step[i][x] = Slashed(x, e[i]) /\ step[i][x] \in Seq(Bytes)
  BY <1>1
<1>4. PICK g : Solves(g, Len(e), Seq(Bytes), <<>>, step)
  <2>. HIDE DEF step
  <2>. QED BY <1>2, <1>3, Recursion
<1>5. g[0] = <<>> /\ \A i \in 1..Len(e) : g[i] = Slashed(g[i - 1], e[i])
  <2>. HIDE DEF step
  <2>. QED BY <1>3, <1>4 DEF Solves
<1>. DEFINE h == [i \in 0..Len(e) |-> g[i]]
<1>6. fits(h)
  <2>1. \A i \in 0..Len(e) : g[i] = IF i = 0 THEN <<>> ELSE Slashed(h[i - 1], e[i])
    BY <1>2, <1>5
  <2>. QED BY <2>1
<1>7. PICK j : fits(j) /\ Joined(e) = j[Len(e)]
  BY <1>6 DEF Joined
<1>8. j[0] = <<>> /\ \A i \in 1..Len(e) : j[i] = Slashed(j[i - 1], e[i])
  BY <1>2, <1>7
<1>9. \A i \in 0..Len(e) : j[i] \in Seq(Bytes)
  <2>1. j[0] \in Seq(Bytes)
    BY <1>2, <1>8
  <2>2. ASSUME NEW i \in 1..Len(e), j[i - 1] \in Seq(Bytes) PROVE j[i] \in Seq(Bytes)
    <3>1. e[i] \in Names
      OBVIOUS
    <3>. QED BY <1>1, <1>8, <2>2, <3>1
  <2>. QED BY <1>2, <2>1, <2>2, Closed
<1>10. Joins(j, e)
  BY <1>2, <1>7, <1>8, <1>9 DEF Joins
<1>. QED BY <1>2, <1>7, <1>9, <1>10

(* The elements are joined from left to right: one more goes to the end.   *)
LEMMA JoinedAppend ==
    ASSUME NEW e \in Seq(Names), NEW x \in Names
    PROVE  Joined(Append(e, x)) = Slashed(Joined(e), x)
<1>. DEFINE f == Append(e, x)
<1>1. f \in Seq(Names) /\ Len(f) = Len(e) + 1 /\ Len(e) \in Nat /\ f[Len(e) + 1] = x
      /\ \A i \in 1..Len(e) : f[i] = e[i]
  BY AppendProperties
<1>. HIDE DEF f
<1>2. PICK j : Joins(j, e)
  BY JoinStep
<1>3. PICK k : Joins(k, f)
  BY <1>1, JoinStep
<1>4. \A i \in 0..Len(e) : k[i] = j[i]
  <2>. DEFINE T == {i \in 0..Len(e) : k[i] = j[i]}
  <2>1. 0 \in T
    BY <1>1, <1>2, <1>3 DEF Joins
  <2>2. \A i \in 1..Len(e) : i - 1 \in T => i \in T
    BY <1>1, <1>2, <1>3 DEF Joins
  <2>. HIDE DEF T
  <2>3. \A i \in 0..Len(e) : i \in T
    BY <1>1, <2>1, <2>2, CountUp
  <2>. QED BY <2>3 DEF T
<1>5. k[Len(e) + 1] = Slashed(k[Len(e)], x)
  BY <1>1, <1>3 DEF Joins
<1>. QED BY <1>1, <1>2, <1>3, <1>4, <1>5 DEF Joins, f

(* No elements, no string.                                                 *)
LEMMA JoinedNone == Joined(<<>>) = <<>>
<1>1. <<>> \in Seq(Names) /\ Len(<<>>) = 0
  BY EmptySeq
<1>. QED BY <1>1, JoinStep DEF Joins

(* What the code has: the written string and what is left of the path, and *)
(* what the reference has read so far.                                     *)
Content == IF buf = <<>> THEN p ELSE buf
Elems(i) == Scanned(p)[i].elements
Open(i) == Scanned(p)[i].last
Root(e) == IF e = <<>> THEN <<"/">> ELSE Joined(e)
Reached == IF r < n THEN r ELSE n
Now == Entered(Elems(Reached), Open(Reached))

(* The result so far is the first w bytes of the content.                  *)
LEMMA ContentFacts ==
    ASSUME IInv
    PROVE  /\ Content \in Seq(Cells) /\ Len(Content) = Size /\ w \in 0..Size
           /\ Result \in Seq(Cells) /\ Len(Result) = w
           /\ \A i \in 1..w : Result[i] = Content[i]
<1>1. Content \in Seq(Cells) /\ Len(Content) = Size
  <2>1. p \in Seq(Cells)
    BY Room DEF Cells
  <2>. QED BY <2>1, Room DEF Content, Size, n
<1>2. w \in 0..Size /\ Size \in Nat
  BY Room DEF IInv, InBounds
<1>3. Result = SubSeq(Content, 1, w)
  BY DEF Result, Content
<1>4. \A i \in 1..w : Content[i] \in Cells
  BY <1>1, <1>2
<1>. HIDE DEF Content
<1>5. Result \in Seq(Cells) /\ Len(Result) = w /\ \A i \in 1..w : Result[i] = Content[i]
  BY <1>2, <1>3, <1>4, SubSeqProperties
<1>. QED BY <1>1, <1>2, <1>5

(* bufApp writes one byte, and what is before it stays.                    *)
LEMMA WriteAppends ==
    ASSUME IInv, NEW c \in Bytes, w < Size, buf' = bufApp(w, c), w' = w + 1, UNCHANGED <<job, p>>
    PROVE  /\ Result' = Append(Result, c)
           /\ \A i \in 1..w : Content'[i] = Content[i]
           /\ Content'[w + 1] = c
<1>1. /\ Content \in Seq(Cells) /\ Len(Content) = Size /\ w \in 0..Size /\ w \in Nat
      /\ Result \in Seq(Cells) /\ Len(Result) = w
      /\ \A i \in 1..w : Result[i] = Content[i]
  BY ContentFacts, Room
<1>2. buf' \in Seq(Cells) /\ p \in Seq(Cells) /\ p' = p /\ c \in Cells /\ w + 1 \in 1..Size
  BY <1>1, WriteKeepsRoom, Room DEF Cells
<1>3. (\A i \in 1..w : Content'[i] = Content[i]) /\ Content'[w + 1] = c /\ Len(Content') = Size
  <2>1. CASE buf # <<>>
    <3>1. buf' = [buf EXCEPT ![w + 1] = c] /\ Content = buf
      BY <2>1 DEF bufApp, Content
    <3>2. w + 1 \in 1..Len(buf) /\ buf \in Seq(Cells)
      BY <1>1, <1>2, <3>1
    <3>3. Len(buf') = Len(buf) /\ \A i \in 1..Len(buf) : buf'[i] = IF i = w + 1 THEN c ELSE buf[i]
      BY <1>2, <3>1, <3>2, ExceptSeq
    <3>4. Content' = buf'
      BY <1>1, <1>2, <3>1, <3>3, EmptySeq DEF Content
    <3>. QED BY <1>1, <3>1, <3>2, <3>3, <3>4
  <2>2. CASE buf = <<>> /\ At(w) = c
    <3>1. Content = p /\ Content' = p
      BY <2>2, <1>2 DEF bufApp, Content
    <3>. QED BY <1>1, <2>2, <3>1 DEF At
  <2>3. CASE buf = <<>> /\ At(w) # c
    <3>1. buf' = [j \in 1..n |-> IF j <= w THEN p[j] ELSE IF j = w + 1 THEN c ELSE "zero"] /\ Content = p
      BY <2>3 DEF bufApp, Content
    <3>2. n \in Nat /\ n = Size
      BY <1>1, <3>1, Room DEF n
    <3>3. \A i \in 1..n : buf'[i] = IF i <= w THEN p[i] ELSE IF i = w + 1 THEN c ELSE "zero"
      BY <3>1
    <3>4. Len(buf') = n
      BY <1>2, <3>1, <3>2
    <3>5. Content' = buf'
      BY <1>1, <1>2, <3>2, <3>4, EmptySeq DEF Content
    <3>. QED BY <1>1, <1>2, <3>1, <3>2, <3>3, <3>4, <3>5
  <2>. QED BY <2>1, <2>2, <2>3
<1>4. Content' \in Seq(Cells)
  BY <1>2 DEF Content
<1>5. Result' = SubSeq(Content', 1, w + 1)
  BY DEF Result, Content
<1>. HIDE DEF Content
<1>6. \A i \in 1..w + 1 : Content'[i] \in Cells
  BY <1>1, <1>2, <1>3, <1>4
<1>7. Result' \in Seq(Cells) /\ Len(Result') = w + 1 /\ \A i \in 1..w + 1 : Result'[i] = Content'[i]
  BY <1>1, <1>5, <1>6, SubSeqProperties
<1>8. Append(Result, c) \in Seq(Cells) /\ Len(Append(Result, c)) = w + 1
      /\ Append(Result, c)[w + 1] = c
      /\ \A i \in 1..w : Append(Result, c)[i] = Result[i]
  BY <1>1, <1>2, AppendProperties
<1>9. \A i \in 1..w + 1 : Result'[i] = Append(Result, c)[i]
  BY <1>1, <1>3, <1>7, <1>8
<1>10. Result' = Append(Result, c)
  BY <1>1, <1>7, <1>8, <1>9, SeqEqual
<1>. QED BY <1>3, <1>10

(* A list of elements that is not empty ends in one.                       *)
LEMMA FrontAppend ==
    ASSUME NEW e \in Seq(Names), e # <<>>
    PROVE  Front(e) \in Seq(Names) /\ Last(e) \in Names /\ e = Append(Front(e), Last(e))
<1>1. PICK f \in Seq(Names), x \in Names : e = Append(f, x)
  BY SequenceEmptyOrAppend
<1>2. /\ Len(e) = Len(f) + 1 /\ Len(f) \in Nat /\ e[Len(f) + 1] = x
      /\ \A i \in 1..Len(f) : e[i] = f[i]
  BY <1>1, AppendProperties
<1>3. Last(e) = x
  BY <1>2 DEF Last
<1>4. Front(e) = SubSeq(e, 1, Len(f))
  BY <1>2 DEF Front
<1>5. \A i \in 1..Len(f) : e[i] \in Names
  BY <1>2
<1>6. /\ SubSeq(e, 1, Len(f)) \in Seq(Names) /\ Len(SubSeq(e, 1, Len(f))) = Len(f)
      /\ \A i \in 1..Len(f) : SubSeq(e, 1, Len(f))[i] = e[i]
  BY <1>2, <1>5, SubSeqProperties
<1>7. SubSeq(e, 1, Len(f)) = f
  BY <1>2, <1>6, SeqEqual
<1>. QED BY <1>1, <1>3, <1>4, <1>7

(* Every joined element brings a slash and a byte at least.                *)
LEMMA RootFacts ==
    ASSUME NEW e \in Seq(Names)
    PROVE  /\ Joined(e) \in Seq(Bytes) /\ Root(e) \in Seq(Bytes)
           /\ e = <<>> => Len(Joined(e)) = 0 /\ Len(Root(e)) = 1
           /\ e # <<>> => Len(Joined(e)) >= 2 /\ Root(e) = Joined(e)
<1>1. Joined(e) \in Seq(Bytes)
  BY JoinStep
<1>2. CASE e = <<>>
  <2>1. Root(e) = <<"/">> /\ Joined(e) = <<>> /\ "/" \in Bytes
    BY <1>2, JoinedNone DEF Root, Bytes
  <2>2. <<"/">> \in Seq(Bytes) /\ Len(<<"/">>) = 1 /\ Len(<<>>) = 0
    BY <2>1
  <2>. QED BY <1>1, <1>2, <2>1, <2>2
<1>3. CASE e # <<>>
  <2>1. Joined(e) = Slashed(Joined(Front(e)), Last(e)) /\ Last(e) \in Names /\ Front(e) \in Seq(Names)
    BY <1>3, FrontAppend, JoinedAppend
  <2>2. Joined(Front(e)) \in Seq(Bytes)
    BY <2>1, JoinStep
  <2>3. Last(e) \in Seq(Bytes) /\ Len(Last(e)) >= 1 /\ <<"/">> \in Seq(Bytes) /\ Len(<<"/">>) = 1
    BY <2>1, EmptySeq DEF Names, Plain, Bytes
  <2>4. Len(Joined(e)) >= 2
    BY <2>1, <2>2, <2>3 DEF Slashed
  <2>. QED BY <1>1, <1>3, <2>4 DEF Root
<1>. QED BY <1>2, <1>3

(* A real element starts at s.                                             *)
RealAt(s) ==
    /\ p[s + 1] # "/"
    /\ p[s + 1] = "." =>
           /\ s + 1 < n /\ p[s + 2] # "/"
           /\ p[s + 2] = "." => s + 2 < n /\ p[s + 3] # "/"
Start == r - Len(Open(r))

(* The loop of cleanPath against the elements read: at the loop's head,    *)
(* within a copy, within the descent after "..", and at the end.           *)
LoopInv ==
    pc = "loop" =>
        /\ Result = Root(Now)
        /\ r < n => Open(r) = <<>> \/ At(r) = "/"
CopyInv ==
    pc = "copy" =>
        /\ Result = Slashed(Joined(Elems(r)), Open(r))
        /\ Start \in 0 .. n - 1 /\ RealAt(Start)
        /\ \A k \in 1..Len(Open(r)) : Open(r)[k] = p[Start + k]
BackInv ==
    pc = "back" =>
        /\ w >= Len(Joined(Now)) /\ w >= 1 /\ w < Size
        /\ \A i \in 1..Len(Joined(Now)) : Content[i] = Joined(Now)[i]
        /\ Content[Len(Joined(Now)) + 1] = "/"
        /\ \A i \in Len(Joined(Now)) + 2 .. w + 1 : Content[i] # "/"
        /\ r < n => Open(r) = <<>>
SlashInv ==
    pc # "done" =>
        (trailing <=> (n > 1 /\ p[n] = "/") \/ (r >= n /\ pc # "copy" /\ Open(n) = <<".">>))
DoneInv == pc = "done" => Result = Canonical(p)
ReadInv == job = "clean" => LoopInv /\ CopyInv /\ BackInv /\ SlashInv /\ DoneInv

(* What one more byte makes of what was read.                              *)
LEMMA ScanFacts ==
    ASSUME IInv
    PROVE  /\ Elems(0) = <<>> /\ Open(0) = <<>> /\ n \in Nat
           /\ \A i \in 0..n : /\ Elems(i) \in Seq(Names) /\ Open(i) \in Seq(Plain)
                              /\ Entered(Elems(i), Open(i)) \in Seq(Names)
           /\ \A i \in 0 .. n - 1 : p[i + 1] = "/" => Elems(i + 1) = Entered(Elems(i), Open(i)) /\ Open(i + 1) = <<>>
           /\ \A i \in 0 .. n - 1 : p[i + 1] # "/" => Elems(i + 1) = Elems(i) /\ Open(i + 1) = Append(Open(i), p[i + 1])
<1>1. p \in Seq(Bytes) /\ n = Len(p) /\ n \in Nat
  BY Room DEF n
<1>2. /\ \A i \in 0..n : Scanned(p)[i] \in Reading
      /\ Scanned(p)[0] = [elements |-> <<>>, last |-> <<>>]
      /\ \A i \in 1..n : Scanned(p)[i] = Read(Scanned(p)[i - 1], p[i])
  BY <1>1, ScanStep
<1>3. Elems(0) = <<>> /\ Open(0) = <<>>
  BY <1>2 DEF Elems, Open
<1>4. ASSUME NEW i \in 0..n
      PROVE  /\ Elems(i) \in Seq(Names) /\ Open(i) \in Seq(Plain)
             /\ Entered(Elems(i), Open(i)) \in Seq(Names)
  <2>1. Elems(i) \in Seq(Names) /\ Open(i) \in Seq(Plain)
    BY <1>2 DEF Reading, Elems, Open
  <2>. QED BY <2>1, EnteredType
<1>5. ASSUME NEW i \in 0 .. n - 1
      PROVE  /\ p[i + 1] = "/" => Elems(i + 1) = Entered(Elems(i), Open(i)) /\ Open(i + 1) = <<>>
             /\ p[i + 1] # "/" => Elems(i + 1) = Elems(i) /\ Open(i + 1) = Append(Open(i), p[i + 1])
  <2>1. Scanned(p)[i + 1] = Read(Scanned(p)[i], p[i + 1])
    BY <1>1, <1>2
  <2>. QED BY <2>1 DEF Read, Elems, Open
<1>. QED BY <1>1, <1>3, <1>4, <1>5

(* Nothing of what was read changes with the state.                        *)
LEMMA SameReading ==
    ASSUME p' = p
    PROVE  /\ n' = n /\ \A i : Elems(i)' = Elems(i) /\ Open(i)' = Open(i) /\ RealAt(i)' = RealAt(i)
           /\ Canonical(p)' = Canonical(p)
BY DEF n, Elems, Open, RealAt

(* Entered, case by case.                                                  *)
LEMMA EnteredCases ==
    ASSUME NEW e
    PROVE  /\ Entered(e, <<>>) = e /\ Entered(e, <<".">>) = e
           /\ e = <<>> => Entered(e, <<".", ".">>) = <<>>
           /\ e # <<>> => Entered(e, <<".", ".">>) = Front(e)
           /\ \A x : x \notin {<<>>, <<".">>, <<".", ".">>} => Entered(e, x) = Append(e, x)
<1>1. <<".", ".">> # <<>> /\ <<".", ".">> # <<".">> /\ <<>> # <<".", ".">>
  OBVIOUS
<1>. QED BY <1>1 DEF Entered

(* The same, for one byte.                                                 *)
LEMMA ReadByte ==
    ASSUME IInv, NEW i \in Nat, NEW k, k = i + 1, i < n
    PROVE  /\ p[k] = "/" => Elems(k) = Entered(Elems(i), Open(i)) /\ Open(k) = <<>>
           /\ p[k] # "/" => Elems(k) = Elems(i) /\ Open(k) = Append(Open(i), p[k])
BY ScanFacts

(* One dot, and two.                                                       *)
LEMMA Dots ==
    /\ Append(<<>>, ".") = <<".">> /\ Append(<<".">>, ".") = <<".", ".">>
    /\ <<".", ".">> # <<>> /\ <<".", ".">> # <<".">> /\ <<".">> # <<>>
<1>. DEFINE S == {"."}
<1>1. <<>> \in Seq(S) /\ <<".">> \in Seq(S) /\ <<".", ".">> \in Seq(S) /\ "." \in S
  OBVIOUS
<1>2. Append(<<>>, ".") \in Seq(S) /\ Len(Append(<<>>, ".")) = 1 /\ Append(<<>>, ".")[1] = "."
  BY <1>1, AppendProperties
<1>3. /\ Append(<<".">>, ".") \in Seq(S) /\ Len(Append(<<".">>, ".")) = 2
      /\ Append(<<".">>, ".")[1] = "." /\ Append(<<".">>, ".")[2] = "."
  BY <1>1, AppendProperties
<1>. HIDE DEF S
<1>4. Append(<<>>, ".") = <<".">>
  BY <1>1, <1>2, SeqEqual
<1>5. Append(<<".">>, ".") = <<".", ".">>
  <2>1. Len(<<".", ".">>) = 2 /\ <<".", ".">>[1] = "." /\ <<".", ".">>[2] = "."
    OBVIOUS
  <2>2. \A i \in 1..2 : Append(<<".">>, ".")[i] = <<".", ".">>[i]
    BY <1>3, <2>1
  <2>. QED BY <1>1, <1>3, <2>1, <2>2, SeqEqual
<1>6. <<".", ".">> # <<>> /\ <<".", ".">> # <<".">> /\ <<".">> # <<>>
  OBVIOUS
<1>. QED BY <1>4, <1>5, <1>6

(* "" and "." leave the elements and the result alone (path.go:63-73).     *)
LEMMA SkipsRead ==
    ASSUME IInv, ReadInv, EmptyElement \/ LastDot \/ Dot
    PROVE  ReadInv'
<1>1. /\ job = "clean" /\ pc = "loop" /\ r < n /\ pc' = "loop"
      /\ UNCHANGED <<job, p, w, buf, pc>> /\ r \in Nat /\ n \in Nat /\ r \in 0..n - 1 /\ p[r + 1] = At(r)
  BY Room DEF EmptyElement, LastDot, Dot, Cleaning, At
<1>2. Result = Root(Now) /\ (Open(r) = <<>> \/ At(r) = "/") /\ Now = Entered(Elems(r), Open(r))
      /\ (trailing <=> n > 1 /\ p[n] = "/")
  BY <1>1 DEF ReadInv, LoopInv, SlashInv, Now, Reached
<1>3. Result' = Result
  BY <1>1 DEF Result
<1>4. /\ r' \in Nat /\ r' \in 0..n /\ r' > 0 /\ Entered(Elems(r'), Open(r')) = Now
      /\ r' < n => Open(r') = <<>>
      /\ trailing' <=> (n > 1 /\ p[n] = "/") \/ (r' = n /\ Open(n) = <<".">>)
  <2>1. CASE EmptyElement
    <3>1. r' = r + 1 /\ At(r) = "/" /\ trailing' = trailing
      BY <2>1 DEF EmptyElement
    <3>2. Elems(r + 1) = Now /\ Open(r + 1) = <<>>
      BY <1>1, <1>2, <3>1, ScanFacts
    <3>. QED BY <1>1, <1>2, <3>1, <3>2, EnteredCases
  <2>2. CASE LastDot
    <3>1. r' = n /\ r + 1 = n /\ At(r) = "." /\ trailing' = TRUE
      BY <2>2 DEF LastDot
    <3>2. Elems(n) = Elems(r) /\ Open(n) = <<".">>
      BY <1>1, <1>2, <3>1, ReadByte, Dots
    <3>. QED BY <1>1, <1>2, <3>1, <3>2, EnteredCases
  <2>3. CASE Dot
    <3>1. r' = r + 2 /\ r + 1 \in 0..n - 1 /\ At(r) = "." /\ p[r + 2] = "/" /\ trailing' = trailing /\ r + 2 \in 0..n
      BY <1>1, <2>3 DEF Dot, At
    <3>2. Elems(r + 1) = Elems(r) /\ Open(r + 1) = <<".">>
      BY <1>1, <1>2, <3>1, ReadByte, Dots
    <3>3. Elems(r + 2) = Entered(Elems(r + 1), Open(r + 1)) /\ Open(r + 2) = <<>>
      BY <1>1, <3>1, <3>2, ReadByte
    <3>4. Elems(r + 2) = Elems(r)
      BY <3>2, <3>3, EnteredCases
    <3>. QED BY <1>1, <1>2, <3>1, <3>3, <3>4, EnteredCases
  <2>. QED BY <2>1, <2>2, <2>3
<1>5. Reached' = r'
  BY <1>1, <1>4, SameReading DEF Reached
<1>6. Now' = Now
  BY <1>1, <1>4, <1>5, SameReading DEF Now
<1>7. Root(Now)' = Root(Now)
  BY <1>6 DEF Root
<1>8. LoopInv'
  BY <1>1, <1>2, <1>3, <1>4, <1>7, SameReading DEF LoopInv
<1>9. SlashInv'
  BY <1>1, <1>4, SameReading DEF SlashInv
<1>. QED BY <1>1, <1>8, <1>9 DEF ReadInv, CopyInv, BackInv, DoneInv

(* The slash between a text and the element after it.                      *)
LEMMA SlashedFacts ==
    ASSUME NEW s \in Seq(Bytes), NEW x \in Seq(Plain)
    PROVE  /\ Slashed(s, x) \in Seq(Bytes)
           /\ Len(Slashed(s, x)) = Len(s) + 1 + Len(x)
           /\ \A i \in 1..Len(s) : Slashed(s, x)[i] = s[i]
           /\ Slashed(s, x)[Len(s) + 1] = "/"
           /\ \A i \in 1..Len(x) : Slashed(s, x)[Len(s) + 1 + i] = x[i]
           /\ \A i \in Len(s) + 2 .. Len(s) + 1 + Len(x) : Slashed(s, x)[i] # "/"
<1>1. <<"/">> \in Seq(Bytes) /\ Len(<<"/">>) = 1 /\ <<"/">>[1] = "/" /\ Len(s) \in Nat /\ Len(x) \in Nat
      /\ x \in Seq(Bytes) /\ \A i \in 1..Len(x) : x[i] # "/"
  BY DEF Bytes, Plain
<1>. DEFINE t == s \o <<"/">>
<1>2. t \in Seq(Bytes) /\ Len(t) = Len(s) + 1 /\ t[Len(s) + 1] = "/" /\ \A i \in 1..Len(s) : t[i] = s[i]
  BY <1>1, ConcatProperties
<1>. HIDE DEF t
<1>3. /\ t \o x \in Seq(Bytes) /\ Len(t \o x) = Len(t) + Len(x)
      /\ \A i \in 1..Len(t) + Len(x) : (t \o x)[i] = IF i <= Len(t) THEN t[i] ELSE x[i - Len(t)]
  <2>1. t \in Seq(Bytes) /\ x \in Seq(Bytes)
    BY <1>1, <1>2
  <2>. QED BY <2>1, ConcatProperties
<1>4. \A i \in 1..Len(x) : (t \o x)[Len(s) + 1 + i] = x[i]
  BY <1>1, <1>2, <1>3
<1>5. \A i \in Len(s) + 2 .. Len(s) + 1 + Len(x) : (t \o x)[i] # "/"
  BY <1>1, <1>2, <1>3
<1>6. Slashed(s, x) = t \o x
  BY DEF Slashed, t
<1>. QED BY <1>1, <1>2, <1>3, <1>4, <1>5, <1>6

(* ".." takes the last element from the result (path.go:75-92).            *)
LEMMA DotDotRead ==
    ASSUME IInv, ReadInv, DotDot
    PROVE  ReadInv'
<1>1. /\ job = "clean" /\ pc = "loop" /\ r \in Nat /\ n \in Nat /\ w \in Nat /\ r + 1 < n /\ r' = r + 3
      /\ p[r + 1] = "." /\ p[r + 2] = "." /\ (r + 2 < n => p[r + 3] = "/") /\ At(r) = "."
      /\ UNCHANGED <<job, p, buf, trailing>>
      /\ w > 1 => w' = w - 1 /\ pc' = "back"
      /\ w <= 1 => w' = w /\ pc' = "loop"
  BY Room DEF DotDot, Cleaning, IsDotDot, At
<1>2. Result = Root(Now) /\ Open(r) = <<>> /\ Now = Entered(Elems(r), Open(r))
      /\ (trailing <=> n > 1 /\ p[n] = "/")
  BY <1>1 DEF ReadInv, LoopInv, SlashInv, Now, Reached
<1>. DEFINE e == Elems(r)
            f == Entered(e, <<".", ".">>)
<1>3. e \in Seq(Names) /\ Now = e /\ Result = Root(e)
  BY <1>1, <1>2, ScanFacts, EnteredCases
<1>4. Elems(r + 1) = e /\ Open(r + 1) = <<".">>
  BY <1>1, <1>2, ReadByte, Dots
<1>5. Elems(r + 2) = e /\ Open(r + 2) = <<".", ".">>
  <2>1. r + 1 \in Nat /\ r + 2 = (r + 1) + 1 /\ "." # "/"
    BY <1>1
  <2>2. Elems(r + 2) = Elems(r + 1) /\ Open(r + 2) = Append(Open(r + 1), p[r + 2])
    BY <1>1, <2>1, ReadByte
  <2>. QED BY <1>1, <1>4, <2>2, Dots
<1>6. r + 2 < n => Elems(r + 3) = f /\ Open(r + 3) = <<>>
  BY SMTT(60), <1>1, <1>5, ReadByte
<1>7. Now' = f /\ (r' < n => Open(r') = <<>>) /\ (r' >= n => Open(n) # <<".">>)
  <2>1. CASE r + 2 < n
    <3>1. Reached' = r + 3 /\ r + 3 \in Nat /\ r + 3 <= n
      BY <1>1, <2>1, SameReading DEF Reached
    <3>2. Now' = Entered(f, <<>>)
      BY <1>6, <2>1, <3>1, SameReading, <1>1 DEF Now
    <3>. QED BY <1>1, <1>6, <2>1, <3>1, <3>2, EnteredCases
  <2>2. CASE r + 2 = n
    <3>1. Reached' = r + 2
      BY <1>1, <2>2, SameReading DEF Reached
    <3>2. Now' = f
      BY <1>5, <3>1, SameReading, <1>1 DEF Now
    <3>. QED BY SMTT(60), <1>1, <1>5, <2>2, <3>2, Dots
  <2>. QED BY <1>1, <2>1, <2>2
<1>8. SlashInv'
  BY <1>1, <1>2, <1>7, SameReading DEF SlashInv
<1>. HIDE DEF e, f
<1>9. Len(Result) = w /\ Size \in Nat /\ w <= Size /\ \A i \in 1..w : Result[i] = Content[i]
  BY ContentFacts, Room
<1>10. CASE w <= 1
  <2>1. e = <<>>
    BY <1>3, <1>9, <1>10, RootFacts
  <2>2. f = <<>>
    BY <2>1, EnteredCases DEF f
  <2>3. Result' = Result /\ Root(Now)' = Root(Now)
    BY <1>1, <1>3, <1>7, <1>10, <2>1, <2>2 DEF Result, Root
  <2>4. LoopInv'
    BY <1>1, <1>2, <1>7, <1>10, <2>3, SameReading DEF LoopInv
  <2>. QED BY <1>1, <1>8, <1>10, <2>4 DEF ReadInv, CopyInv, BackInv, DoneInv
<1>11. CASE w > 1
  <2>1. e # <<>>
    <3>1. e = <<>> => Len(Root(e)) = 1
      BY <1>3, RootFacts
    <3>. QED BY <1>3, <1>9, <1>11, <3>1
  <2>2. f = Front(e) /\ f \in Seq(Names) /\ Last(e) \in Names /\ e = Append(f, Last(e))
    BY <1>3, <2>1, EnteredCases, FrontAppend DEF f
  <2>3. Result = Slashed(Joined(f), Last(e))
    BY <1>3, <2>1, <2>2, JoinedAppend, RootFacts
  <2>. DEFINE J == Joined(f)
              l == Last(e)
  <2>4. J \in Seq(Bytes) /\ l \in Seq(Plain) /\ Len(l) >= 1 /\ Len(J) \in Nat /\ Len(l) \in Nat
    BY <2>2, JoinStep, EmptySeq DEF Names
  <2>. HIDE DEF J, l
  <2>5. /\ Len(Result) = Len(J) + 1 + Len(l)
        /\ \A i \in 1..Len(J) : Result[i] = J[i]
        /\ Result[Len(J) + 1] = "/"
        /\ \A i \in Len(J) + 2 .. Len(J) + 1 + Len(l) : Result[i] # "/"
    <3>1. Result = Slashed(J, l)
      BY <2>3 DEF J, l
    <3>. QED BY <2>4, <3>1, SlashedFacts
  <2>6. Joined(Now)' = J /\ Content' = Content /\ Size' = Size
    BY <1>1, <1>7, SameReading DEF J, Content, Size
  <2>7. BackInv'
    BY <1>1, <1>7, <1>9, <1>11, <2>4, <2>5, <2>6, SameReading DEF BackInv
  <2>. QED BY <1>1, <1>8, <1>11, <2>7 DEF ReadInv, CopyInv, LoopInv, DoneInv
<1>. QED BY <1>1, <1>10, <1>11

(* The descent stops at the slash before that element (path.go:80-90).     *)
LEMMA BackRead ==
    ASSUME IInv, ReadInv, Back
    PROVE  ReadInv'
<1>1. /\ pc = "back" /\ job = "clean" /\ r \in Nat /\ n \in Nat /\ w \in Nat /\ UNCHANGED <<job, p, r, buf, trailing>>
  BY Room DEF Back, IInv, TypeOK
<1>. DEFINE f == Now
            J == Joined(f)
<1>2. /\ w >= Len(J) /\ w >= 1 /\ w < Size /\ SlashInv
      /\ \A i \in 1..Len(J) : Content[i] = J[i]
      /\ Content[Len(J) + 1] = "/"
      /\ \A i \in Len(J) + 2 .. w + 1 : Content[i] # "/"
      /\ r < n => Open(r) = <<>>
  BY <1>1 DEF ReadInv, BackInv
<1>3. f \in Seq(Names) /\ J \in Seq(Bytes) /\ Len(J) \in Nat
  <2>1. Reached \in 0..n
    BY <1>1 DEF Reached
  <2>2. f \in Seq(Names)
    BY <2>1, ScanFacts DEF Now
  <2>. QED BY <2>2, RootFacts
<1>4. Written(w) = Content[w + 1]
  BY DEF Written, Content, At
<1>5. Now' = f /\ Joined(Now)' = J /\ Content' = Content /\ Size' = Size
  BY <1>1, SameReading DEF Now, Reached, Content, Size
<1>. HIDE DEF f, J
<1>6. CASE w > 1 /\ Written(w) # "/"
  <2>1. w' = w - 1 /\ pc' = "back"
    BY <1>1, <1>6 DEF Back
  <2>2. w # Len(J)
    BY <1>2, <1>4, <1>6
  <2>3. BackInv'
    <3>1. w - 1 >= Len(J) /\ w - 1 >= 1 /\ w - 1 < Size
      BY <1>1, <1>2, <1>3, <1>6, <2>2, Room
    <3>2. \A i \in Len(J) + 2 .. w : Content[i] # "/"
      BY <1>1, <1>2, <1>3
    <3>3. w' + 1 = w
      BY <1>1, <2>1
    <3>4. (r < n => Open(r) = <<>>)'
      BY <1>1, <1>2, SameReading
    <3>. QED BY <1>2, <1>5, <2>1, <3>1, <3>2, <3>3, <3>4 DEF BackInv
  <2>4. SlashInv'
    BY <1>1, <1>2, <2>1, SameReading DEF SlashInv
  <2>. QED BY <1>1, <2>1, <2>3, <2>4 DEF ReadInv, LoopInv, CopyInv, DoneInv
<1>7. CASE ~(w > 1 /\ Written(w) # "/")
  <2>1. w' = w /\ pc' = "loop"
    BY <1>1, <1>7 DEF Back
  <2>2. /\ Len(Result) = w /\ Result \in Seq(Cells) /\ \A i \in 1..w : Result[i] = Content[i]
    BY ContentFacts
  <2>3. J \in Seq(Cells) /\ Root(f) \in Seq(Cells)
    BY <1>3, RootFacts DEF Cells
  <2>4. ASSUME f = <<>> PROVE Result = Root(f)
    <3>1. Len(J) = 0 /\ Root(f) = <<"/">>
      BY <1>3, <2>4, RootFacts DEF Root, J
    <3>2. w = 1
      BY <1>1, <1>2, <1>4, <1>7, <3>1
    <3>3. Result[1] = "/"
      BY <1>2, <2>2, <3>1, <3>2
    <3>. QED BY <2>2, <2>3, <3>1, <3>2, <3>3, SeqEqual
  <2>5. ASSUME f # <<>> PROVE Result = Root(f)
    <3>1. Len(J) >= 2 /\ Root(f) = J
      BY <1>3, <2>5, RootFacts DEF J
    <3>2. w = Len(J)
      BY <1>1, <1>2, <1>3, <1>4, <1>7, <3>1
    <3>3. \A i \in 1..Len(Result) : Result[i] = J[i]
      BY <1>2, <2>2, <3>2
    <3>. QED BY <2>2, <2>3, <3>1, <3>2, <3>3, SeqEqual
  <2>6. Result = Root(f)
    BY <2>4, <2>5
  <2>7. Result' = Result /\ Root(Now)' = Root(f)
    BY <1>1, <1>5, <2>1 DEF Result, Root
  <2>8. LoopInv'
    BY <1>1, <1>2, <2>1, <2>6, <2>7, SameReading DEF LoopInv
  <2>9. SlashInv'
    BY <1>1, <1>2, <2>1, SameReading DEF SlashInv
  <2>. QED BY <1>1, <2>1, <2>8, <2>9 DEF ReadInv, BackInv, CopyInv, DoneInv
<1>. QED BY <1>6, <1>7

(* A real element starts with a slash (path.go:94-100).                    *)
LEMMA ElementRead ==
    ASSUME IInv, ReadInv, Element
    PROVE  ReadInv'
<1>1. /\ job = "clean" /\ pc = "loop" /\ pc' = "copy" /\ r < n /\ At(r) # "/" /\ IsElement
      /\ UNCHANGED <<job, p, r, trailing>> /\ r \in Nat /\ n \in Nat /\ r \in 0 .. n - 1 /\ w \in Nat
  BY Room DEF Element, Cleaning, IsElement
<1>2. Result = Root(Now) /\ Open(r) = <<>> /\ Now = Entered(Elems(r), Open(r))
      /\ (trailing <=> n > 1 /\ p[n] = "/")
  BY <1>1 DEF ReadInv, LoopInv, SlashInv, Now, Reached
<1>. DEFINE e == Elems(r)
<1>3. e \in Seq(Names) /\ Result = Root(e) /\ Joined(e) \in Seq(Bytes) /\ Root(e) \in Seq(Bytes)
  BY <1>1, <1>2, ScanFacts, EnteredCases, RootFacts
<1>4. Len(Result) = w
  BY ContentFacts
<1>5. Result' = Slashed(Joined(e), <<>>)
  <2>. HIDE DEF e
  <2>1. Slashed(Joined(e), <<>>) = Joined(e) \o <<"/">> /\ "/" \in Bytes
    <3>1. <<"/">> \in Seq(Bytes) /\ "/" \in Bytes
      BY DEF Bytes
    <3>. QED BY <1>3, <3>1, ConcatProperties, ConcatEmptySeq DEF Slashed
  <2>2. CASE w > 1
    <3>1. buf' = bufApp(w, "/") /\ w' = w + 1
      BY <2>2 DEF Element
    <3>2. w < Size
      BY <1>1, Room DEF IInv, InBounds
    <3>3. Result' = Append(Result, "/")
      BY <1>1, <2>1, <3>1, <3>2, WriteAppends
    <3>4. Result = Joined(e)
      <4>1. e = <<>> => Len(Root(e)) = 1
        BY <1>3, RootFacts
      <4>. QED BY <1>3, <1>4, <2>2, <4>1, RootFacts
    <3>. QED BY <1>3, <2>1, <3>3, <3>4, AppendIsConcat
  <2>3. CASE w <= 1
    <3>1. Result' = Result
      BY <1>1, <2>3 DEF Element, Result
    <3>2. e = <<>>
      BY <1>3, <1>4, <2>3, RootFacts
    <3>3. Result = <<"/">> /\ Joined(e) = <<>>
      BY <1>3, <3>2, JoinedNone DEF Root
    <3>4. <<>> \o <<"/">> = <<"/">>
      BY <2>1, ConcatEmptySeq
    <3>. QED BY <2>1, <3>1, <3>3, <3>4
  <2>. QED BY <1>1, <2>2, <2>3
<1>6. RealAt(r)
  BY <1>1 DEF IsElement, RealAt, At, IsDotDot
<1>7. Start' = r
  BY <1>1, <1>2, EmptySeq, SameReading DEF Start
<1>8. CopyInv'
  <2>1. Elems(r)' = e /\ Open(r)' = <<>> /\ Len(<<>>) = 0 /\ RealAt(r)' /\ n' = n
    BY <1>1, <1>2, <1>6, SameReading
  <2>. QED BY <1>1, <1>5, <1>6, <1>7, <2>1, SameReading DEF CopyInv
<1>9. SlashInv'
  BY <1>1, <1>2, SameReading DEF SlashInv
<1>. QED BY <1>1, <1>8, <1>9 DEF ReadInv, LoopInv, BackInv, DoneInv

(* One more byte of an element goes to the end.                            *)
LEMMA SlashedAppend ==
    ASSUME NEW s \in Seq(Bytes), NEW x \in Seq(Plain), NEW c \in Plain
    PROVE  Slashed(s, Append(x, c)) = Append(Slashed(s, x), c)
<1>. DEFINE t == s \o <<"/">>
<1>1. <<"/">> \in Seq(Bytes) /\ x \in Seq(Bytes) /\ c \in Bytes /\ <<c>> \in Seq(Bytes)
  BY DEF Bytes, Plain
<1>2. t \in Seq(Bytes)
  BY <1>1, ConcatProperties
<1>. HIDE DEF t
<1>3. Append(x, c) = x \o <<c>> /\ t \o x \in Seq(Bytes) /\ Append(t \o x, c) = (t \o x) \o <<c>>
  BY <1>1, <1>2, AppendIsConcat, ConcatProperties
<1>4. t \o (x \o <<c>>) = (t \o x) \o <<c>>
  BY <1>1, <1>2, ConcatAssociative
<1>. QED BY <1>3, <1>4 DEF Slashed, t

(* A real element is neither empty nor "." nor ".." when it has been read. *)
LEMMA RealElement ==
    ASSUME IInv, CopyInv, pc = "copy", r >= n \/ At(r) = "/"
    PROVE  Open(r) \notin {<<>>, <<".">>, <<".", ".">>}
<1>1. r \in Nat /\ n \in Nat /\ r <= n /\ At(r) = p[r + 1]
  BY Room DEF IInv, Behind, At
<1>2. Start \in 0 .. n - 1 /\ RealAt(Start) /\ \A k \in 1..Len(Open(r)) : Open(r)[k] = p[Start + k]
  BY DEF CopyInv
<1>3. Open(r) \in Seq(Plain) /\ Len(Open(r)) \in Nat /\ Start = r - Len(Open(r))
  BY <1>1, ScanFacts DEF Start
<1>4. ASSUME Open(r) = <<>> PROVE FALSE
  <2>1. Start = r
    BY <1>1, <1>3, <1>4
  <2>. QED BY <1>1, <1>2, <2>1 DEF RealAt
<1>5. ASSUME Open(r) = <<".">> PROVE FALSE
  <2>1. Len(Open(r)) = 1 /\ Open(r)[1] = "."
    BY <1>5
  <2>2. Start + 1 = r /\ p[Start + 1] = "." /\ p[Start + 2] = p[r + 1]
    BY <1>1, <1>2, <1>3, <2>1
  <2>. QED BY <1>1, <1>2, <2>2 DEF RealAt
<1>6. ASSUME Open(r) = <<".", ".">> PROVE FALSE
  <2>1. Len(Open(r)) = 2 /\ Open(r)[1] = "." /\ Open(r)[2] = "."
    BY <1>6
  <2>2. Start + 2 = r /\ p[Start + 1] = "." /\ p[Start + 2] = "." /\ p[Start + 3] = p[r + 1]
    BY <1>1, <1>2, <1>3, <2>1
  <2>. QED BY <1>1, <1>2, <2>2 DEF RealAt
<1>. QED BY <1>4, <1>5, <1>6

(* Each byte copied is one read (path.go:102-107).                         *)
LEMMA CopyRead ==
    ASSUME IInv, ReadInv, Copy
    PROVE  ReadInv'
<1>1. /\ pc = "copy" /\ job = "clean" /\ r \in Nat /\ n \in Nat /\ r <= n /\ w \in Nat
      /\ UNCHANGED <<job, p, trailing>> /\ At(r) = p[r + 1]
  BY Room DEF Copy, IInv, TypeOK, Behind, At
<1>. DEFINE e == Elems(r)
            x == Open(r)
<1>2. /\ Result = Slashed(Joined(e), x) /\ Start \in 0 .. n - 1 /\ RealAt(Start)
      /\ \A k \in 1..Len(x) : x[k] = p[Start + k]
      /\ (trailing <=> n > 1 /\ p[n] = "/")
  BY <1>1 DEF ReadInv, CopyInv, SlashInv
<1>3. e \in Seq(Names) /\ x \in Seq(Plain) /\ Joined(e) \in Seq(Bytes) /\ Len(x) \in Nat /\ Start = r - Len(x)
  BY <1>1, ScanFacts, RootFacts DEF Start
<1>4. CASE r < n /\ At(r) # "/"
  <2>. DEFINE c == At(r)
  <2>1. buf' = bufApp(w, c) /\ w' = w + 1 /\ r' = r + 1 /\ pc' = "copy"
    BY <1>1, <1>4 DEF Copy
  <2>2. c \in Plain /\ c \in Bytes /\ w < Size
    BY <1>1, <1>4, Room DEF Plain, IInv, InBounds
  <2>. HIDE DEF c
  <2>3. Result' = Append(Result, c)
    BY <1>1, <2>1, <2>2, WriteAppends
  <2>4. Elems(r + 1) = e /\ Open(r + 1) = Append(x, c)
    BY <1>1, <1>4, ReadByte DEF c
  <2>. HIDE DEF e, x
  <2>5. Result' = Slashed(Joined(e), Append(x, c))
    BY <1>2, <1>3, <2>2, <2>3, SlashedAppend
  <2>6. /\ Len(Append(x, c)) = Len(x) + 1 /\ Append(x, c)[Len(x) + 1] = c
        /\ \A k \in 1..Len(x) : Append(x, c)[k] = x[k]
    BY <1>3, <2>2, AppendProperties
  <2>7. Elems(r)' = e /\ Open(r)' = Append(x, c) /\ n' = n /\ (\A i : RealAt(i)' = RealAt(i))
    BY <1>1, <2>1, <2>4, SameReading
  <2>8. Start' = Start
    <3>1. Start' = r' - Len(Open(r)')
      BY DEF Start
    <3>. QED BY <1>1, <1>3, <2>1, <2>6, <2>7, <3>1
  <2>9. \A k \in 1..Len(x) + 1 : Append(x, c)[k] = p[Start + k]
    <3>1. Start + (Len(x) + 1) = r + 1
      BY <1>1, <1>3
    <3>2. p[Start + (Len(x) + 1)] = c
      BY <1>1, <3>1 DEF c
    <3>. QED BY <1>2, <1>3, <2>6, <3>2
  <2>10. CopyInv'
    BY <1>1, <1>2, <2>5, <2>6, <2>7, <2>8, <2>9 DEF CopyInv
  <2>11. SlashInv'
    BY <1>1, <1>2, <2>1, SameReading DEF SlashInv
  <2>. QED BY <1>1, <2>1, <2>10, <2>11 DEF ReadInv, LoopInv, BackInv, DoneInv
<1>5. CASE ~(r < n /\ At(r) # "/")
  <2>1. pc' = "loop" /\ UNCHANGED <<r, w, buf>>
    BY <1>1, <1>5 DEF Copy
  <2>2. x \notin {<<>>, <<".">>, <<".", ".">>}
    BY <1>1, <1>5, RealElement DEF ReadInv
  <2>3. Reached = r
    BY <1>1 DEF Reached
  <2>. DEFINE f == Append(e, x)
  <2>4. Now = f
    BY <2>2, <2>3, EnteredCases DEF Now
  <2>5. x \in Names
    BY <1>3, <2>2 DEF Names
  <2>6. f \in Seq(Names) /\ f # <<>> /\ Joined(f) = Slashed(Joined(e), x)
    BY <1>3, <2>5, AppendProperties, JoinedAppend
  <2>. HIDE DEF e, x, f
  <2>7. Result = Root(f)
    BY <1>2, <2>6 DEF Root
  <2>8. Result' = Result /\ Root(Now)' = Root(f)
    BY <1>1, <2>1, <2>4, SameReading DEF Result, Root, Now, Reached
  <2>9. LoopInv'
    BY <1>1, <1>5, <2>1, <2>7, <2>8, SameReading DEF LoopInv, At
  <2>10. r >= n => Open(n) # <<".">>
    BY <1>1, <2>2 DEF x
  <2>11. SlashInv'
    BY <1>1, <1>2, <2>1, <2>10, SameReading DEF SlashInv
  <2>. QED BY <1>1, <2>1, <2>9, <2>11 DEF ReadInv, CopyInv, BackInv, DoneInv
<1>. QED BY <1>4, <1>5

(* The trailing slash is written where the canonical path has it           *)
(* (path.go:111-123).                                                      *)
LEMMA FinishRead ==
    ASSUME IInv, ReadInv, Finish
    PROVE  ReadInv'
<1>1. /\ job = "clean" /\ pc = "loop" /\ pc' = "done" /\ r \in Nat /\ n \in Nat /\ r >= n /\ n > 0
      /\ w \in Nat /\ p \in Seq(Bytes) /\ UNCHANGED <<job, p>>
  BY Room, EmptySeq DEF Finish, IInv, n
<1>2. Reached = n /\ Now = Elements(p) /\ Open(n) = Scanned(p)[Len(p)].last
  BY <1>1 DEF Reached, Now, Elements, Elems, Open, n
<1>3. Result = Root(Now) /\ (trailing <=> (n > 1 /\ p[n] = "/") \/ Open(n) = <<".">>)
  BY <1>1 DEF ReadInv, LoopInv, SlashInv
<1>4. Now \in Seq(Names)
  BY <1>1, <1>2, ScanFacts DEF Now
<1>5. Len(Result) = w
  BY ContentFacts
<1>6. p[n] = "/" <=> Open(n) = <<>>
  <2>1. n - 1 \in Nat /\ n - 1 < n /\ n = (n - 1) + 1 /\ Open(n - 1) \in Seq(Plain) /\ p[n] \in Bytes
    BY <1>1, ScanFacts DEF n
  <2>2. p[n] # "/" => Open(n) = Append(Open(n - 1), p[n]) /\ p[n] \in Plain
    BY <2>1, ReadByte DEF Plain
  <2>. QED BY <2>1, <2>2, ReadByte, AppendProperties
<1>7. CASE Now = <<>>
  <2>1. w <= 1
    <3>1. Len(Root(Now)) = 1
      BY <1>4, <1>7, RootFacts
    <3>. QED BY <1>3, <1>5, <3>1
  <2>2. Result' = Result /\ Result = <<"/">>
    BY <1>1, <1>3, <1>7, <2>1 DEF Finish, Result, Root
  <2>3. Canonical(p)' = <<"/">>
    BY <1>1, <1>2, <1>7, SameReading DEF Canonical
  <2>. QED BY <1>1, <2>2, <2>3 DEF ReadInv, LoopInv, CopyInv, BackInv, SlashInv, DoneInv
<1>8. CASE Now # <<>>
  <2>1. w > 1 /\ Result = Joined(Now)
    BY <1>3, <1>4, <1>5, <1>8, RootFacts
  <2>2. n = 1 => p[n] # "/"
    <3>1. ASSUME n = 1, p[n] = "/" PROVE FALSE
      <4>1. Elems(1) = Entered(<<>>, <<>>) /\ Open(1) = <<>>
        BY <3>1, <1>1, ReadByte, ScanFacts
      <4>2. Elems(1) = <<>> /\ Entered(<<>>, <<>>) = <<>>
        BY <4>1, EnteredCases
      <4>. QED BY <1>2, <1>8, <3>1, <4>1, <4>2 DEF Now
    <3>. QED BY <3>1
  <2>3. trailing <=> Open(n) \in {<<>>, <<".">>}
    BY <1>1, <1>3, <1>6, <2>2
  <2>4. CASE trailing
    <3>1. buf' = bufApp(w, "/") /\ w' = w + 1
      BY <2>1, <2>4 DEF Finish
    <3>2. w < Size /\ "/" \in Bytes
      BY <1>1, <2>4 DEF IInv, InBounds, Bytes
    <3>3. Result' = Append(Joined(Now), "/")
      BY <1>1, <2>1, <3>1, <3>2, WriteAppends
    <3>4. Canonical(p) = Append(Joined(Now), "/")
      BY <1>2, <1>8, <2>3, <2>4 DEF Canonical
    <3>. QED BY <1>1, <3>3, <3>4, SameReading DEF ReadInv, LoopInv, CopyInv, BackInv, SlashInv, DoneInv
  <2>5. CASE ~trailing
    <3>1. Result' = Result
      BY <1>1, <2>5 DEF Finish, Result
    <3>2. Canonical(p) = Joined(Now)
      BY <1>2, <1>8, <2>3, <2>5 DEF Canonical
    <3>. QED BY <1>1, <2>1, <3>1, <3>2, SameReading DEF ReadInv, LoopInv, CopyInv, BackInv, SlashInv, DoneInv
  <2>. QED BY <2>4, <2>5
<1>. QED BY <1>7, <1>8

(* removeRepeatedChar: what is written is the string so far without the    *)
(* slashes after a slash.                                                  *)
RepeatInv ==
    job = "repeat" =>
        /\ r <= n /\ Result = Collapsed(p)[r]
        /\ pc = "loop" /\ r < n /\ At(r) = "/" => Result = <<>> \/ Last(Result) # "/"
        /\ pc = "skip" => Result # <<>> /\ Last(Result) = "/"
        /\ pc = "done" => r = n

(* One more byte of the string.                                            *)
LEMMA SqueezedByte ==
    ASSUME IInv, NEW i \in Nat, NEW k, k = i + 1, i < n
    PROVE  /\ Collapsed(p)[i] \in Seq(Bytes)
           /\ Collapsed(p)[k] = Squeezed(Collapsed(p)[i], p[k]) /\ p[k] \in Bytes
<1>1. p \in Seq(Bytes) /\ Len(p) = n /\ n \in Nat
  BY Room DEF n
<1>2. k \in 1..Len(p) /\ i = k - 1 /\ i \in 0..Len(p)
  BY <1>1
<1>. QED BY <1>1, <1>2, CollapseStep

(* A byte is written (path.go:177-194).                                    *)
LEMMA KeepRead ==
    ASSUME IInv, RepeatInv, Keep
    PROVE  RepeatInv'
<1>1. /\ job = "repeat" /\ pc = "loop" /\ r < n /\ UNCHANGED <<job, p>> /\ buf' = bufApp(w, At(r)) /\ w' = w + 1
      /\ r' = r + 1 /\ pc' = (IF At(r) = "/" THEN "skip" ELSE "loop") /\ r \in Nat /\ n \in Nat /\ n' = n
      /\ At(r) = p[r + 1]
  BY Room DEF Keep, n, At
<1>. DEFINE s == Collapsed(p)[r]
            c == p[r + 1]
<1>2. Result = s /\ (c = "/" => s = <<>> \/ Last(s) # "/")
  BY <1>1 DEF RepeatInv
<1>3. s \in Seq(Bytes) /\ c \in Bytes /\ Collapsed(p)[r + 1] = Squeezed(s, c)
  BY <1>1, SqueezedByte
<1>4. w < Size
  BY <1>1, Room DEF IInv, InBounds
<1>5. Result' = Append(s, c)
  BY <1>1, <1>2, <1>3, <1>4, WriteAppends
<1>. HIDE DEF s, c
<1>6. Squeezed(s, c) = Append(s, c)
  BY <1>2 DEF Squeezed
<1>7. Append(s, c) # <<>> /\ Last(Append(s, c)) = c
  BY <1>3, AppendProperties DEF Last
<1>8. Result' = Collapsed(p)[r]'
  BY <1>1, <1>3, <1>5, <1>6
<1>9. pc' = "skip" => c = "/"
  BY <1>1 DEF c
<1>10. pc' = "loop" => c # "/"
  BY <1>1 DEF c
<1>. QED BY <1>1, <1>5, <1>7, <1>8, <1>9, <1>10 DEF RepeatInv

(* The slashes after a slash are passed over.                              *)
LEMMA SkipRead ==
    ASSUME IInv, RepeatInv, Skip
    PROVE  RepeatInv'
<1>1. /\ job = "repeat" /\ pc = "skip" /\ UNCHANGED <<job, p, w, buf>> /\ r \in Nat /\ n \in Nat /\ n' = n
      /\ At(r) = p[r + 1] /\ Result' = Result
  BY Room DEF Skip, IInv, TypeOK, n, At, Result
<1>2. r <= n /\ Result = Collapsed(p)[r] /\ Result # <<>> /\ Last(Result) = "/"
  BY <1>1 DEF RepeatInv
<1>3. CASE r < n /\ At(r) = "/"
  <2>1. r' = r + 1 /\ pc' = "skip"
    BY <1>1, <1>3 DEF Skip
  <2>2. Collapsed(p)[r + 1] = Squeezed(Result, "/")
    BY <1>1, <1>2, <1>3, SqueezedByte
  <2>3. Squeezed(Result, "/") = Result
    BY <1>2 DEF Squeezed
  <2>4. Collapsed(p)[r]' = Result'
    BY <1>1, <2>1, <2>2, <2>3
  <2>5. Last(Result)' = "/"
    BY <1>1, <1>2
  <2>. QED BY <1>1, <1>2, <1>3, <2>1, <2>4, <2>5 DEF RepeatInv
<1>4. CASE ~(r < n /\ At(r) = "/")
  <2>1. r' = r /\ pc' = "loop" /\ At(r)' = At(r)
    BY <1>1, <1>4 DEF Skip, At
  <2>2. Collapsed(p)[r]' = Result'
    BY <1>1, <1>2, <2>1
  <2>. QED BY <1>1, <1>2, <1>4, <2>1, <2>2 DEF RepeatInv
<1>. QED BY <1>3, <1>4

(* All of the string was read.                                             *)
LEMMA FinishRepeatRead ==
    ASSUME IInv, RepeatInv, FinishRepeat
    PROVE  RepeatInv'
<1>1. /\ job = "repeat" /\ pc' = "done" /\ r >= n /\ UNCHANGED <<job, p, r, w, buf>> /\ r \in Nat /\ n \in Nat
      /\ n' = n /\ Result' = Result
  BY Room DEF FinishRepeat, n, Result
<1>2. r <= n /\ Result = Collapsed(p)[r]
  BY <1>1 DEF RepeatInv
<1>3. Collapsed(p)[r]' = Result'
  BY <1>1, <1>2
<1>. QED BY <1>1, <1>2, <1>3 DEF RepeatInv

(* Where reading begins: at a leading slash or before the first byte.      *)
LEMMA ReadStart == Init => ReadInv /\ RepeatInv
<1>. SUFFICES ASSUME Init PROVE ReadInv /\ RepeatInv
  OBVIOUS
<1>1. IInv /\ pc = "loop" /\ p \in Seq(Bytes) /\ n = Len(p) /\ n \in Nat
  BY InitIInv, Room DEF Init, n
<1>2. CASE InitRepeat
  <2>1. job = "repeat" /\ r = 0 /\ w = 0 /\ buf = <<>>
    BY <1>2 DEF InitRepeat
  <2>2. Result = <<>>
    BY <2>1, SubSeqEmpty DEF Result
  <2>3. Collapsed(p)[0] = <<>>
    BY <1>1, CollapseStep
  <2>. QED BY <1>1, <2>1, <2>2, <2>3 DEF ReadInv, RepeatInv
<1>3. CASE InitClean
  <2>1. /\ job = "clean" /\ w = 1 /\ n > 0 /\ (trailing <=> n > 1 /\ p[n] = "/")
        /\ p[1] = "/" => r = 1 /\ buf = <<>>
        /\ p[1] # "/" => r = 0 /\ buf = [j \in 1 .. n + 1 |-> IF j = 1 THEN "/" ELSE "zero"]
    <3>1. n > 0
      <4>1. p # <<>>
        BY <1>3 DEF InitClean
      <4>. QED BY <1>1, <4>1, EmptySeq
    <3>2. trailing = (n > 1 /\ p[n] = "/")
      BY <1>3, Zenon DEF InitClean
    <3>3. trailing <=> n > 1 /\ p[n] = "/"
      BY <3>2, Zenon
    <3>4. /\ job = "clean" /\ w = 1
          /\ IF p[1] = "/" THEN r = 1 /\ buf = <<>>
             ELSE r = 0 /\ buf = [j \in 1 .. n + 1 |-> IF j = 1 THEN "/" ELSE "zero"]
      BY <1>3, Zenon DEF InitClean
    <3>5. /\ p[1] = "/" => r = 1 /\ buf = <<>>
          /\ p[1] # "/" => r = 0 /\ buf = [j \in 1 .. n + 1 |-> IF j = 1 THEN "/" ELSE "zero"]
      BY <3>4, Zenon
    <3>. QED BY <3>1, <3>3, <3>4, <3>5, Zenon
  <2>2. /\ Elems(0) = <<>> /\ Open(0) = <<>>
        /\ p[1] = "/" => Elems(1) = <<>> /\ Open(1) = <<>>
    BY <1>1, <2>1, ScanFacts, ReadByte, EnteredCases
  <2>3. Reached = r /\ Now = <<>> /\ Open(r) = <<>> /\ Root(Now) = <<"/">>
    <3>1. Reached = r
      BY <1>1, <2>1 DEF Reached
    <3>. QED BY <2>1, <2>2, <3>1, EnteredCases DEF Now, Root
  <2>4. Content[1] = "/"
    <3>1. CASE p[1] = "/"
      BY <2>1, <3>1 DEF Content
    <3>2. CASE p[1] # "/"
      <4>1. buf[1] = "/"
        BY <1>1, <2>1, <3>2
      <4>2. buf # <<>>
        BY <1>1, <2>1, <3>2 DEF IInv, Rooted
      <4>. QED BY <4>1, <4>2 DEF Content
    <3>. QED BY <3>1, <3>2
  <2>5. Result = <<"/">>
    <3>1. Result \in Seq(Cells) /\ Len(Result) = 1 /\ Result[1] = "/"
      BY <1>1, <2>1, <2>4, ContentFacts
    <3>2. <<"/">> \in Seq(Cells) /\ Len(<<"/">>) = 1 /\ <<"/">>[1] = "/"
      BY DEF Cells, Bytes
    <3>3. \A i \in 1..Len(Result) : Result[i] = <<"/">>[i]
      BY <3>1, <3>2
    <3>. QED BY <3>1, <3>2, <3>3, SeqEqual
  <2>6. LoopInv
    BY <2>3, <2>5 DEF LoopInv
  <2>7. r >= n => Open(n) # <<".">>
    <3>1. r >= n => n = r
      BY <1>1, <2>1
    <3>. QED BY <2>3, <3>1
  <2>8. SlashInv
    BY <1>1, <2>1, <2>7 DEF SlashInv
  <2>. QED BY <1>1, <2>1, <2>6, <2>8 DEF ReadInv, RepeatInv, CopyInv, BackInv, DoneInv
<1>. QED BY <1>2, <1>3 DEF Init

(* A stutter changes nothing.                                              *)
LEMMA ReadSame ==
    ASSUME ReadInv, RepeatInv, UNCHANGED cvars
    PROVE  ReadInv' /\ RepeatInv'
BY SMTT(60) DEF cvars, ReadInv, RepeatInv, LoopInv, CopyInv, BackInv, SlashInv, DoneInv, Start, RealAt, Now, Reached,
       Elems, Open, Content, Result, Root, Size, n, At

(* Every step keeps the result and what was read together.                 *)
LEMMA ReadStep == IInv /\ ReadInv /\ RepeatInv /\ [Next]_cvars => ReadInv' /\ RepeatInv'
<1>. SUFFICES ASSUME IInv, ReadInv, RepeatInv, [Next]_cvars PROVE ReadInv' /\ RepeatInv'
  OBVIOUS
<1>1. CASE EmptyElement \/ LastDot \/ Dot
  <2>1. job' = "clean"
    BY <1>1 DEF EmptyElement, LastDot, Dot, Cleaning
  <2>. QED BY <1>1, <2>1, SkipsRead DEF RepeatInv
<1>2. CASE DotDot
  <2>1. job' = "clean"
    BY <1>2 DEF DotDot, Cleaning
  <2>. QED BY <1>2, <2>1, DotDotRead DEF RepeatInv
<1>3. CASE Back
  <2>1. job' = "clean"
    BY <1>3 DEF Back, IInv, TypeOK
  <2>. QED BY <1>3, <2>1, BackRead DEF RepeatInv
<1>4. CASE Element
  <2>1. job' = "clean"
    BY <1>4 DEF Element, Cleaning
  <2>. QED BY <1>4, <2>1, ElementRead DEF RepeatInv
<1>5. CASE Copy
  <2>1. job' = "clean"
    BY <1>5 DEF Copy, IInv, TypeOK
  <2>. QED BY <1>5, <2>1, CopyRead DEF RepeatInv
<1>6. CASE Finish
  <2>1. job' = "clean"
    BY <1>6 DEF Finish
  <2>. QED BY <1>6, <2>1, FinishRead DEF RepeatInv
<1>7. CASE Keep
  <2>1. job' = "repeat"
    BY <1>7 DEF Keep
  <2>. QED BY <1>7, <2>1, KeepRead DEF ReadInv
<1>8. CASE Skip
  <2>1. job' = "repeat"
    BY <1>8 DEF Skip, IInv, TypeOK
  <2>. QED BY <1>8, <2>1, SkipRead DEF ReadInv
<1>9. CASE FinishRepeat
  <2>1. job' = "repeat"
    BY <1>9 DEF FinishRepeat
  <2>. QED BY <1>9, <2>1, FinishRepeatRead DEF ReadInv
<1>10. CASE UNCHANGED cvars
  BY <1>10, ReadSame
<1>. QED BY <1>1, <1>2, <1>3, <1>4, <1>5, <1>6, <1>7, <1>8, <1>9, <1>10 DEF Next

(* Whatever the string, cleanPath returns its canonical path               *)
(* (path.go:10-22) and removeRepeatedChar the string with every run of     *)
(* slashes made one (path.go:153-154).                                     *)
THEOREM ResultClean == Spec => []Cleaned
<1>1. Init => ReadInv /\ RepeatInv
  BY ReadStart
<1>2. IInv /\ ReadInv /\ RepeatInv /\ [Next]_cvars => ReadInv' /\ RepeatInv'
  BY ReadStep
<1>3. IInv /\ ReadInv /\ RepeatInv => Cleaned
  <2>1. IInv => job \in {"clean", "repeat"}
    BY DEF IInv, TypeOK
  <2>. QED BY <2>1 DEF ReadInv, RepeatInv, DoneInv, Cleaned
<1>. QED BY <1>1, <1>2, <1>3, PathInvariant, PTL DEF Spec
=============================================================================
