----------------------------- MODULE CleanPath -----------------------------
(***************************************************************************)
(* cleanPath and removeRepeatedChar, byte by byte: both read p from r and  *)
(* write their result at w, into a buffer that bufApp makes when the       *)
(* result first differs from p; until then the result is p itself.         *)
(*                                                                         *)
(* r and w count from 0 as in the code: the byte at r is p[r + 1].  An     *)
(* operator with an underscore in its name is a mutant of the one below it.*)
(***************************************************************************)
EXTENDS Integers, Sequences

CONSTANTS
    Others,     \* the bytes other than '/' and '.'
    Paths       \* the strings to clean

Bytes == {"/", "."} \cup Others

ASSUME PathsAssumption ==
    /\ Others \cap {"/", ".", "zero"} = {}
    /\ Paths \subseteq Seq(Bytes)

VARIABLES
    job,        \* the function that runs: "clean" or "repeat"
    p,          \* its argument
    r, w,       \* the next byte to read, and to write
    buf,        \* the buffer, empty until it is needed
    trailing,   \* a slash is owed at the end
    pc          \* "loop": at the head of the outer loop; "back", "copy",
                \* "skip": in one of the inner loops; "done"

cvars == <<job, p, r, w, buf, trailing, pc>>

n == Len(p)
At(i) == p[i + 1]
Result == SubSeq(IF buf = <<>> THEN p ELSE buf, 1, w)

(* buf[w] = c, for a buffer that may not be there yet *)
bufApp_NoCopy(i, c) ==
    IF buf # <<>> THEN [buf EXCEPT ![i + 1] = c]
    ELSE IF At(i) = c THEN buf
    ELSE [j \in 1..n |-> IF j = i + 1 THEN c ELSE "zero"]
bufApp(i, c) ==
    IF buf # <<>> THEN [buf EXCEPT ![i + 1] = c]
    ELSE IF At(i) = c THEN buf
    ELSE [j \in 1..n |-> IF j <= i THEN p[j] ELSE IF j = i + 1 THEN c ELSE "zero"]

-----------------------------------------------------------------------------

(* cleanPath("") returns "/" at once.  A path without a leading slash gets  *)
(* one, in a buffer of one byte more.                                       *)
InitClean_SameSize ==
    /\ job = "clean" /\ p # <<>> /\ w = 1 /\ trailing = (n > 1 /\ p[n] = "/")
    /\ IF p[1] = "/" THEN r = 1 /\ buf = <<>>
       ELSE r = 0 /\ buf = [j \in 1..n |-> IF j = 1 THEN "/" ELSE "zero"]
InitClean ==
    /\ job = "clean" /\ p # <<>>
    /\ w = 1
    /\ IF p[1] = "/"
       THEN r = 1 /\ buf = <<>>
       ELSE r = 0 /\ buf = [j \in 1 .. n + 1 |-> IF j = 1 THEN "/" ELSE "zero"]
    /\ trailing = (n > 1 /\ p[n] = "/")

(* removeRepeatedChar(s, '/'); a string without repeated slashes, which    *)
(* the code returns at once, goes through the loop unchanged.               *)
InitRepeat ==
    /\ job = "repeat" /\ r = 0 /\ w = 0 /\ buf = <<>> /\ trailing = FALSE

Init == p \in Paths /\ (InitClean \/ InitRepeat) /\ pc = "loop"

Cleaning == job = "clean" /\ pc = "loop" /\ r < n

EmptyElement ==
    /\ Cleaning
    /\ At(r) = "/"
    /\ r' = r + 1
    /\ UNCHANGED <<job, p, w, buf, trailing, pc>>

(* A last element "." means the directory: it leaves a trailing slash.      *)
LastDot ==
    /\ Cleaning
    /\ At(r) = "." /\ r + 1 = n
    /\ r' = r + 1
    /\ trailing' = TRUE
    /\ UNCHANGED <<job, p, w, buf, pc>>

Dot ==
    /\ Cleaning
    /\ At(r) = "." /\ r + 1 < n /\ At(r + 1) = "/"
    /\ r' = r + 2
    /\ UNCHANGED <<job, p, w, buf, trailing, pc>>

(* ".." takes the last element of the result back. *)
IsDotDot == At(r) = "." /\ r + 1 < n /\ At(r + 1) = "." /\ (r + 2 < n => At(r + 2) = "/")
DotDot ==
    /\ Cleaning
    /\ IsDotDot
    /\ r' = r + 3
    /\ IF w > 1 THEN w' = w - 1 /\ pc' = "back" ELSE UNCHANGED <<w, pc>>
    /\ UNCHANGED <<job, p, buf, trailing>>

Written(i) == IF buf = <<>> THEN At(i) ELSE buf[i + 1]
Back ==
    /\ pc = "back"
    /\ IF w > 1 /\ Written(w) # "/" THEN w' = w - 1 /\ UNCHANGED pc ELSE pc' = "loop" /\ UNCHANGED w
    /\ UNCHANGED <<job, p, r, buf, trailing>>

(* A real element: a slash if one is needed, then its bytes. *)
IsElement ==
    /\ At(r) # "/"
    /\ At(r) = "." => r + 1 < n /\ At(r + 1) # "/" /\ ~IsDotDot
Element ==
    /\ Cleaning
    /\ IsElement
    /\ IF w > 1 THEN buf' = bufApp(w, "/") /\ w' = w + 1 ELSE UNCHANGED <<buf, w>>
    /\ pc' = "copy"
    /\ UNCHANGED <<job, p, r, trailing>>

Copy ==
    /\ pc = "copy"
    /\ IF r < n /\ At(r) # "/"
       THEN buf' = bufApp(w, At(r)) /\ w' = w + 1 /\ r' = r + 1 /\ UNCHANGED pc
       ELSE pc' = "loop" /\ UNCHANGED <<r, w, buf>>
    /\ UNCHANGED <<job, p, trailing>>

Finish ==
    /\ job = "clean" /\ pc = "loop" /\ r >= n
    /\ IF trailing /\ w > 1 THEN buf' = bufApp(w, "/") /\ w' = w + 1 ELSE UNCHANGED <<buf, w>>
    /\ pc' = "done"
    /\ UNCHANGED <<job, p, r, trailing>>

(* The loops of removeRepeatedChar *)
Keep ==
    /\ job = "repeat" /\ pc = "loop" /\ r < n
    /\ buf' = bufApp(w, At(r)) /\ w' = w + 1 /\ r' = r + 1
    /\ pc' = IF At(r) = "/" THEN "skip" ELSE "loop"
    /\ UNCHANGED <<job, p, trailing>>

Skip ==
    /\ pc = "skip"
    /\ IF r < n /\ At(r) = "/" THEN r' = r + 1 /\ UNCHANGED pc ELSE pc' = "loop" /\ UNCHANGED r
    /\ UNCHANGED <<job, p, w, buf, trailing>>

FinishRepeat ==
    /\ job = "repeat" /\ pc = "loop" /\ r >= n
    /\ pc' = "done"
    /\ UNCHANGED <<job, p, r, w, buf, trailing>>

Next ==
    \/ EmptyElement \/ LastDot \/ Dot \/ DotDot \/ Back \/ Element \/ Copy \/ Finish
    \/ Keep \/ Skip \/ FinishRepeat
    \/ pc = "done" /\ UNCHANGED cvars

Spec == Init /\ [][Next]_cvars

-----------------------------------------------------------------------------
(* Properties *)

TypeOK ==
    /\ job \in {"clean", "repeat"}
    /\ p \in Seq(Bytes)
    /\ r \in Nat /\ w \in Nat
    /\ buf \in Seq(Bytes \cup {"zero"})
    /\ trailing \in BOOLEAN
    /\ pc \in {"loop", "back", "copy", "skip", "done"}

Size == IF buf = <<>> THEN n ELSE Len(buf)

(* No index runs out of p or of the buffer: what the next read or write at  *)
(* w uses is inside them, and so is the result (path.go:37-39, 146).        *)
InBounds ==
    /\ w <= Size
    /\ pc = "back" => w < Size
    /\ pc \in {"loop", "copy"} /\ r < n => w < Size
    /\ job = "clean" /\ pc = "loop" /\ r >= n /\ trailing => w < Size

(* A path without a leading slash has one byte more to write. *)
Rooted == job = "clean" => p[1] = "/"
Lead == IF Rooted THEN 0 ELSE 1

(* Writing is not ahead of reading, and behind it where a slash is added.   *)
Behind ==
    /\ pc \in {"loop", "copy", "skip"} => w <= r + Lead
    /\ pc = "back" => w < r + Lead
    /\ job = "clean" /\ pc = "loop" /\ w > 1 /\ r < n => w < r + Lead \/ At(r) = "/"
    /\ pc = "copy" => r <= n

(* A slash is owed because p ends in one, or because of a last ".".         *)
Owed ==
    job = "clean" /\ trailing =>
        /\ p[n] = "/" \/ (r >= n /\ pc \in {"loop", "done"})
        /\ pc = "copy" => r < n

(* The strengthening of InBounds that is inductive. *)
IInv ==
    /\ TypeOK
    /\ job = "clean" => p # <<>> /\ pc # "skip"
    /\ job = "repeat" => pc \in {"loop", "skip", "done"}
    /\ ~Rooted => buf # <<>>
    /\ buf # <<>> => Len(buf) = n + Lead
    /\ Behind /\ Owed /\ InBounds
=============================================================================
