------------------------- MODULE HandlerChainProofs -------------------------
(***************************************************************************)
(* Proofs about HandlerChain for chains of any length, any number of       *)
(* nested handlers and the whole int8 range: that c.index does not wrap,   *)
(* that no handler is called after Abort, that handlers are called in      *)
(* order and that none is left out.                                        *)
(***************************************************************************)
EXTENDS HandlerChain, SequenceTheorems, TLAPS

(* Replacing the last frame of a stack keeps its depth and the others.      *)
LEMMA SetTop ==
    ASSUME frames \in Seq(Frame), frames # <<>>, NEW f \in Frame
    PROVE  LET new == [frames EXCEPT ![Len(frames)] = f] IN
           /\ new \in Seq(Frame)
           /\ Len(new) = Len(frames)
           /\ new[Len(frames)] = f
           /\ \A k \in 1..Len(frames) : k # Len(frames) => new[k] = frames[k]
<1>1. Len(frames) \in 1..Len(frames)
  BY EmptySeq
<1>2. QED
  BY <1>1, ExceptSeq

(* Pushing a frame keeps the others. *)
LEMMA PushFrame ==
    ASSUME frames \in Seq(Frame), NEW f \in Frame
    PROVE  LET new == Append(frames, f) IN
           /\ new \in Seq(Frame) /\ new # <<>>
           /\ Len(new) = Len(frames) + 1
           /\ new[Len(frames) + 1] = f
           /\ \A k \in 1..Len(frames) : new[k] = frames[k]
BY AppendProperties

(* Cutting a stack keeps the frames that stay. *)
LEMMA CutStack ==
    ASSUME frames \in Seq(Frame), NEW k \in 0..Len(frames)
    PROVE  /\ SubSeq(frames, 1, k) \in Seq(Frame)
           /\ Len(SubSeq(frames, 1, k)) = k
           /\ \A j \in 1..k : SubSeq(frames, 1, k)[j] = frames[j]
<1>1. k \in Nat /\ k <= Len(frames) /\ \A j \in 1..k : frames[j] \in Frame
  BY ElementOfSeq, LenProperties
<1>2. QED
  BY <1>1, SubSeqProperties

(* Appending a number larger than all the others keeps a sequence of        *)
(* numbers increasing and adds that number to its elements.                 *)
LEMMA AppendLarger ==
    ASSUME NEW s \in Seq(Nat), NEW x \in Nat,
           \A i \in 1..Len(s) : s[i] < x,
           \A i, j \in 1..Len(s) : i < j => s[i] < s[j]
    PROVE  LET t == Append(s, x) IN
           /\ \A i, j \in 1..Len(t) : i < j => t[i] < t[j]
           /\ {t[i] : i \in 1..Len(t)} = {s[i] : i \in 1..Len(s)} \cup {x}
<1> DEFINE t == Append(s, x)
<1>1. /\ Len(s) \in Nat /\ Len(t) = Len(s) + 1 /\ t[Len(s) + 1] = x
      /\ \A i \in 1..Len(s) : t[i] = s[i]
  BY AppendProperties, LenProperties
<1>2. 1..Len(t) = 1..Len(s) \cup {Len(s) + 1}
  BY <1>1
<1> HIDE DEF t
<1>3. ASSUME NEW i \in 1..Len(t), NEW j \in 1..Len(t), i < j PROVE t[i] < t[j]
  <2>1. i \in 1..Len(s)
    BY <1>1, <1>3
  <2>2. CASE j \in 1..Len(s)
    BY <1>1, <1>3, <2>1, <2>2
  <2>3. CASE j = Len(s) + 1
    BY <1>1, <2>1, <2>3
  <2>4. QED
    BY <1>2, <2>2, <2>3
<1>4. {t[i] : i \in 1..Len(t)} = {s[i] : i \in 1..Len(s)} \cup {x}
  BY <1>1, <1>2
<1>5. QED
  BY <1>3, <1>4 DEF t

(* The same for the history of called handlers. *)
LEMMA AppendRan ==
    ASSUME ran \in Seq(Nat), index \in Nat, ran' = Append(ran, index), InOrder,
           \A i \in 1..Len(ran) : ran[i] < index
    PROVE  InOrder' /\ RanSet' = RanSet \cup {index}
BY AppendLarger DEF InOrder, RanSet

(* The chains the engine dispatches are shorter than AbortIndex. *)
LEMMA ChainFacts ==
    /\ AbortIndex \in Nat /\ AbortIndex > 0 /\ MaxInt8 = 2 * AbortIndex + 1
    /\ \A c \in Chains \cup {NoRoute} : c \in Seq(Kinds) /\ Len(c) \in Nat /\ Len(c) < AbortIndex
    /\ Len(NoRoute) \in Nat
    /\ \A i \in 1..Len(NoRoute) : NoRoute[i] \in Kinds /\ NoRoute[i] # "static"
<1>1. NoRoute \in Seq(Kinds)
  <2>1. (Kinds \ {"static"}) \subseteq Kinds
    OBVIOUS
  <2>2. QED
    BY <2>1, SeqMonotonic, ChainsAssumption
<1>2. \A i \in 1..Len(NoRoute) : NoRoute[i] \in Kinds \ {"static"}
  BY ElementOfSeq, ChainsAssumption
<1>3. QED
  BY <1>1, <1>2, LenProperties, ChainsAssumption

(* The first states satisfy the inductive invariant. *)
LEMMA InitInv == ASSUME SafeUse, Init PROVE IInv
<1>1. TypeOK
  <2>1. frames \in Seq(Frame) /\ ran \in Seq(Nat)
    BY EmptySeq DEF Init
  <2>2. index \in -MaxInt8 - 1 .. MaxInt8
    BY ChainFacts DEF Init
  <2>3. QED
    BY <2>1, <2>2 DEF Init, TypeOK
<1>2. handlers \in Chains /\ Len(handlers) \in Nat /\ Len(frames) = 0 /\ Len(ran) = 0
  BY ChainFacts DEF Init
<1>3. IndexFits /\ CallersWait /\ InOrder
  BY <1>2 DEF Init, IndexFits, CallersWait, InOrder
<1>4. DepthInv
  BY <1>2 DEF Init, DepthInv, Cursor
<1>5. IndexInv
  BY <1>2, ChainFacts DEF Init, IndexInv
<1>6. AbortInv
  BY DEF Init, AbortInv
<1>7. RanInv
  BY <1>2 DEF Init, RanInv, RanSet, Passed, Cursor
<1>8. QED
  BY <1>1, <1>3, <1>4, <1>5, <1>6, <1>7 DEF IInv

(* What the invariant says of the stack, spelled out for the steps below.   *)
LEMMA StackFacts ==
    ASSUME SafeUse, IInv
    PROVE  /\ index \in Int /\ index >= -1 /\ index <= MaxInt8
           /\ Len(frames) \in Nat /\ Len(frames) <= AbortIndex
           /\ Len(handlers) \in Nat /\ Len(handlers) < AbortIndex
           /\ handlers \in Chains \cup {NoRoute} /\ handlers \in Seq(Kinds)
           /\ frames \in Seq(Frame)
           /\ pc = "body" => frames # <<>> /\ Len(frames) >= 1
           /\ MaxNextCalls = 1
           /\ AbortIndex \in Nat /\ AbortIndex > 0 /\ MaxInt8 = 2 * AbortIndex + 1
           /\ Len(NoRoute) \in Nat
<1>1. /\ index \in Int /\ index >= -1 /\ index <= MaxInt8
      /\ frames \in Seq(Frame)
      /\ handlers \in Chains \cup {NoRoute}
  BY ChainFacts DEF IInv, TypeOK, IndexFits
<1>2. Len(handlers) \in Nat /\ Len(handlers) < AbortIndex /\ handlers \in Seq(Kinds)
  BY <1>1, ChainFacts
<1>3. Len(frames) \in Nat /\ (pc = "body" => frames # <<>> /\ Len(frames) >= 1)
  BY <1>1, EmptySeq, LenProperties DEF IInv, TypeOK
<1>4. Len(frames) <= AbortIndex
  BY <1>1, <1>2, <1>3, ChainFacts DEF IInv, DepthInv, Cursor
<1>5. MaxNextCalls = 1
  BY DEF SafeUse
<1>6. QED
  BY <1>1, <1>2, <1>3, <1>4, <1>5, ChainFacts

(* A frame counts at most one call of Next. *)
LEMMA FrameFacts ==
    ASSUME SafeUse, IInv
    PROVE  \A k \in 1..Len(frames) : frames[k] \in Frame /\ frames[k].nexts \in 0..1
<1>1. \A k \in 1..Len(frames) : frames[k] \in Frame
  BY ElementOfSeq DEF IInv, TypeOK
<1>2. \A f \in Frame : f.nexts \in 0..1
  BY DEF Frame, SafeUse
<1>3. QED
  BY <1>1, <1>2

(* A call of Next leaves room for the increments still to come. *)
LEMMA CallNextInv == ASSUME SafeUse, IInv, CallNext PROVE IInv'
<1> USE StackFacts
<1> DEFINE n == Len(frames)
<1> DEFINE f == InNext(Top)
<1>1. n \in 1..n /\ Top \in Frame /\ Top.nexts = 0 /\ Top = frames[n]
  <2>1. n \in 1..n
    BY DEF CallNext
  <2>2. Top \in Frame /\ Top.nexts \in 0..1 /\ Top = frames[n]
    BY <2>1, FrameFacts DEF Top
  <2>3. QED
    BY <2>1, <2>2 DEF CallNext
<1>2. f \in Frame /\ f.kind = Top.kind /\ f.nexts = 1
  BY <1>1 DEF Frame, Spent, InNext
<1>3. frames' = [frames EXCEPT ![n] = f]
  BY DEF CallNext
<1>4. /\ frames' \in Seq(Frame)
      /\ Len(frames') = n
      /\ frames'[n] = f
      /\ \A k \in 1..n : k # n => frames'[k] = frames[k]
  BY <1>1, <1>2, <1>3, SetTop DEF CallNext
<1>5. \/ index < Len(handlers)
      \/ index + n + 1 <= MaxInt8
  BY <1>1 DEF IInv, IndexInv, CallNext
<1>6. index < MaxInt8 /\ index' = index + 1
  BY <1>1, <1>5 DEF CallNext, Inc
<1>7. pc = "body" /\ pc' = "loop" /\ handlers' = handlers /\ ran' = ran /\ aborted' = aborted
  BY DEF CallNext
<1>8. Cursor' = Cursor
  BY <1>6, <1>7 DEF Cursor
<1>9. TypeOK'
  BY <1>4, <1>6, <1>7 DEF IInv, TypeOK
<1>10. IndexFits'
  BY <1>6, <1>7 DEF IndexFits
<1>11. CallersWait'
  BY <1>1, <1>2, <1>4, <1>7 DEF IInv, CallersWait
<1>12. DepthInv'
  <2>1. \A k \in 1..n : frames'[k].kind = frames[k].kind
    BY <1>1, <1>2, <1>4
  <2>2. \A k \in 1..n : frames[k].nexts = 1 => frames'[k].nexts = 1
    BY <1>1, <1>2, <1>4
  <2>3. QED
    BY <1>4, <1>7, <1>8, <2>1, <2>2 DEF IInv, DepthInv
<1>13. IndexInv'
  BY <1>4, <1>5, <1>6, <1>7 DEF IndexInv
<1>14. AbortInv'
  BY <1>6, <1>7 DEF IInv, AbortInv
<1>15. InOrder' /\ RanInv'
  BY <1>7, <1>8 DEF IInv, InOrder, RanInv, RanSet, Passed
<1>16. QED
  BY <1>9, <1>10, <1>11, <1>12, <1>13, <1>14, <1>15 DEF IInv

(* A call pushes a frame; the loop only calls handlers of the chain. *)
LEMMA LoopCallInv == ASSUME SafeUse, IInv, LoopCall PROVE IInv'
<1> USE StackFacts
<1> DEFINE n == Len(frames)
<1> DEFINE f == [kind |-> handlers[index + 1], nexts |-> 0]
<1>1. /\ pc = "loop" /\ pc' = "body"
      /\ index \in 0 .. Len(handlers) - 1 /\ index' = index
      /\ handlers' = handlers /\ aborted' = aborted
      /\ frames' = Append(frames, f) /\ ran' = Append(ran, index)
      /\ handlers[index + 1] # "nil"
  BY DEF LoopCall
<1>2. handlers[index + 1] \in Kinds
  BY <1>1, ElementOfSeq
<1>3. f \in Frame
  BY <1>2 DEF Frame
<1>4. /\ frames' \in Seq(Frame) /\ Len(frames') = n + 1
      /\ frames'[n + 1] = f
      /\ \A k \in 1..n : frames'[k] = frames[k]
      /\ frames' # <<>>
  BY <1>1, <1>3, PushFrame
<1>5. ran \in Seq(Nat) /\ Len(ran) \in Nat /\ \A i \in 1..Len(ran) : ran[i] \in Nat
  BY ElementOfSeq, LenProperties DEF IInv, TypeOK
<1>6. /\ ran' \in Seq(Nat) /\ Len(ran') = Len(ran) + 1
      /\ ran'[Len(ran) + 1] = index
      /\ \A i \in 1..Len(ran) : ran'[i] = ran[i]
  BY <1>1, <1>5, AppendProperties
<1>7. Cursor = index /\ Cursor' = index + 1
  BY <1>1 DEF Cursor
<1>8. ~aborted
  BY <1>1 DEF IInv, AbortInv
<1>9. TypeOK'
  BY <1>1, <1>4, <1>6 DEF IInv, TypeOK
<1>10. IndexFits'
  BY <1>1 DEF IndexFits
<1>11. CallersWait'
  <2>1. \A k \in 1..n : frames[k].nexts = MaxNextCalls
    BY <1>1 DEF IInv, CallersWait
  <2>2. QED
    BY <1>1, <1>4, <2>1 DEF CallersWait
<1>12. DepthInv'
  <2>1. CASE /\ handlers \in Chains /\ n <= Cursor /\ n <= Len(handlers)
             /\ \A k \in 1..n :
                   frames[k].kind = "static" => \E i \in 1..Len(handlers) : handlers[i] = "static"
    BY <1>1, <1>4, <1>7, <2>1 DEF DepthInv
  <2>2. CASE /\ handlers = NoRoute
             /\ \E base \in 0..AbortIndex :
                   /\ base + Len(NoRoute) <= AbortIndex
                   /\ n <= base + Cursor /\ n <= base + Len(NoRoute)
             /\ \A k \in 1..n : frames[k].kind = "static" => frames[k].nexts = MaxNextCalls
    <3>1. f.kind # "static"
      BY <1>1, <2>2, ChainFacts
    <3>2. PICK base \in 0..AbortIndex :
                   /\ base + Len(NoRoute) <= AbortIndex
                   /\ n <= base + Cursor /\ n <= base + Len(NoRoute)
      BY <2>2
    <3>3. Len(frames') <= base + Cursor' /\ Len(frames') <= base + Len(NoRoute)
      BY SMTT(60), <1>1, <1>4, <1>7, <2>2, <3>2
    <3>4. QED
      BY SMTT(60), <1>1, <1>4, <2>2, <3>1, <3>2, <3>3 DEF DepthInv
  <2>3. QED
    BY <1>8, <2>1, <2>2 DEF IInv, DepthInv
<1>13. IndexInv'
  BY <1>1 DEF IndexInv
<1>14. AbortInv'
  BY <1>1, <1>8 DEF AbortInv
<1>15. InOrder' /\ RanSet' = RanSet \cup {index}
  <2>1. \A i \in 1..Len(ran) : ran[i] < index
    BY <1>1, <1>7 DEF IInv, RanInv
  <2>2. index \in Nat
    BY <1>1
  <2>3. QED
    BY <1>1, <1>5, <2>1, <2>2, AppendRan DEF IInv
<1>16. RanInv'
  <2>1. \A i \in 1..Len(ran) : ran[i] < Len(handlers) /\ ran[i] < index
    BY <1>1, <1>7 DEF IInv, RanInv
  <2>2. \A i \in 1..Len(ran') : ran'[i] < Len(handlers') /\ ran'[i] < Cursor'
    BY <1>1, <1>5, <1>6, <1>7, <2>1
  <2>3. RanSet' = RanSet \cup {index}
    BY <1>15
  <2>4. Passed' = Passed \cup {index}
    BY SMTT(60), <1>1, <1>7 DEF Passed
  <2>5. RanSet = Passed
    BY <1>1, <1>8 DEF IInv, RanInv
  <2>6. QED
    BY <1>1, <2>2, <2>3, <2>4, <2>5 DEF RanInv
<1>17. QED
  BY <1>9, <1>10, <1>11, <1>12, <1>13, <1>14, <1>15, <1>16 DEF IInv

(* Stepping over a nil handler passes a position that is never called.      *)
LEMMA LoopNilInv == ASSUME SafeUse, IInv, LoopNil PROVE IInv'
<1> USE StackFacts
<1>1. /\ pc = "loop" /\ index \in 0 .. Len(handlers) - 1
      /\ handlers[index + 1] = "nil" /\ index' = index + 1
      /\ UNCHANGED <<handlers, frames, pc, ran, aborted>>
  BY DEF LoopNil, Inc
<1>2. Cursor = index /\ Cursor' = index + 1
  BY <1>1 DEF Cursor
<1>3. TypeOK' /\ IndexFits' /\ CallersWait' /\ InOrder' /\ AbortInv'
  BY <1>1 DEF IInv, TypeOK, IndexFits, CallersWait, InOrder, AbortInv
<1>4. DepthInv'
  BY <1>1, <1>2 DEF IInv, DepthInv
<1>5. Len(frames) <= AbortIndex /\ IndexInv'
  BY <1>1 DEF IndexInv
<1>6. RanInv'
  <2>1. Passed' = Passed
    BY <1>1, <1>2 DEF Passed
  <2>2. \A i \in 1..Len(ran) : ran[i] \in Nat /\ ran[i] < Len(handlers) /\ ran[i] < index
    BY <1>2, ElementOfSeq DEF IInv, TypeOK, RanInv
  <2>3. \A i \in 1..Len(ran') : ran'[i] < Len(handlers') /\ ran'[i] < Cursor'
    BY <1>1, <1>2, <2>2
  <2>4. ~aborted' => RanSet' = Passed'
    BY <1>1, <2>1 DEF IInv, RanInv, RanSet
  <2>5. QED
    BY <1>1, <2>3, <2>4 DEF RanInv
<1>7. QED
  BY <1>3, <1>4, <1>5, <1>6 DEF IInv

(* Next returns to the handler that called it, which has spent its call.    *)
LEMMA LoopExitInv == ASSUME SafeUse, IInv, LoopExit(0) PROVE IInv'
<1> USE StackFacts
<1>1. /\ pc = "loop" /\ index >= Len(handlers)
      /\ pc' = IF Len(frames) = 0 THEN "done" ELSE "body"
      /\ UNCHANGED <<index, handlers, frames, ran, aborted>>
  BY DEF LoopExit
<1>2. Cursor = index /\ Cursor' \in {index, index + 1}
  BY <1>1 DEF Cursor
<1>3. pc' = "body" => Len(frames) \in 1..Len(frames) /\ frames # <<>> /\ Top.nexts = MaxNextCalls
  <2>1. pc' = "body" => Len(frames) \in 1..Len(frames)
    BY <1>1
  <2>2. QED
    BY <1>1, <2>1, EmptySeq DEF IInv, CallersWait, Top
<1>4. TypeOK' /\ InOrder'
  BY <1>1, <1>3 DEF IInv, TypeOK, InOrder
<1>5. IndexFits'
  BY <1>1 DEF IndexFits
<1>6. CallersWait'
  BY <1>1 DEF IInv, CallersWait
<1>7. DepthInv'
  BY <1>1, <1>2 DEF IInv, DepthInv
<1>8. IndexInv'
  <2>1. Top' = Top
    BY <1>1 DEF Top
  <2>2. index + Len(frames) <= MaxInt8
    BY <1>1 DEF IInv, IndexInv
  <2>3. CASE pc' = "body"
    BY <1>1, <1>3, <2>1, <2>2, <2>3 DEF IndexInv
  <2>4. CASE pc' # "body"
    BY <1>1, <2>2, <2>4 DEF IndexInv
  <2>5. QED
    BY <2>3, <2>4
<1>9. AbortInv'
  <2>1. Top' = Top
    BY <1>1 DEF Top
  <2>2. QED
    BY <1>1, <1>3, <2>1 DEF IInv, AbortInv
<1>10. RanInv'
  <2>1. \A i \in 1..Len(ran) : ran[i] \in Nat /\ ran[i] < Len(handlers) /\ ran[i] < index
    BY <1>1, <1>2, ElementOfSeq DEF IInv, TypeOK, RanInv
  <2>2. Passed' = Passed
    BY <1>1, <1>2 DEF Passed
  <2>3. RanSet' = RanSet
    BY <1>1 DEF RanSet
  <2>4. \A i \in 1..Len(ran') : ran'[i] < Len(handlers') /\ ran'[i] < Cursor'
    BY <1>1, <1>2, <2>1
  <2>5. pc' = "done" => frames' = <<>> /\ index' >= Len(handlers')
    BY <1>1, EmptySeq
  <2>6. ~aborted' => RanSet' = Passed'
    BY <1>1, <2>2, <2>3 DEF IInv, RanInv
  <2>7. QED
    BY <2>4, <2>5, <2>6 DEF RanInv
<1>11. QED
  BY <1>4, <1>5, <1>6, <1>7, <1>8, <1>9, <1>10 DEF IInv

(* A return pops one frame and increments the index by one. *)
LEMMA ReturnInv == ASSUME SafeUse, IInv, Return PROVE IInv'
<1> USE StackFacts
<1> DEFINE n == Len(frames)
<1>1. /\ pc = "body" /\ pc' = "loop" /\ n >= 1 /\ n \in 1..n
      /\ index' = Inc(index) /\ frames' = SubSeq(frames, 1, n - 1)
      /\ UNCHANGED <<handlers, ran, aborted>>
  BY DEF Return
<1>2. Top = frames[n] /\ Top.nexts \in 0..1
  BY <1>1, FrameFacts DEF Top
<1>3. index < Len(handlers) \/ index + n + (MaxNextCalls - Top.nexts) <= MaxInt8
  BY <1>1 DEF IInv, IndexInv
<1>4. index < MaxInt8 /\ index' = index + 1
  BY <1>1, <1>2, <1>3 DEF Inc
<1>5. /\ frames' \in Seq(Frame) /\ Len(frames') = n - 1
      /\ \A k \in 1..n - 1 : frames'[k] = frames[k]
  <2>1. n - 1 \in 0..n
    BY <1>1
  <2>2. QED
    BY <1>1, <2>1, CutStack
<1>6. Cursor = index + 1 /\ Cursor' = index + 1
  BY <1>1, <1>4 DEF Cursor
<1>7. TypeOK' /\ IndexFits' /\ InOrder' /\ AbortInv'
  BY <1>1, <1>4, <1>5 DEF IInv, TypeOK, IndexFits, InOrder, AbortInv
<1>8. CallersWait'
  <2>1. \A k \in 1..n - 1 : k \in 1..n /\ k < n
    BY <1>1
  <2>2. \A k \in 1..n - 1 : frames[k].nexts = MaxNextCalls
    BY <2>1 DEF IInv, CallersWait
  <2>3. QED
    BY <1>5, <2>2 DEF CallersWait
<1>9. DepthInv'
  <2>1. \A k \in 1..n - 1 : k \in 1..n
    BY <1>1
  <2>2. CASE /\ handlers \in Chains /\ n <= Cursor /\ n <= Len(handlers)
             /\ \A k \in 1..n :
                   frames[k].kind = "static" => \E i \in 1..Len(handlers) : handlers[i] = "static"
    BY <1>1, <1>5, <1>6, <2>1, <2>2 DEF DepthInv
  <2>3. CASE /\ handlers = NoRoute
             /\ \E base \in 0..AbortIndex :
                   /\ base + Len(NoRoute) <= AbortIndex
                   /\ n <= base + Cursor /\ n <= base + Len(NoRoute)
             /\ \A k \in 1..n : frames[k].kind = "static" => frames[k].nexts = MaxNextCalls
    <3>1. PICK base \in 0..AbortIndex :
                   /\ base + Len(NoRoute) <= AbortIndex
                   /\ n <= base + Cursor /\ n <= base + Len(NoRoute)
      BY <2>3
    <3>2. Len(frames') <= base + Cursor' /\ Len(frames') <= base + Len(NoRoute)
      BY SMTT(60), <1>1, <1>4, <1>5, <1>6, <3>1
    <3>3. \A k \in 1..n - 1 : frames'[k].kind = "static" => frames'[k].nexts = MaxNextCalls
      BY <1>5, <2>1, <2>3
    <3>4. QED
      BY <1>1, <1>5, <2>3, <3>1, <3>2, <3>3 DEF DepthInv
  <2>4. CASE aborted
    BY <1>1, <1>5, <2>4 DEF DepthInv
  <2>5. QED
    BY <2>2, <2>3, <2>4 DEF IInv, DepthInv
<1>10. IndexInv'
  BY <1>1, <1>2, <1>3, <1>4, <1>5 DEF IndexInv
<1>11. RanInv'
  BY <1>1, <1>6 DEF IInv, RanInv, RanSet, Passed
<1>12. QED
  BY <1>7, <1>8, <1>9, <1>10, <1>11 DEF IInv

(* Abort moves the cursor to AbortIndex, behind every chain. *)
LEMMA AbortStepInv == ASSUME SafeUse, IInv, Abort PROVE IInv'
<1> USE StackFacts
<1>1. /\ pc = "body" /\ index' = AbortIndex /\ aborted' = TRUE
      /\ UNCHANGED <<handlers, frames, pc, ran>> /\ Top.kind = "handler"
      /\ Len(frames) \in 1..Len(frames)
  BY DEF Abort
<1>2. Top.nexts \in 0..1 /\ Top' = Top
  BY <1>1, FrameFacts DEF Top
<1>3. Cursor = index + 1 /\ Cursor' = AbortIndex + 1
  BY <1>1 DEF Cursor
<1>4. TypeOK' /\ IndexFits' /\ CallersWait' /\ InOrder'
  BY <1>1 DEF IInv, TypeOK, IndexFits, CallersWait, InOrder
<1>5. DepthInv'
  <2>1. Len(frames) <= Cursor'
    BY <1>3
  <2>2. \A base \in 0..AbortIndex : Len(frames) <= base + Cursor'
    BY <1>3
  <2>3. QED
    BY <1>1, <2>1, <2>2 DEF IInv, DepthInv
<1>6. IndexInv'
  BY <1>1, <1>2 DEF IndexInv
<1>7. AbortInv'
  BY <1>1, <1>2 DEF AbortInv
<1>8. RanInv'
  <2>1. \A i \in 1..Len(ran) : ran[i] \in Nat /\ ran[i] < Len(handlers)
    BY <1>1, ElementOfSeq DEF IInv, TypeOK, RanInv
  <2>2. \A i \in 1..Len(ran') : ran'[i] < Len(handlers') /\ ran'[i] < Cursor'
    BY <1>1, <1>3, <2>1
  <2>3. QED
    BY <1>1, <2>2 DEF RanInv
<1>9. QED
  BY <1>4, <1>5, <1>6, <1>7, <1>8 DEF IInv

(* The file handler restarts the cursor on top of the frames that wait for  *)
(* it; SafeUse leaves room for the 404 handlers above them.                 *)
LEMMA StaticMissInv == ASSUME SafeUse, IInv, StaticMiss PROVE IInv'
<1> USE StackFacts
<1> DEFINE n == Len(frames)
<1> DEFINE f == Spent(Top)
<1>1. /\ pc = "body" /\ pc' = "body" /\ handlers' = NoRoute /\ index' = -1
      /\ frames' = [frames EXCEPT ![n] = f] /\ ran' = <<>> /\ aborted' = aborted
      /\ Top.kind = "static" /\ Top.nexts = 0 /\ n \in 1..n /\ Top = frames[n]
  BY DEF StaticMiss, Top
<1>2. f \in Frame /\ f.nexts = MaxNextCalls /\ f.kind = "static"
  BY <1>1 DEF Frame, Spent, Kinds
<1>3. /\ frames' \in Seq(Frame) /\ Len(frames') = n /\ frames'[n] = f
      /\ \A k \in 1..n : k # n => frames'[k] = frames[k]
      /\ frames' # <<>>
  BY <1>1, <1>2, SetTop, EmptySeq
<1>4. ~aborted
  BY <1>1 DEF IInv, AbortInv
<1>5. \A k \in 1..n : frames'[k].nexts = MaxNextCalls
  <2>1. \A k \in 1..n : k # n => frames[k].nexts = MaxNextCalls
    <3>1. \A k \in 1..n : k # n => k < n
      OBVIOUS
    <3>2. CallersWait
      BY DEF IInv
    <3>3. QED
      BY <3>1, <3>2 DEF CallersWait
  <2>2. QED
    BY <1>2, <1>3, <2>1
<1>6. n + Len(NoRoute) <= AbortIndex
  <2>1. ~(handlers = NoRoute /\ \A k \in 1..n : frames[k].kind = "static" => frames[k].nexts = MaxNextCalls)
    BY <1>1
  <2>2. /\ handlers \in Chains /\ n <= Len(handlers)
        /\ \E i \in 1..Len(handlers) : handlers[i] = "static"
    BY <1>1, <1>4, <2>1 DEF IInv, DepthInv
  <2>3. QED
    BY <2>2 DEF SafeUse
<1>7. Cursor' = 0 /\ Len(NoRoute) \in Nat
  BY <1>1 DEF Cursor
<1>8. TypeOK'
  <2>1. index' \in -MaxInt8 - 1 .. MaxInt8
    BY <1>1
  <2>2. ran' \in Seq(Nat)
    BY <1>1, EmptySeq
  <2>3. QED
    BY <1>1, <1>3, <2>1, <2>2 DEF IInv, TypeOK
<1>9. IndexFits' /\ CallersWait' /\ AbortInv'
  BY <1>1, <1>3, <1>4, <1>5 DEF IndexFits, CallersWait, AbortInv
<1>10. DepthInv'
  <2>1. n \in 0..AbortIndex /\ n <= n + Cursor' /\ n <= n + Len(NoRoute)
    BY <1>6, <1>7
  <2>2. \E base \in 0..AbortIndex :
             /\ base + Len(NoRoute) <= AbortIndex
             /\ n <= base + Cursor' /\ n <= base + Len(NoRoute)
    BY <1>6, <2>1
  <2>3. QED
    BY <1>1, <1>3, <1>5, <2>2 DEF DepthInv
<1>11. IndexInv'
  BY <1>1, <1>7 DEF IndexInv
<1>12. InOrder' /\ RanInv'
  <2>1. Len(ran') = 0 /\ 1..Len(ran') = {}
    BY <1>1
  <2>2. Passed' = {}
    BY <1>7 DEF Passed
  <2>3. QED
    BY <1>1, <2>1, <2>2 DEF InOrder, RanInv, RanSet
<1>13. QED
  BY <1>8, <1>9, <1>10, <1>11, <1>12 DEF IInv

(* The file handler that has sent its file has spent its frame. *)
LEMMA StaticServeInv == ASSUME SafeUse, IInv, StaticServe PROVE IInv'
<1> USE StackFacts
<1> DEFINE n == Len(frames)
<1> DEFINE f == Spent(Top)
<1>1. /\ pc = "body" /\ frames' = [frames EXCEPT ![n] = f]
      /\ UNCHANGED <<index, handlers, pc, ran, aborted>>
      /\ Top.kind = "static" /\ Top.nexts = 0 /\ n \in 1..n /\ Top = frames[n]
  BY DEF StaticServe, Top
<1>2. f \in Frame /\ f.nexts = MaxNextCalls /\ f.kind = "static"
  BY <1>1 DEF Frame, Spent, Kinds
<1>3. /\ frames' \in Seq(Frame) /\ Len(frames') = n /\ frames'[n] = f
      /\ \A k \in 1..n : k # n => frames'[k] = frames[k]
      /\ frames' # <<>>
  BY <1>1, <1>2, SetTop, EmptySeq
<1>4. /\ \A k \in 1..n : frames'[k].kind = frames[k].kind
      /\ \A k \in 1..n : frames[k].nexts = MaxNextCalls => frames'[k].nexts = MaxNextCalls
  BY <1>1, <1>2, <1>3
<1>5. Top'.nexts = MaxNextCalls /\ Top'.kind = "static"
  BY <1>1, <1>2, <1>3 DEF Top
<1>6. Cursor' = Cursor
  BY <1>1 DEF Cursor
<1>7. TypeOK' /\ IndexFits' /\ InOrder'
  BY <1>1, <1>3 DEF IInv, TypeOK, IndexFits, InOrder
<1>8. CallersWait'
  BY <1>1, <1>3, <1>4 DEF IInv, CallersWait
<1>9. DepthInv'
  BY <1>1, <1>3, <1>4, <1>6 DEF IInv, DepthInv
<1>10. IndexInv'
  BY <1>1, <1>3, <1>5 DEF IInv, IndexInv
<1>11. AbortInv'
  BY <1>1, <1>5 DEF IInv, AbortInv
<1>12. RanInv'
  BY <1>1, <1>6 DEF IInv, RanInv, RanSet, Passed
<1>13. QED
  BY <1>7, <1>8, <1>9, <1>10, <1>11, <1>12 DEF IInv

(* A recovered panic only shortens the stack. *)
LEMMA UnwindInv == ASSUME SafeUse, IInv, Panic \/ LoopBadIndex PROVE IInv'
<1> USE StackFacts
<1> DEFINE n == Len(frames)
<1>0. Panic
  <2>1. pc = "loop" => index >= 0
    BY DEF IInv, IndexFits
  <2>2. index \in Int
    BY DEF IInv, TypeOK
  <2>3. ~BadIndex
    BY <2>1, <2>2 DEF BadIndex
  <2>4. QED
    BY <2>3, Zenon DEF LoopBadIndex
<1>1. pc = "body" /\ n \in 1..n /\ Top.kind \in {"handler", "static"}
  BY <1>0 DEF Panic, CanPanic
<1>2. Cursor = index + 1 /\ index >= -1
  BY <1>1 DEF Cursor
<1>3. \A i \in 1..Len(ran) : ran[i] \in Nat /\ ran[i] < Len(handlers)
  BY ElementOfSeq DEF IInv, TypeOK, RanInv
<1>4. CASE pc' = "crashed" /\ frames' = <<>> /\ UNCHANGED <<index, handlers, ran, aborted>>
  <2>1. Len(frames') = 0 /\ frames' \in Seq(Frame) /\ Cursor' = index + 1
    BY <1>4, EmptySeq DEF Cursor
  <2>2. TypeOK' /\ IndexFits' /\ InOrder' /\ AbortInv'
    BY <1>1, <1>2, <1>4, <2>1 DEF IInv, TypeOK, IndexFits, InOrder, AbortInv
  <2>3. CallersWait'
    BY <2>1 DEF CallersWait
  <2>4. IndexInv'
    BY <1>4, <2>1 DEF IndexInv
  <2>5. DepthInv'
    <3>1. CASE handlers \in Chains
      BY <1>2, <1>4, <2>1, <3>1 DEF DepthInv
    <3>2. CASE handlers = NoRoute
      BY <1>2, <1>4, <2>1, <3>2 DEF DepthInv
    <3>3. QED
      BY <3>1, <3>2
  <2>6. RanInv'
    BY <1>2, <1>4, <2>1 DEF IInv, RanInv, RanSet, Passed
  <2>7. QED
    BY <2>2, <2>3, <2>4, <2>5, <2>6 DEF IInv
<1>5. ASSUME NEW k \in Recoverers, NEW broken \in BOOLEAN,
             frames' = SubSeq(frames, 1, k), pc' = "body",
             index' = (IF frames[k].kind = "recovery" \/ broken THEN AbortIndex ELSE index),
             aborted' = (aborted \/ frames[k].kind = "recovery" \/ broken),
             UNCHANGED <<handlers, ran>>
      PROVE  IInv'
  <2>1. k \in 1..n /\ k < n /\ frames[k].kind \in {"recovery", "custom"}
    BY <1>1 DEF Recoverers, Top
  <2>2. k \in 0..n
    BY <2>1
  <2>3. /\ frames' \in Seq(Frame) /\ Len(frames') = k
        /\ \A j \in 1..k : frames'[j] = frames[j]
    BY <1>5, <2>2, CutStack
  <2>4. \A j \in 1..k : frames'[j].nexts = MaxNextCalls
    <3>1. \A j \in 1..k : j \in 1..n /\ j < n
      BY <2>1
    <3>2. \A j \in 1..k : frames[j].nexts = MaxNextCalls
      BY <3>1 DEF IInv, CallersWait
    <3>3. QED
      BY <2>3, <3>2
  <2>5. k \in 1..k /\ frames' # <<>> /\ Top' = frames[k] /\ Top'.nexts = MaxNextCalls
    BY <2>1, <2>3, <2>4, EmptySeq DEF Top
  <2>6. Cursor' = index' + 1
    BY <1>5 DEF Cursor
  <2>7. index' \in {index, AbortIndex} /\ (index' = index \/ aborted')
    BY <1>5
  <2>8. TypeOK'
    <3>1. index' \in -MaxInt8 - 1 .. MaxInt8
      BY <2>7
    <3>2. QED
      BY <1>5, <2>3, <2>5, <3>1 DEF IInv, TypeOK
  <2>9. IndexFits' /\ InOrder'
    BY <1>2, <1>5, <2>7 DEF IInv, IndexFits, InOrder
  <2>10. CallersWait'
    BY <2>3, <2>4 DEF CallersWait
  <2>11. DepthInv'
    <3>1. CASE /\ handlers \in Chains /\ n <= Cursor /\ n <= Len(handlers)
               /\ \A j \in 1..n :
                     frames[j].kind = "static" => \E i \in 1..Len(handlers) : handlers[i] = "static"
      <4>1. k <= Cursor' /\ k <= Len(handlers)
        BY <1>2, <2>1, <2>6, <2>7, <3>1
      <4>2. \A j \in 1..k : j \in 1..n /\ frames'[j] = frames[j]
        BY <2>1, <2>3
      <4>3. \A j \in 1..k : frames'[j].kind = "static" => \E i \in 1..Len(handlers) : handlers[i] = "static"
        BY <3>1, <4>2
      <4>4. QED
        BY <1>5, <2>3, <3>1, <4>1, <4>3 DEF DepthInv
    <3>2. CASE /\ handlers = NoRoute
               /\ \E base \in 0..AbortIndex :
                     /\ base + Len(NoRoute) <= AbortIndex
                     /\ n <= base + Cursor /\ n <= base + Len(NoRoute)
               /\ \A j \in 1..n : frames[j].kind = "static" => frames[j].nexts = MaxNextCalls
      <4>1. PICK base \in 0..AbortIndex :
                     /\ base + Len(NoRoute) <= AbortIndex
                     /\ n <= base + Cursor /\ n <= base + Len(NoRoute)
        BY <3>2
      <4>2. k <= base + Cursor' /\ k <= base + Len(NoRoute)
        <5>1. CASE index' = index
          BY <1>2, <2>1, <2>6, <4>1, <5>1
        <5>2. CASE index' = AbortIndex
          BY <2>1, <2>6, <4>1, <5>2
        <5>3. QED
          BY <2>7, <5>1, <5>2
      <4>3. QED
        BY <1>5, <2>3, <2>4, <3>2, <4>1, <4>2 DEF DepthInv
    <3>3. CASE aborted
      <4>1. aborted'
        BY <1>5, <3>3, Zenon
      <4>2. Len(frames') <= AbortIndex
        BY <2>1, <2>3
      <4>3. QED
        BY <4>1, <4>2 DEF DepthInv
    <3>4. QED
      BY <3>1, <3>2, <3>3 DEF IInv, DepthInv
  <2>12. IndexInv'
    <3>1. CASE index' = AbortIndex
      BY <1>5, <2>1, <2>3, <2>5, <3>1 DEF IndexInv
    <3>2. CASE index' = index
      <4>1. Top.nexts \in 0..1
        BY <1>1, FrameFacts DEF Top
      <4>2. index < Len(handlers) \/ index + n + (MaxNextCalls - Top.nexts) <= MaxInt8
        BY <1>1 DEF IInv, IndexInv
      <4>3. QED
        BY SMTT(60), <1>5, <2>1, <2>3, <2>5, <3>2, <4>1, <4>2 DEF IndexInv
    <3>3. QED
      BY <2>7, <3>1, <3>2
  <2>13. AbortInv'
    <3>1. CASE frames[k].kind = "recovery" \/ broken
      BY <1>5, <2>1, <2>5, <3>1 DEF AbortInv
    <3>2. CASE ~(frames[k].kind = "recovery" \/ broken)
      <4>1. index' = index /\ (aborted' => aborted)
        BY <1>5, <3>2
      <4>2. QED
        BY <2>1, <2>5, <4>1 DEF IInv, AbortInv
    <3>3. QED
      BY <3>1, <3>2
  <2>14. RanInv'
    <3>1. CASE index' = index
      BY <1>2, <1>5, <2>6, <3>1 DEF IInv, RanInv, RanSet, Passed
    <3>2. CASE index' = AbortIndex /\ aborted'
      BY <1>3, <1>5, <2>6, <3>2 DEF RanInv
    <3>3. QED
      BY <2>7, <3>1, <3>2
  <2>15. QED
    BY <2>8, <2>9, <2>10, <2>11, <2>12, <2>13, <2>14 DEF IInv
<1>6. QED
  <2>1. PICK broken \in BOOLEAN : Unwind(broken)
    BY <1>0 DEF Panic
  <2>2. QED
    BY <1>4, <1>5, <2>1 DEF Unwind

(* Every step preserves the invariant. *)
LEMMA StepInv == ASSUME SafeUse, IInv, [Next]_vars PROVE IInv'
<1>1. CASE UNCHANGED vars
  BY <1>1 DEF vars, IInv, TypeOK, IndexFits, CallersWait, DepthInv, IndexInv, AbortInv,
              InOrder, RanInv, Cursor, Passed, RanSet, Top
<1>2. CASE Next
  <2>1. CASE CallNext     BY <2>1, CallNextInv
  <2>2. CASE LoopCall     BY <2>2, LoopCallInv
  <2>3. CASE LoopNil      BY <2>3, LoopNilInv
  <2>4. CASE LoopExit(0)  BY <2>4, LoopExitInv
  <2>5. CASE Return       BY <2>5, ReturnInv
  <2>6. CASE Abort        BY <2>6, AbortStepInv
  <2>7. CASE StaticMiss   BY <2>7, StaticMissInv
  <2>8. CASE Panic        BY <2>8, UnwindInv
  <2>9. CASE LoopBadIndex BY <2>9, UnwindInv
  <2>10. CASE Terminated  BY <2>10, <1>1 DEF Terminated
  <2>11. CASE StaticServe BY <2>11, StaticServeInv
  <2>12. QED
    BY <1>2, <2>1, <2>2, <2>3, <2>4, <2>5, <2>6, <2>7, <2>8, <2>9, <2>10, <2>11 DEF Next, Step
<1>3. QED
  BY <1>1, <1>2

(* The invariant holds of every reachable state. *)
THEOREM InductiveInvariant == ASSUME SafeUse PROVE Spec => []IInv
<1>1. Init => IInv
  BY InitInv
<1>2. IInv /\ [Next]_vars => IInv'
  BY StepInv
<1>3. QED
  BY <1>1, <1>2, PTL DEF Spec

(* The variables have their types: in particular c.index is an int8 and the *)
(* chain is one the engine built.                                           *)
THEOREM TypeCorrect == ASSUME SafeUse PROVE Spec => []TypeOK
<1>1. IInv => TypeOK
  BY DEF IInv
<1>2. QED
  BY <1>1, InductiveInvariant, PTL

(* The increments of c.index after Abort never wrap the int8: Next's loop   *)
(* never indexes the chain with a negative number.                          *)
THEOREM IndexNeverWraps == ASSUME SafeUse PROVE Spec => []IndexFits
<1>1. IInv => IndexFits
  BY DEF IInv
<1>2. QED
  BY <1>1, InductiveInvariant, PTL

(* Handlers are called in the order of the chain and none of them twice.    *)
THEOREM CalledInOrder == ASSUME SafeUse PROVE Spec => []InOrder
<1>1. IInv => InOrder
  BY DEF IInv
<1>2. QED
  BY <1>1, InductiveInvariant, PTL

(* A request that ends without Abort has called every handler of its chain. *)
THEOREM NoneLeftOut == ASSUME SafeUse PROVE Spec => []NoneSkipped
<1>1. ASSUME IInv PROVE NoneSkipped
  <2>1. SUFFICES ASSUME pc = "done", ~aborted PROVE RanSet = Passed /\ Remaining = {}
    BY DEF NoneSkipped
  <2>2. index >= Len(handlers) /\ RanSet = Passed
    BY <1>1, <2>1 DEF IInv, RanInv
  <2>3. index \in Int /\ Len(handlers) \in Nat /\ Cursor = index
    BY <1>1, <2>1, ChainFacts DEF IInv, TypeOK, Cursor
  <2>4. QED
    BY <2>2, <2>3 DEF Remaining
<1>2. QED
  BY <1>1, InductiveInvariant, PTL

(* No handler is called after Abort, however the handlers still on the      *)
(* stack go on calling Next and returning.                                  *)
THEOREM AbortIsFinal == ASSUME SafeUse PROVE Spec => AbortStops
<1>1. ASSUME IInv, [Next]_vars PROVE [aborted => ran' = ran]_vars
  <2>1. ASSUME aborted, LoopCall PROVE FALSE
    <3>1. index \in Int /\ index >= AbortIndex
      BY <1>1, <2>1, ChainFacts DEF IInv, TypeOK, AbortInv
    <3>2. Len(handlers) \in Nat /\ Len(handlers) < AbortIndex /\ AbortIndex \in Nat
      BY <1>1, ChainFacts DEF IInv, TypeOK
    <3>3. QED
      BY <2>1, <3>1, <3>2 DEF LoopCall
  <2>2. ASSUME aborted, StaticMiss PROVE FALSE
    BY <1>1, <2>2 DEF IInv, AbortInv, StaticMiss
  <2>3. CASE aborted /\ Next
    BY <2>1, <2>2, <2>3 DEF Next, Step, CallNext, LoopNil, LoopExit, Return, Abort, StaticServe,
                            Panic, CanPanic, LoopBadIndex, BadIndex, Unwind, Terminated, vars
  <2>4. QED
    BY <1>1, <2>3
<1>2. QED
  BY <1>1, InductiveInvariant, PTL DEF Spec, AbortStops

-----------------------------------------------------------------------------
(* IsAborted: what the index can reach without Abort. *)

(* A step that keeps the invariant does not wrap the index.                 *)
LEMMA NoWrap ==
    ASSUME SafeUse, IInv, IInv', index' = Inc(index)
    PROVE  index' = index + 1
<1>1. index \in Int /\ MaxInt8 \in Nat /\ MaxInt8 > 0 /\ index' >= -1
  BY ChainFacts DEF IInv, TypeOK, IndexFits
<1>. QED BY <1>1 DEF Inc

(* Until Abort, a handler on the stack adds to an index that has passed the *)
(* chain one for its return and one for its call of Next, if it has not     *)
(* made it yet; the stack is no deeper than the chain is long.              *)
ReturnsInv ==
    ~aborted /\ handlers # NoRoute =>
        \/ index < Len(handlers)
        \/ pc = "body" /\ index + Len(frames) + (MaxNextCalls - Top.nexts) <= 2 * Len(handlers)
        \/ pc # "body" /\ index + Len(frames) <= 2 * Len(handlers)

(* What a chain that has not been aborted knows of its stack.               *)
LEMMA Unaborted ==
    ASSUME SafeUse, IInv, ~aborted, handlers # NoRoute
    PROVE  /\ Len(frames) <= Len(handlers) /\ Len(frames) \in Nat /\ Len(handlers) \in Nat
           /\ index \in Int
           /\ pc = "body" => Len(frames) >= 1 /\ Top = frames[Len(frames)] /\ Top.nexts \in 0..1
<1>1. Len(frames) <= Len(handlers)
  BY DEF IInv, DepthInv
<1>2. pc = "body" => Len(frames) \in 1..Len(frames)
  BY StackFacts
<1>. QED BY <1>1, <1>2, StackFacts, FrameFacts DEF Top

(* A call of Next keeps the stack. *)
LEMMA CallNextDepth == ASSUME SafeUse, IInv, CallNext PROVE Len(frames') = Len(frames)
<1>1. Top \in Frame /\ frames \in Seq(Frame) /\ frames # <<>>
  BY StackFacts, EmptySeq DEF Top, CallNext
<1>2. InNext(Top) \in Frame
  BY <1>1, StackFacts DEF InNext, Spent, Frame, CallNext
<1>. QED BY <1>1, <1>2, SetTop DEF CallNext

(* After Next's loop has moved to index', with m frames left that have all  *)
(* made their call of Next.                                                 *)
LEMMA LoopReturns ==
    ASSUME SafeUse, IInv, IInv', pc' = "loop", index' = index + 1, handlers' = handlers,
           ~aborted => /\ Len(frames') <= Len(handlers)
                       /\ index >= Len(handlers) => index' + Len(frames') <= 2 * Len(handlers)
    PROVE  aborted \/ aborted' \/ ReturnsInv'
<1>. SUFFICES ASSUME ~aborted, ~aborted', handlers # NoRoute
              PROVE  index' < Len(handlers) \/ index' + Len(frames') <= 2 * Len(handlers)
  BY DEF ReturnsInv
<1>1. index \in Int /\ Len(handlers) \in Nat
  BY Unaborted
<1>2. Len(frames') \in Nat
  BY LenProperties DEF IInv, TypeOK
<1>. QED BY <1>1, <1>2

(* At first there is one return to come and the index is 0.                *)
LEMMA InitReturns == ASSUME SafeUse, Init PROVE ReturnsInv
<1>1. index = 0 /\ Len(frames) = 0 /\ pc = "loop" /\ Len(handlers) \in Nat
  BY ChainFacts DEF Init
<1>. QED BY <1>1 DEF ReturnsInv

(* Every step preserves it: only calls of Next and returns move an index    *)
(* that has passed the chain, and each uses up what the stack allows.       *)
LEMMA StepReturns == ASSUME SafeUse, IInv, IInv', ReturnsInv, [Next]_vars PROVE ReturnsInv'
<1>. SUFFICES ASSUME ~aborted', handlers' # NoRoute PROVE ReturnsInv'
  BY DEF ReturnsInv
<1>1. CASE UNCHANGED vars
  BY <1>1 DEF ReturnsInv, Top, vars
<1>. DEFINE n == Len(frames)
<1>. DEFINE L == Len(handlers)
<1>2. (~aborted /\ handlers # NoRoute) \/ UNCHANGED vars
  BY DEF Next, Step, CallNext, LoopCall, LoopNil, Return, Abort, StaticMiss, StaticServe, LoopExit,
         Panic, LoopBadIndex, Unwind, Terminated
<1>3. CASE CallNext /\ ~aborted /\ handlers # NoRoute
  <2>1. Len(frames') = n
    BY <1>3, CallNextDepth
  <2>2. n <= L /\ n \in Nat /\ L \in Nat /\ index \in Int /\ Top.nexts = 0 /\ MaxNextCalls = 1
    BY <1>3, Unaborted, StackFacts DEF CallNext
  <2>3. index >= L => index + n + 1 <= 2 * L
    BY <1>3, <2>2 DEF ReturnsInv, CallNext
  <2>4. index' = index + 1 /\ pc' = "loop" /\ handlers' = handlers
    BY <1>3, NoWrap DEF CallNext
  <2>. QED BY <1>3, <2>1, <2>2, <2>3, <2>4, LoopReturns
<1>4. CASE LoopCall
  <2>1. index' = index /\ handlers' = handlers /\ index < Len(handlers)
    BY <1>4, StackFacts DEF LoopCall
  <2>. QED BY <2>1 DEF ReturnsInv
<1>5. CASE LoopNil /\ ~aborted /\ handlers # NoRoute
  <2>1. index' = index + 1 /\ pc' = "loop" /\ handlers' = handlers /\ frames' = frames /\ index < L
    BY <1>5, NoWrap, StackFacts DEF LoopNil
  <2>2. n <= L /\ n \in Nat /\ L \in Nat /\ index \in Int
    BY <1>5, Unaborted
  <2>. QED BY <1>5, <2>1, <2>2, LoopReturns
<1>6. CASE Return /\ ~aborted /\ handlers # NoRoute
  <2>1. index' = index + 1 /\ pc' = "loop" /\ pc = "body" /\ handlers' = handlers
    BY <1>6, NoWrap DEF Return
  <2>2. n <= L /\ n \in Nat /\ n >= 1 /\ L \in Nat /\ index \in Int /\ Top.nexts \in 0..1
        /\ MaxNextCalls = 1
    BY <1>6, <2>1, Unaborted, StackFacts
  <2>3. Len(frames') = n - 1
    <3>1. n - 1 \in 0..n /\ frames \in Seq(Frame)
      BY <2>2, StackFacts
    <3>. QED BY <1>6, <3>1, CutStack DEF Return
  <2>4. index >= L => index + n <= 2 * L
    BY <1>6, <2>1, <2>2 DEF ReturnsInv
  <2>. QED BY <1>6, <2>1, <2>2, <2>3, <2>4, LoopReturns
<1>7. CASE LoopExit(0) /\ ~aborted /\ handlers # NoRoute
  <2>1. /\ pc = "loop" /\ pc' \in {"done", "body"} /\ index \in Int /\ index >= L /\ L \in Nat /\ n \in Nat
        /\ UNCHANGED <<index, handlers, frames>> /\ MaxNextCalls = 1
        /\ pc' = "body" => n \in 1..n
    BY <1>7, StackFacts DEF LoopExit
  <2>2. index + n <= 2 * L
    BY <1>7, <2>1 DEF ReturnsInv
  <2>3. pc' = "body" => Top'.nexts = MaxNextCalls
    BY <2>1 DEF IInv, CallersWait, Top
  <2>. QED BY <2>1, <2>2, <2>3 DEF ReturnsInv
<1>8. CASE StaticServe /\ ~aborted /\ handlers # NoRoute
  <2>1. /\ n \in 1..n /\ Top \in Frame /\ Top.nexts = 0 /\ frames # <<>> /\ frames \in Seq(Frame)
        /\ MaxNextCalls = 1 /\ pc = "body" /\ UNCHANGED <<index, handlers, pc>>
        /\ frames' = [frames EXCEPT ![n] = Spent(Top)]
    BY <1>8, StackFacts, FrameFacts DEF StaticServe, Top
  <2>2. Spent(Top) \in Frame /\ Spent(Top).nexts = MaxNextCalls
    BY <2>1 DEF Spent, Frame
  <2>3. Len(frames') = n /\ Top'.nexts = MaxNextCalls
    BY <2>1, <2>2, SetTop DEF Top
  <2>4. index \in Int /\ L \in Nat
    BY StackFacts
  <2>. QED BY <1>8, <2>1, <2>3, <2>4 DEF ReturnsInv
<1>9. CASE (Panic \/ LoopBadIndex) /\ ~aborted /\ handlers # NoRoute
  <2>1. index \in Int /\ L \in Nat /\ n \in Nat /\ MaxNextCalls = 1 /\ frames \in Seq(Frame)
        /\ (pc = "loop" => index >= 0) /\ (pc = "body" => Top.nexts \in 0..1)
    BY <1>9, StackFacts, Unaborted DEF IInv, IndexFits
  <2>2. Panic
    <3>1. ~BadIndex
      BY <2>1 DEF BadIndex
    <3>. QED BY <1>9, <3>1, Zenon DEF LoopBadIndex
  <2>3. pc = "body"
    BY <2>2 DEF Panic, CanPanic
  <2>4. index < L \/ index + n <= 2 * L
    BY <1>9, <2>1, <2>3 DEF ReturnsInv
  <2>5. PICK broken \in BOOLEAN : Unwind(broken)
    BY <2>2 DEF Panic
  <2>6. CASE pc' = "crashed" /\ frames' = <<>> /\ UNCHANGED <<index, handlers>>
    <3>1. Len(frames') = 0
      BY <2>6
    <3>. QED BY <2>1, <2>4, <2>6, <3>1 DEF ReturnsInv
  <2>7. ASSUME NEW k \in Recoverers,
               frames' = SubSeq(frames, 1, k), pc' = "body", UNCHANGED handlers,
               index' = (IF frames[k].kind = "recovery" \/ broken THEN AbortIndex ELSE index),
               aborted' = (aborted \/ frames[k].kind = "recovery" \/ broken)
        PROVE  ReturnsInv'
    <3>1. index' = index
      BY <2>7
    <3>2. k \in 1..n /\ k \in 0..n /\ k # n
      BY <2>2, <2>1, <2>7 DEF Recoverers, Panic, CanPanic, Top
    <3>3. Len(frames') = k /\ frames'[k] = frames[k]
      BY <2>1, <2>7, <3>2, CutStack
    <3>4. Top'.nexts = MaxNextCalls
      BY <2>1, <3>2, <3>3 DEF IInv, CallersWait, Top
    <3>. QED BY <2>1, <2>4, <2>7, <3>1, <3>2, <3>3, <3>4 DEF ReturnsInv
  <2>. QED BY <2>5, <2>6, <2>7 DEF Unwind
<1>10. CASE Abort \/ StaticMiss
  BY <1>10 DEF Abort, StaticMiss
<1>. QED BY <1>1, <1>2, <1>3, <1>4, <1>5, <1>6, <1>7, <1>8, <1>9, <1>10 DEF Next, Step, Terminated

(* IsAborted (context.go:197-200) compares c.index with abortIndex, which   *)
(* handlers that return through nested calls of Next raise too: in a chain  *)
(* of at most half of abortIndex that never makes it true without Abort.    *)
THEOREM AbortVisible == ASSUME SafeUse PROVE Spec => []IsAbortedTruthful
<1>1. ASSUME IInv, ReturnsInv PROVE IsAbortedTruthful
  <2>. SUFFICES ASSUME pc = "body", handlers # NoRoute, 2 * Len(handlers) <= AbortIndex
                PROVE  IsAborted <=> aborted
    BY DEF IsAbortedTruthful
  <2>1. aborted => IsAborted
    BY <1>1 DEF IInv, AbortInv, IsAborted
  <2>2. ASSUME ~aborted PROVE ~IsAborted
    <3>1. /\ index \in Int /\ Len(handlers) \in Nat /\ Len(handlers) < AbortIndex /\ AbortIndex \in Nat
          /\ Len(frames) \in Nat /\ Len(frames) >= 1 /\ Top.nexts \in 0..1 /\ MaxNextCalls = 1
      BY <1>1, <2>2, Unaborted, StackFacts
    <3>2. index < Len(handlers) \/ index + Len(frames) + (MaxNextCalls - Top.nexts) <= 2 * Len(handlers)
      BY <1>1, <2>2 DEF ReturnsInv
    <3>. QED BY <3>1, <3>2 DEF IsAborted
  <2>. QED BY <2>1, <2>2
<1>2. Init => ReturnsInv
  BY InitReturns
<1>3. IInv /\ IInv' /\ ReturnsInv /\ [Next]_vars => ReturnsInv'
  BY StepReturns
<1>. QED BY <1>1, <1>2, <1>3, InductiveInvariant, PTL DEF Spec

-----------------------------------------------------------------------------
(* The refinement of Pipeline, in which there is no index. *)

(* What is left to call depends on these only.                              *)
LEMMA TodoKept ==
    ASSUME UNCHANGED <<handlers, aborted>>, Cursor' = Cursor, pc # "crashed", pc' # "crashed"
    PROVE  Todo' = Todo
BY DEF Todo, Remaining

(* A call of Next moves the index to the first handler that is to do.      *)
LEMMA CallNextKeeps ==
    ASSUME SafeUse, IInv, IInv', CallNext
    PROVE  UNCHANGED <<handlers, Todo, Active, Phase>>
<1>1. index' = index + 1
  BY NoWrap DEF CallNext
<1>2. Cursor' = Cursor
  BY <1>1 DEF CallNext, Cursor
<1>3. Active' = Active
  BY CallNextDepth DEF Active
<1>4. Phase' = Phase /\ Todo' = Todo
  BY <1>2, TodoKept DEF CallNext, Phase
<1>. QED BY <1>3, <1>4 DEF CallNext

(* A round of the loop calls the first handler that is to do.              *)
LEMMA LoopCallCalls ==
    ASSUME SafeUse, IInv, LoopCall
    PROVE  Pipe!Call
<1>1. /\ index \in 0 .. Len(handlers) - 1 /\ handlers[index + 1] # "nil"
      /\ Len(handlers) \in Nat /\ Len(handlers) < AbortIndex /\ AbortIndex \in Nat /\ index \in Nat
  BY StackFacts DEF LoopCall
<1>2. ~aborted
  BY <1>1 DEF IInv, AbortInv
<1>3. Cursor = index /\ Cursor' = index + 1 /\ UNCHANGED <<handlers, aborted>>
  BY DEF LoopCall, Cursor
<1>4. Todo = {i \in 0 .. Len(handlers) - 1 : i >= index /\ handlers[i + 1] # "nil"}
  BY <1>2, <1>3 DEF Todo, Remaining, LoopCall
<1>5. Todo' = {i \in 0 .. Len(handlers) - 1 : i >= index + 1 /\ handlers[i + 1] # "nil"}
  BY <1>2, <1>3 DEF Todo, Remaining, LoopCall
<1>6. index \in Todo /\ (\A q \in Todo : index <= q) /\ Todo' = Todo \ {index}
  BY <1>1, <1>4, <1>5
<1>7. Active' = Active + 1
  BY StackFacts, AppendProperties, <1>1 DEF Active, LoopCall
<1>8. Phase = "running" /\ Phase' = "running"
  BY DEF Phase, LoopCall
<1>. QED BY <1>3, <1>6, <1>7, <1>8 DEF Pipe!Call

(* A nil handler was none of those to do.                                  *)
LEMMA LoopNilKeeps ==
    ASSUME SafeUse, IInv, IInv', LoopNil
    PROVE  UNCHANGED <<handlers, Todo, Active, Phase>>
<1>1. index' = index + 1 /\ index \in 0 .. Len(handlers) - 1 /\ handlers[index + 1] = "nil"
      /\ Len(handlers) \in Nat
  BY NoWrap, StackFacts DEF LoopNil
<1>2. Cursor = index /\ Cursor' = index + 1
  BY <1>1 DEF Cursor, LoopNil
<1>3. Remaining' = Remaining
  <2>1. Remaining' = {i \in 0 .. Len(handlers) - 1 : i >= index + 1 /\ handlers[i + 1] # "nil"}
    BY <1>2 DEF Remaining, LoopNil
  <2>2. Remaining = {i \in 0 .. Len(handlers) - 1 : i >= index /\ handlers[i + 1] # "nil"}
    BY <1>2 DEF Remaining
  <2>. QED BY <1>1, <2>1, <2>2
<1>. QED BY <1>3 DEF LoopNil, Todo, Active, Phase

(* The loop that ends for the dispatcher finishes the request.              *)
LEMMA LoopExitFinishes ==
    ASSUME SafeUse, IInv, LoopExit(0)
    PROVE  Pipe!Finish \/ UNCHANGED <<handlers, Todo, Active, Phase>>
<1>1. index \in Int /\ Len(handlers) \in Nat /\ index >= Len(handlers) /\ pc = "loop"
      /\ UNCHANGED <<index, handlers, frames, ran, aborted>>
      /\ pc' = IF Len(frames) = 0 THEN "done" ELSE "body"
  BY StackFacts DEF LoopExit
<1>2. Remaining = {} /\ Remaining' = {}
  BY <1>1 DEF Remaining, Cursor
<1>3. Todo = {} /\ Todo' = {} /\ Active' = Active
  BY <1>1, <1>2 DEF Todo, Active
<1>4. CASE Len(frames) = 0
  BY <1>1, <1>3, <1>4 DEF Active, Phase, Pipe!Finish
<1>5. CASE Len(frames) # 0
  BY <1>1, <1>3, <1>5 DEF Phase
<1>. QED BY <1>4, <1>5

(* The return of a handler leaves one less that is active.                 *)
LEMMA ReturnEnds ==
    ASSUME SafeUse, IInv, IInv', Return
    PROVE  Pipe!End
<1>1. index' = index + 1 /\ Len(frames) \in Nat /\ Len(frames) >= 1 /\ frames \in Seq(Frame)
  BY NoWrap, StackFacts DEF Return
<1>2. Cursor' = Cursor
  BY <1>1 DEF Cursor, Return
<1>3. Active' = Active - 1 /\ Active \in Nat /\ Active >= 1
  <2>1. Len(frames) - 1 \in 0 .. Len(frames)
    BY <1>1
  <2>2. Len(frames') = Len(frames) - 1
    BY <1>1, <2>1, CutStack DEF Return
  <2>. QED BY <1>1, <2>2 DEF Active
<1>4. Todo' = Todo /\ Phase = "running" /\ UNCHANGED <<handlers, Phase>>
  BY <1>2, TodoKept DEF Phase, Return
<1>. QED BY <1>3, <1>4 DEF Pipe!End

(* Abort drops what was to do, and the handler goes on.                    *)
LEMMA AbortEnds ==
    ASSUME SafeUse, IInv, Abort
    PROVE  Pipe!End
<1>1. Active \in Nat /\ Active >= 1 /\ Active' = Active
  BY StackFacts DEF Active, Abort
<1>2. Todo' = {} /\ Phase = "running" /\ UNCHANGED <<handlers, Phase>>
  BY DEF Todo, Phase, Abort
<1>. QED BY <1>1, <1>2 DEF Pipe!End

(* A missing file exchanges what was to do for the 404 handlers.           *)
LEMMA StaticMissDiverts ==
    ASSUME SafeUse, IInv, StaticMiss
    PROVE  Pipe!Divert
<1>1. /\ handlers' = NoRoute /\ index' = -1 /\ pc = "body" /\ pc' = "body" /\ ~aborted /\ ~aborted'
  BY DEF StaticMiss, IInv, AbortInv
<1>2. Todo' = Pipe!Positions(NoRoute)
  <2>1. Cursor' = 0
    BY <1>1 DEF Cursor
  <2>. QED BY <1>1, <2>1, ChainFacts DEF Todo, Remaining, Pipe!Positions
<1>3. Active' = Active /\ Active > 0
  <2>1. frames \in Seq(Frame) /\ Spent(Top) \in Frame /\ frames # <<>> /\ Len(frames) > 0
    <3>1. Top \in Frame /\ frames \in Seq(Frame) /\ frames # <<>> /\ Len(frames) > 0
      BY <1>1, StackFacts DEF Top
    <3>. QED BY <3>1, StackFacts DEF Spent, Frame
  <2>. QED BY <2>1, SetTop DEF StaticMiss, Active
<1>4. Phase = "running" /\ Phase' = Phase
  BY <1>1 DEF Phase
<1>. QED BY <1>1, <1>2, <1>3, <1>4 DEF Pipe!Divert

(* A file that is there leaves the chain as it is.                         *)
LEMMA StaticServeKeeps ==
    ASSUME SafeUse, IInv, StaticServe
    PROVE  UNCHANGED <<handlers, Todo, Active, Phase>>
<1>1. Active' = Active
  <2>1. frames \in Seq(Frame) /\ Spent(Top) \in Frame /\ frames # <<>>
    <3>1. Top \in Frame /\ frames \in Seq(Frame) /\ frames # <<>>
      BY StackFacts DEF Top, StaticServe
    <3>. QED BY <3>1, StackFacts DEF Spent, Frame
  <2>. QED BY <2>1, SetTop DEF StaticServe, Active
<1>2. Cursor' = Cursor /\ Phase' = Phase
  BY DEF StaticServe, Cursor, Phase
<1>. QED BY <1>1, <1>2, TodoKept DEF StaticServe

(* A panic ends the handlers above Recovery, or all of them.                *)
LEMMA PanicEnds ==
    ASSUME SafeUse, IInv, Panic
    PROVE  Pipe!End \/ Pipe!Crash
<1>. PICK broken \in BOOLEAN : Unwind(broken)
  BY DEF Panic
<1>1. pc = "body" /\ Phase = "running" /\ Active \in Nat /\ Active >= 1 /\ frames \in Seq(Frame)
  BY StackFacts DEF Panic, CanPanic, Phase, Active
<1>2. CASE pc' = "crashed" /\ frames' = <<>> /\ UNCHANGED handlers
  BY <1>1, <1>2 DEF Active, Phase, Todo, Pipe!Crash
<1>3. ASSUME NEW k \in Recoverers,
             frames' = SubSeq(frames, 1, k), pc' = "body", UNCHANGED handlers,
             index' = (IF frames[k].kind = "recovery" \/ broken THEN AbortIndex ELSE index),
             aborted' = (aborted \/ frames[k].kind = "recovery" \/ broken)
      PROVE  Pipe!End
  <2>1. Active' = k /\ k \in 1 .. Active
    BY <1>1, <1>3, CutStack DEF Recoverers, Active
  <2>2. Phase' = "running"
    BY <1>3 DEF Phase
  <2>3. Todo' \in {Todo, {}}
    <3>1. CASE frames[k].kind = "recovery" \/ broken
      BY <1>3, <3>1 DEF Todo
    <3>2. CASE ~(frames[k].kind = "recovery" \/ broken)
      <4>1. index' = index /\ aborted' = aborted
        BY <1>3, <3>2 DEF IInv, TypeOK
      <4>2. Cursor' = Cursor
        BY <1>1, <1>3, <4>1 DEF Cursor
      <4>. QED BY <1>1, <1>3, <4>1, <4>2, TodoKept
    <3>. QED BY <3>1, <3>2
  <2>. QED BY <1>1, <1>3, <2>1, <2>2, <2>3 DEF Pipe!End
<1>. QED BY <1>2, <1>3 DEF Unwind

(* One step of the code is one step of the pipeline, or none.               *)
LEMMA PipelineStep ==
    ASSUME SafeUse, IInv, [Next]_vars
    PROVE  [Pipe!Next]_(Pipe!vars)
<1>0. IInv'
  BY StepInv
<1>1. CASE CallNext
  BY <1>0, <1>1, CallNextKeeps DEF Pipe!vars
<1>2. CASE LoopCall
  BY <1>2, LoopCallCalls DEF Pipe!Next
<1>3. CASE LoopNil
  BY <1>0, <1>3, LoopNilKeeps DEF Pipe!vars
<1>4. CASE LoopExit(0)
  BY <1>4, LoopExitFinishes DEF Pipe!Next, Pipe!vars
<1>5. CASE Return
  BY <1>0, <1>5, ReturnEnds DEF Pipe!Next
<1>6. CASE Abort
  BY <1>6, AbortEnds DEF Pipe!Next
<1>7. CASE StaticMiss
  BY <1>7, StaticMissDiverts DEF Pipe!Next
<1>8. CASE StaticServe
  BY <1>8, StaticServeKeeps DEF Pipe!vars
<1>9. CASE Panic
  BY <1>9, PanicEnds DEF Pipe!Next
<1>10. CASE LoopBadIndex
  <2>1. index \in Int /\ index >= 0 /\ index < 0
    BY <1>10, StackFacts DEF LoopBadIndex, BadIndex, IInv, IndexFits
  <2>. QED BY <2>1
<1>11. CASE UNCHANGED vars
  BY <1>11 DEF vars, Pipe!vars, Todo, Active, Phase, Remaining, Cursor
<1>. QED BY <1>1, <1>2, <1>3, <1>4, <1>5, <1>6, <1>7, <1>8, <1>9, <1>10, <1>11 DEF Next, Step, Terminated

(* The index arithmetic of Next, Abort, Recovery and the file handler       *)
(* (context.go:187-208, recovery.go:58-91, routergroup.go:228-246) amounts  *)
(* to a list of handlers that is called in order, dropped or exchanged.     *)
THEOREM ImplementsPipeline == ASSUME SafeUse PROVE Spec => PipelineSpec
<1>1. Init => Pipe!Init
  <2>. SUFFICES ASSUME Init PROVE Pipe!Init
    OBVIOUS
  <2>1. Todo = Pipe!Positions(handlers)
    <3>1. Cursor = 0 /\ Len(handlers) \in Nat
      BY ChainFacts DEF Init, Cursor
    <3>. QED BY <3>1 DEF Init, Todo, Remaining, Pipe!Positions
  <2>2. Active = 0 /\ Phase = "running"
    BY DEF Init, Active, Phase
  <2>. QED BY <2>1, <2>2 DEF Init, Pipe!Init
<1>2. IInv /\ [Next]_vars => [Pipe!Next]_(Pipe!vars)
  BY PipelineStep
<1>. QED BY <1>1, <1>2, InductiveInvariant, PTL DEF Spec, PipelineSpec, Pipe!Spec
=============================================================================
