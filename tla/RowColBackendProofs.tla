------------------------- MODULE RowColBackendProofs -------------------------
(***************************************************************************)
(* Proofs about RowColSlots and RowColBackend, for every dimension N,      *)
(* every ciphertext of at least 2N slots, any number of threads and any    *)
(* operands: SumOR leaks nothing through the padding and ends with the     *)
(* Boolean dot product in every slot of the window, for which the          *)
(* constructor made all the keys; the three implementations of matmul      *)
(* return the Boolean product by rows and by columns; and the one on slots *)
(* implements the one on windows.                                          *)
(***************************************************************************)
EXTENDS RowColBackend, TLAPS, FiniteSetTheorems, WellFoundedInduction

IInv == TypeOK /\ PartialOR /\ Replicated

\* The window rotated left by s places, with the wrap that RotateModN builds.
Wrap(k) == IF k < N THEN k ELSE k - N

\* The sum of two indices that are within one turn is a physical slot.
LEMMA TurnType ==
  ASSUME NEW i \in Physical, NEW k \in Int, -R <= k, k <= R
  PROVE  Turn(i + k) \in Physical
BY PaddingAssumption, WindowAssumption DEF Turn, Physical

\* EvalBooleanOR on two bits is their OR.
LEMMA OrOfBits ==
  ASSUME NEW a \in Bits, NEW b \in Bits
  PROVE  /\ (a + b) - a * b \in Bits
         /\ (a + b) - a * b = 1 <=> a = 1 \/ b = 1
<1>1. a \in {0, 1} /\ b \in {0, 1}
  BY DEF Bits
<1>2. CASE a = 0
  BY <1>1, <1>2 DEF Bits
<1>3. CASE a = 1
  BY <1>1, <1>3 DEF Bits
<1> QED
  BY <1>1, <1>2, <1>3

\* EvalBooleanOR works slot by slot.
LEMMA OrIsSlotwise ==
  ASSUME NEW a, NEW b
  PROVE  \A i \in Physical : EvalBooleanOR(a, b)[i] = (a[i] + b[i]) - a[i] * b[i]
<1> TAKE i \in Physical
<1>1. EvalAdd(a, b)[i] = a[i] + b[i]
  BY DEF EvalAdd
<1>2. EvalMult(a, b)[i] = a[i] * b[i]
  BY DEF EvalMult
<1>3. EvalBooleanOR(a, b)[i] = EvalAdd(a, b)[i] - EvalMult(a, b)[i]
  BY DEF EvalBooleanOR, EvalSub
<1> QED
  BY <1>1, <1>2, <1>3

\* RotateModN, which is made of two rotations of all the slots and a mask,
\* turns the window and leaves the padding zero.
LEMMA RotateTurnsWindow ==
  ASSUME NEW v \in Packed, NEW s \in 1 .. N - 1
  PROVE  /\ \A i \in Window : RotateModN(v, s)[i] = v[Wrap(i + s)]
         /\ \A i \in Physical \ Window : RotateModN(v, s)[i] = 0
<1> USE WindowAssumption, PaddingAssumption
<1>1. /\ v \in [Physical -> Bits]
      /\ \A i \in Physical \ Window : v[i] = 0
  BY DEF Packed
<1>2. \A i \in Physical : /\ Turn(i + s) \in Physical
                          /\ Turn(i + (s - N)) \in Physical
  <2> TAKE i \in Physical
  <2>1. s \in Int /\ -R <= s /\ s <= R /\ s - N \in Int /\ -R <= s - N /\ s - N <= R
    OBVIOUS
  <2> QED
    BY <2>1, TurnType
<1>3. \A i \in Physical :
        RotateModN(v, s)[i]
          = (v[Turn(i + s)] + v[Turn(i + (s - N))]) * valid_region_mask[i]
  BY DEF RotateModN, EvalMult, EvalAdd, EvalRotate
<1>4. ASSUME NEW i \in Window
      PROVE  RotateModN(v, s)[i] = v[Wrap(i + s)]
  <2>1. i \in Physical /\ valid_region_mask[i] = 1
    BY DEF Physical, Window, valid_region_mask
  <2>2. CASE i + s < N
    <3>1. Turn(i + s) = i + s /\ i + s \in Physical /\ Wrap(i + s) = i + s
      BY <2>2 DEF Turn, Wrap, Physical, Window
    <3>2. Turn(i + (s - N)) = i + s - N + R /\ Turn(i + (s - N)) \in Physical \ Window
      BY <2>2 DEF Turn, Physical, Window
    <3>3. v[Turn(i + (s - N))] = 0 /\ v[i + s] \in Bits
      BY <1>1, <3>1, <3>2
    <3> QED
      BY <1>3, <2>1, <3>1, <3>3 DEF Bits
  <2>3. CASE i + s >= N
    <3>1. Turn(i + s) = i + s /\ Turn(i + s) \in Physical \ Window
      BY <2>3 DEF Turn, Physical, Window
    <3>2. /\ Turn(i + (s - N)) = i + s - N
          /\ i + s - N \in Physical
          /\ Wrap(i + s) = i + s - N
      BY <2>3 DEF Turn, Wrap, Physical, Window
    <3>3. v[Turn(i + s)] = 0 /\ v[i + s - N] \in Bits
      BY <1>1, <3>1, <3>2
    <3> QED
      BY <1>3, <2>1, <3>2, <3>3 DEF Bits
  <2> QED
    BY <2>2, <2>3 DEF Window
<1>5. ASSUME NEW i \in Physical \ Window
      PROVE  RotateModN(v, s)[i] = 0
  <2>1. valid_region_mask[i] = 0
    BY DEF valid_region_mask
  <2>2. v[Turn(i + s)] \in Bits /\ v[Turn(i + (s - N))] \in Bits
    BY <1>1, <1>2
  <2> QED
    BY <1>3, <2>1, <2>2 DEF Bits
<1> QED
  BY <1>4, <1>5

\* Going s places and then d places round the window is going s + d places.
LEMMA AheadAdds ==
  ASSUME NEW i \in Window, NEW s \in 1 .. N - 1, NEW d \in 0 .. s - 1
  PROVE  /\ Ahead(Wrap(i + s), d) = Ahead(i, s + d)
         /\ Wrap(i + s) \in Window
BY WindowAssumption DEF Ahead, Wrap, Window

\* Every slot of the window is fewer than N places ahead of every other, and
\* one never leaves the window in two turns.
LEMMA AheadCovers ==
  ASSUME NEW i \in Window
  PROVE  /\ \A d \in 0 .. 2 * N - 1 : Ahead(i, d) \in Window
         /\ \A k \in Window : \E d \in 0 .. N - 1 : Ahead(i, d) = k
<1> USE WindowAssumption
<1>1. \A d \in 0 .. 2 * N - 1 : Ahead(i, d) \in Window
  BY DEF Ahead, Window
<1>2. ASSUME NEW k \in Window
      PROVE  \E d \in 0 .. N - 1 : Ahead(i, d) = k
  <2>1. CASE k >= i
    <3>1. k - i \in 0 .. N - 1 /\ Ahead(i, k - i) = k
      BY <2>1 DEF Ahead, Window
    <3> QED
      BY <3>1
  <2>2. CASE k < i
    <3>1. k - i + N \in 0 .. N - 1 /\ Ahead(i, k - i + N) = k
      BY <2>2 DEF Ahead, Window
    <3> QED
      BY <3>1
  <2> QED
    BY <2>1, <2>2 DEF Window
<1> QED
  BY <1>1, <1>2

\* The product of the operands is a packed vector of the single products.
LEMMA ProductsArePacked ==
  ASSUME row \in Packed, col \in Packed
  PROVE  /\ EvalMult(row, col) \in Packed
         /\ \A i \in Physical : EvalMult(row, col)[i] = 1 <=> row[i] = 1 /\ col[i] = 1
<1>1. \A i \in Physical : /\ row[i] \in {0, 1}
                          /\ col[i] \in {0, 1}
                          /\ i \notin Window => row[i] = 0
  BY DEF Packed, Bits
<1>2. \A i \in Physical : EvalMult(row, col)[i] = row[i] * col[i]
  BY DEF EvalMult
<1>3. \A i \in Physical : /\ EvalMult(row, col)[i] \in {0, 1}
                          /\ EvalMult(row, col)[i] = 1 <=> row[i] = 1 /\ col[i] = 1
                          /\ i \notin Window => EvalMult(row, col)[i] = 0
  <2> TAKE i \in Physical
  <2>1. CASE row[i] = 0
    BY <1>1, <1>2, <2>1
  <2>2. CASE row[i] = 1
    BY <1>1, <1>2, <2>2
  <2> QED
    BY <1>1, <2>1, <2>2
<1>4. EvalMult(row, col) \in [Physical -> Bits]
  BY <1>3 DEF EvalMult, Bits
<1> QED
  BY <1>3, <1>4 DEF Packed

\* One round of SumOR doubles the span of the partial ORs and keeps the
\* padding clean.
LEMMA SumORDoubles ==
  ASSUME TypeOK, PartialOR, SumORStep
  PROVE  /\ ct' \in Packed
         /\ \A i \in Window :
              ct'[i] = 1 <=> \E d \in 0 .. shift' - 1 : row[Ahead(i, d)] = 1 /\ col[Ahead(i, d)] = 1
<1> DEFINE Hit(k)    == row[k] = 1 /\ col[k] = 1
           Span(i, s) == \E d \in 0 .. s - 1 : Hit(Ahead(i, d))
<1> USE WindowAssumption, PaddingAssumption
<1>1. /\ pc = "sumor" /\ shift < N /\ shift' = shift * 2
      /\ ct' = EvalBooleanOR(ct, RotateModN(ct, shift))
  BY DEF SumORStep
<1>2. shift \in 1 .. N - 1
  BY <1>1 DEF TypeOK
<1>3. /\ ct \in Packed
      /\ \A i \in Window : ct[i] = 1 <=> Span(i, shift)
  BY <1>1 DEF PartialOR
<1>4. PICK rotated : rotated = RotateModN(ct, shift)
  OBVIOUS
<1>5. /\ \A i \in Window : rotated[i] = ct[Wrap(i + shift)]
      /\ \A i \in Physical \ Window : rotated[i] = 0
  BY <1>2, <1>3, <1>4, RotateTurnsWindow
<1>6. \A i \in Window : Wrap(i + shift) \in Window
  BY <1>2 DEF Wrap, Window
<1>7. \A i \in Physical : ct[i] \in Bits /\ (i \notin Window => ct[i] = 0)
  BY <1>3 DEF Packed
<1>8. Window \subseteq Physical
  BY DEF Window, Physical
<1>9. \A i \in Physical : rotated[i] \in Bits
  BY <1>5, <1>6, <1>7, <1>8 DEF Bits
<1>10. \A i \in Physical : ct'[i] = (ct[i] + rotated[i]) - ct[i] * rotated[i]
  <2>1. ct' = EvalBooleanOR(ct, rotated)
    BY <1>1, <1>4
  <2>2. \A i \in Physical : EvalBooleanOR(ct, rotated)[i] = (ct[i] + rotated[i]) - ct[i] * rotated[i]
    BY OrIsSlotwise
  <2> QED
    BY <2>1, <2>2
<1>11. \A i \in Physical : /\ ct'[i] \in Bits
                           /\ ct'[i] = 1 <=> ct[i] = 1 \/ rotated[i] = 1
  BY <1>7, <1>9, <1>10, OrOfBits
<1>12. ct' \in Packed
  <2>1. \E f : ct' = [i \in Physical |-> f[i]]
    <3>1. ct' = [i \in Physical |-> EvalAdd(ct, rotated)[i] - EvalMult(ct, rotated)[i]]
      BY <1>1, <1>4 DEF EvalBooleanOR, EvalSub
    <3>2. ct' = [i \in Physical |-> ct'[i]]
      BY <3>1
    <3> QED
      BY <3>2
  <2>2. ct' \in [Physical -> Bits]
    BY <1>11, <2>1
  <2>3. \A i \in Physical \ Window : ct'[i] = 0
    BY <1>5, <1>7, <1>11 DEF Bits
  <2> QED
    BY <2>2, <2>3 DEF Packed
<1>13. ASSUME NEW i \in Window
       PROVE  ct'[i] = 1 <=> Span(i, shift * 2)
  <2>1. ct'[i] = 1 <=> Span(i, shift) \/ Span(Wrap(i + shift), shift)
    BY <1>3, <1>5, <1>6, <1>8, <1>11
  <2>2. \A d \in 0 .. shift - 1 : Ahead(Wrap(i + shift), d) = Ahead(i, shift + d)
    BY <1>2, AheadAdds
  <2>3. Span(Wrap(i + shift), shift) <=> \E d \in 0 .. shift - 1 : Hit(Ahead(i, shift + d))
    BY <2>2
  <2>4. (\E d \in 0 .. shift - 1 : Hit(Ahead(i, shift + d)))
          <=> \E e \in shift .. shift * 2 - 1 : Hit(Ahead(i, e))
    <3>1. ASSUME NEW d \in 0 .. shift - 1, Hit(Ahead(i, shift + d))
          PROVE  \E e \in shift .. shift * 2 - 1 : Hit(Ahead(i, e))
      <4>1. shift + d \in shift .. shift * 2 - 1
        BY <1>2
      <4> QED
        BY <3>1, <4>1
    <3>2. ASSUME NEW e \in shift .. shift * 2 - 1, Hit(Ahead(i, e))
          PROVE  \E d \in 0 .. shift - 1 : Hit(Ahead(i, shift + d))
      <4>1. e - shift \in 0 .. shift - 1 /\ shift + (e - shift) = e
        BY <1>2
      <4> QED
        BY <3>2, <4>1
    <3> QED
      BY <3>1, <3>2
  <2>5. \A d : d \in 0 .. shift * 2 - 1 <=> d \in 0 .. shift - 1 \/ d \in shift .. shift * 2 - 1
    BY <1>2
  <2> QED
    BY <2>1, <2>3, <2>4, <2>5
<1> QED
  BY <1>1, <1>12, <1>13

\* When the span covers the window every slot has the OR of all products.
LEMMA SpanIsDotProduct ==
  ASSUME TypeOK, PartialOR, pc = "sumor", shift >= N
  PROVE  ct = [i \in Physical |-> IF i \in Window THEN DotProduct ELSE 0]
<1> USE WindowAssumption
<1>1. shift \in 1 .. 2 * N
  BY DEF TypeOK
<1>2. /\ ct \in [Physical -> Bits]
      /\ \A i \in Physical \ Window : ct[i] = 0
      /\ \A i \in Window :
           ct[i] = 1 <=> \E d \in 0 .. shift - 1 : row[Ahead(i, d)] = 1 /\ col[Ahead(i, d)] = 1
  BY DEF PartialOR, Packed
<1>3. ASSUME NEW i \in Window
      PROVE  (\E d \in 0 .. shift - 1 : row[Ahead(i, d)] = 1 /\ col[Ahead(i, d)] = 1)
               <=> \E k \in Window : row[k] = 1 /\ col[k] = 1
  <2>1. \A d \in 0 .. shift - 1 : Ahead(i, d) \in Window
    <3>1. \A d \in 0 .. shift - 1 : d \in 0 .. 2 * N - 1
      BY <1>1
    <3> QED
      BY <3>1, AheadCovers
  <2>2. \A k \in Window : \E d \in 0 .. shift - 1 : Ahead(i, d) = k
    <3>1. \A d \in 0 .. N - 1 : d \in 0 .. shift - 1
      BY <1>1
    <3> QED
      BY <3>1, AheadCovers
  <2> QED
    BY <2>1, <2>2
<1>4. Window \subseteq Physical
  BY PaddingAssumption DEF Window, Physical
<1>5. \A i \in Physical : ct[i] = IF i \in Window THEN DotProduct ELSE 0
  BY <1>2, <1>3, <1>4 DEF DotProduct, Bits
<1> QED
  BY <1>2, <1>5

\* The initial states satisfy the invariant.
THEOREM InitIInv == Init => IInv
<1> SUFFICES ASSUME Init PROVE IInv
  OBVIOUS
<1> USE WindowAssumption
<1>1. Zero \in [Physical -> Bits]
  BY DEF Zero, Bits
<1>2. TypeOK
  BY <1>1 DEF Init, TypeOK
<1>3. PartialOR /\ Replicated
  BY DEF Init, PartialOR, Replicated
<1> QED
  BY <1>2, <1>3 DEF IInv

\* Every step preserves it.
THEOREM NextIInv == IInv /\ [Next]_vars => IInv'
<1> SUFFICES ASSUME IInv, [Next]_vars PROVE IInv'
  OBVIOUS
<1> USE WindowAssumption, PaddingAssumption
<1>0. TypeOK /\ PartialOR /\ Replicated
  BY DEF IInv
<1>1. CASE And
  <2>1. /\ pc' = "sumor" /\ shift' = 1 /\ ct' = EvalMult(row, col)
        /\ row' = row /\ col' = col /\ piece' = piece
    BY <1>1 DEF And
  <2>2. /\ ct' \in Packed
        /\ \A i \in Physical : ct'[i] = 1 <=> row[i] = 1 /\ col[i] = 1
    BY <1>0, <2>1, ProductsArePacked DEF TypeOK
  <2>3. TypeOK'
    BY <1>0, <2>1, <2>2 DEF TypeOK, Packed
  <2>4. PartialOR'
    <3>1. \A i \in Window : Ahead(i, 0) = i
      BY DEF Ahead, Window
    <3>2. \A i \in Window : i \in Physical
      BY DEF Window, Physical
    <3>3. \A i \in Window : (\E d \in 0 .. 0 : row[Ahead(i, d)] = 1 /\ col[Ahead(i, d)] = 1)
                               <=> row[i] = 1 /\ col[i] = 1
      BY <3>1
    <3>4. 0 .. shift' - 1 = 0 .. 0
      BY <2>1
    <3> QED
      BY <2>1, <2>2, <3>2, <3>3, <3>4 DEF PartialOR
  <2>5. Replicated'
    BY <2>1 DEF Replicated
  <2> QED
    BY <2>3, <2>4, <2>5 DEF IInv
<1>2. CASE SumORStep
  <2>1. /\ pc = "sumor" /\ pc' = pc /\ shift < N /\ shift' = shift * 2
        /\ row' = row /\ col' = col /\ piece' = piece
    BY <1>2 DEF SumORStep
  <2>2. /\ ct' \in Packed
        /\ \A i \in Window :
             ct'[i] = 1 <=> \E d \in 0 .. shift' - 1 : row[Ahead(i, d)] = 1 /\ col[Ahead(i, d)] = 1
    BY <1>0, <1>2, SumORDoubles
  <2>3. shift' \in 1 .. 2 * N
    BY <1>0, <2>1 DEF TypeOK
  <2>4. TypeOK'
    BY <1>0, <2>1, <2>2, <2>3 DEF TypeOK, Packed
  <2>5. PartialOR'
    BY <2>1, <2>2 DEF PartialOR
  <2>6. Replicated'
    BY <2>1 DEF Replicated
  <2> QED
    BY <2>4, <2>5, <2>6 DEF IInv
<1>3. CASE SumOREnd
  <2>1. /\ pc = "sumor" /\ pc' = "mask" /\ shift >= N
        /\ row' = row /\ col' = col /\ ct' = ct /\ shift' = shift /\ piece' = piece
    BY <1>3 DEF SumOREnd
  <2>2. ct = [i \in Physical |-> IF i \in Window THEN DotProduct ELSE 0]
    BY <1>0, <2>1, SpanIsDotProduct
  <2>3. TypeOK'
    BY <1>0, <2>1 DEF TypeOK
  <2>4. PartialOR'
    BY <2>1 DEF PartialOR
  <2>5. Replicated'
    BY <2>1, <2>2 DEF Replicated, DotProduct
  <2> QED
    BY <2>3, <2>4, <2>5 DEF IInv
<1>4. CASE Mask
  <2>1. /\ pc = "mask" /\ pc' = "done"
        /\ row' = row /\ col' = col /\ ct' = ct /\ shift' = shift
    BY <1>4 DEF Mask
  <2>2. PICK pos \in Window : piece' = MaskMult(ct, pos)
    BY <1>4 DEF Mask
  <2>3. ct = [i \in Physical |-> IF i \in Window THEN DotProduct ELSE 0]
    BY <1>0, <2>1 DEF Replicated
  <2>4. DotProduct \in Bits
    BY DEF DotProduct, Bits
  <2>5. piece' = [i \in Physical |-> IF i = pos THEN DotProduct ELSE 0]
    <3>1. piece' = [i \in Physical |-> ct[i] * one_hot_mask(pos)[i]]
      BY <2>2 DEF MaskMult, EvalMult
    <3>2. \A i \in Physical : ct[i] * one_hot_mask(pos)[i] = IF i = pos THEN DotProduct ELSE 0
      BY <2>3, <2>4 DEF one_hot_mask, Bits
    <3> QED
      BY <3>1, <3>2
  <2>6. TypeOK'
    BY <1>0, <2>1, <2>4, <2>5 DEF TypeOK, Bits
  <2>7. PartialOR'
    BY <2>1 DEF PartialOR
  <2>8. Replicated'
    BY <2>1, <2>3, <2>5 DEF Replicated, DotProduct
  <2> QED
    BY <2>6, <2>7, <2>8 DEF IInv
<1>5. CASE UNCHANGED vars
  BY <1>0, <1>5 DEF IInv, TypeOK, PartialOR, Replicated, DotProduct, vars
<1> QED
  BY <1>1, <1>2, <1>3, <1>4, <1>5 DEF Next

\* The conjunction of the invariants is an invariant of the specification.
THEOREM Invariance == Spec => []IInv
BY InitIInv, NextIInv, PTL DEF Spec

\* Every slot holds a bit at every step, so no OR ever wraps modulo the
\* plaintext modulus.
THEOREM TypeCorrect == Spec => []TypeOK
<1>1. IInv => TypeOK
  BY DEF IInv
<1> QED
  BY <1>1, Invariance, PTL

\* The rounds of SumOR never leak a slot through the padding.
THEOREM RoundsStayInWindow == Spec => []PartialOR
<1>1. IInv => PartialOR
  BY DEF IInv
<1> QED
  BY <1>1, Invariance, PTL

\* BooleanDotProduct and MaskMult put the Boolean dot product, replicated
\* over the window or alone in one slot, and nothing else.
THEOREM DotProductIsReplicated == Spec => []Replicated
<1>1. IInv => Replicated
  BY DEF IInv
<1> QED
  BY <1>1, Invariance, PTL

------------------------------------------------------------------------------

\* The loop of BuildRequiredRotationIndices ends: its recursion has a solution,
\* made of what every set has that contains s and all its doubles.
LEMMA RotationsUnfold ==
  ASSUME NEW s \in 1 .. 2 * N
  PROVE  RotationsFrom[s] = IF s < N THEN {s, s - N} \cup RotationsFrom[s * 2] ELSE {}
<1> USE WindowAssumption
<1> DEFINE Doubling(C, t) == t \in C /\ \A v \in C : v * 2 \in C
           Reached(t) == {u \in 1 .. N - 1 : \A C \in SUBSET Nat : Doubling(C, t) => u \in C}
           Both(U)    == U \cup {u - N : u \in U}
           Rec(g)     == [t \in 1 .. 2 * N |-> IF t < N THEN {t, t - N} \cup g[t * 2] ELSE {}]
           f          == [t \in 1 .. 2 * N |-> Both(Reached(t))]
<1>1. ASSUME NEW t \in 1 .. 2 * N, t >= N PROVE Reached(t) = {}
  <2> DEFINE C == {v \in Nat : v >= t}
  <2>1. C \in SUBSET Nat /\ Doubling(C, t)
    OBVIOUS
  <2>2. ASSUME NEW u \in Reached(t) PROVE FALSE
    <3>1. u \in C /\ u \in 1 .. N - 1
      BY <2>1
    <3> QED BY <1>1, <3>1
  <2> QED BY <2>2
<1>2. ASSUME NEW t \in 1 .. 2 * N, t < N PROVE Reached(t) = {t} \cup Reached(t * 2)
  <2>1. t \in Reached(t)
    BY <1>2
  <2>2. ASSUME NEW u \in Reached(t * 2) PROVE u \in Reached(t)
    OBVIOUS
  <2>3. ASSUME NEW u \in Reached(t), u # t PROVE u \in Reached(t * 2)
    <3> SUFFICES ASSUME NEW C \in SUBSET Nat, Doubling(C, t * 2) PROVE u \in C
      OBVIOUS
    <3>1. C \cup {t} \in SUBSET Nat /\ Doubling(C \cup {t}, t)
      OBVIOUS
    <3>2. u \in C \cup {t}
      BY <3>1
    <3> QED BY <2>3, <3>2
  <2> HIDE DEF Reached
  <2> QED BY <2>1, <2>2, <2>3
<1>3. f = Rec(f)
  <2> HIDE DEF Reached
  <2>1. ASSUME NEW t \in 1 .. 2 * N
        PROVE  f[t] = IF t < N THEN {t, t - N} \cup f[t * 2] ELSE {}
    <3>1. CASE t >= N
      <4>1. Reached(t) = {} /\ ~(t < N)
        BY <1>1, <3>1
      <4> QED BY <4>1
    <3>2. CASE t < N
      <4>1. t * 2 \in 1 .. 2 * N /\ Reached(t) = {t} \cup Reached(t * 2)
        BY <1>2, <3>2
      <4>2. f[t] = Both({t} \cup Reached(t * 2)) /\ f[t * 2] = Both(Reached(t * 2))
        BY <4>1
      <4>3. Both({t} \cup Reached(t * 2)) = {t, t - N} \cup Both(Reached(t * 2))
        OBVIOUS
      <4> QED BY <3>2, <4>2, <4>3
    <3>3. t >= N \/ t < N
      OBVIOUS
    <3> HIDE DEF f, Both
    <3> QED BY <3>1, <3>2, <3>3
  <2> HIDE DEF f
  <2>2. f = [t \in 1 .. 2 * N |-> f[t]]
    BY DEF f
  <2> QED BY <2>1, <2>2
<1>4. RotationsFrom = CHOOSE g : g = Rec(g)
  BY Zenon DEF RotationsFrom
<1>5. RotationsFrom = Rec(RotationsFrom)
  <2> HIDE DEF Rec, f
  <2> QED BY <1>3, <1>4, Zenon
<1> QED BY <1>5

\* What the rest of the loop of SumOR asks for is a part of the keys.
KeysLeft == pc = "sumor" => RotationsFrom[shift] \subseteq BuildRequiredRotationIndices

\* Every step leaves it so.
LEMMA NextKeysLeft == TypeOK /\ KeysLeft /\ [Next]_vars => KeysLeft'
<1> SUFFICES ASSUME TypeOK, KeysLeft, [Next]_vars PROVE KeysLeft'
  OBVIOUS
<1>1. CASE And
  BY <1>1 DEF And, KeysLeft, BuildRequiredRotationIndices
<1>2. CASE SumORStep
  <2>1. pc = "sumor" /\ shift < N /\ shift' = shift * 2 /\ shift \in 1 .. 2 * N
    BY <1>2 DEF SumORStep, TypeOK
  <2>2. RotationsFrom[shift] = {shift, shift - N} \cup RotationsFrom[shift * 2]
    BY <2>1, RotationsUnfold
  <2>3. RotationsFrom[shift'] \subseteq RotationsFrom[shift]
    BY <2>1, <2>2
  <2> QED BY <2>1, <2>3 DEF KeysLeft, BuildRequiredRotationIndices
<1>3. CASE SumOREnd \/ Mask
  BY <1>3 DEF SumOREnd, Mask, KeysLeft
<1>4. CASE UNCHANGED vars
  BY <1>4 DEF vars, KeysLeft
<1> QED BY <1>1, <1>2, <1>3, <1>4 DEF Next

\* The next rotation is one of them.
LEMMA KeysSuffice == TypeOK /\ KeysLeft => KeysInstalled
<1> SUFFICES ASSUME TypeOK, KeysLeft, pc = "sumor", shift < N
             PROVE  {shift, shift - N} \subseteq BuildRequiredRotationIndices
  BY DEF KeysInstalled
<1>1. shift \in 1 .. 2 * N
  BY DEF TypeOK
<1>2. RotationsFrom[shift] = {shift, shift - N} \cup RotationsFrom[shift * 2]
  BY <1>1, RotationsUnfold
<1> QED BY <1>2 DEF KeysLeft

\* SumOR finds a key for every rotation it asks for.
THEOREM RotationsHaveKeys == Spec => []KeysInstalled
<1>1. Init => KeysLeft
  BY DEF Init, KeysLeft
<1>2. IInv => TypeOK
  BY DEF IInv
<1> QED BY <1>1, <1>2, KeysSuffice, Invariance, NextKeysLeft, PTL DEF Spec

------------------------------------------------------------------------------
\* The product that all three implementations are to return, by rows and by
\* columns.
TheProduct == MM!Product(A, B)
TheColumns == [j \in MM!Slots |-> MM!Column(TheProduct, j)]

\* A vector of which the first n entries have been added.
UpTo(v, n) == [k \in MM!Slots |-> IF k < n THEN v[k] ELSE 0]

\* Thread t has done iteration j of its inner loop in its iteration i.
PastCell(t, i, j) == i \notin todo[t] \/ (i = MM!Min(todo[t]) /\ j < inner[t])

\* How much of its iteration thread t has in its accumulator.
Added(t) == IF slot[t] # MM!NoRead THEN inner[t] + 1 ELSE inner[t]

\* A thread that still has the iterations `rest` of its share has stored the
\* vectors of the others, and has n entries of the next one in `sum`.
Stored(out, M, share, rest, sum, n) ==
  /\ rest # {} => sum = UpTo(M[MM!Min(rest)], n)
  /\ rest = {} => sum = MM!Zero
  /\ \A i \in share : i \notin rest => out[i] = M[i]

\* Between two iterations nothing is left over.
LoopInv ==
  /\ \A t \in MM!Team : todo[t] = {} => inner[t] = 0 /\ slot[t] = MM!NoRead
  /\ stage \in {"pass1", "pass2", "rows"} => \A t \in MM!Team : todo[t] \subseteq MM!StaticShare(t)
  /\ stage # "rows" => \A t \in MM!Team : slot[t] = MM!NoRead

\* Every cell is added once to its row and once to its column.
SerialInv ==
  stage = "serial" =>
    \A i, j \in MM!Slots :
      /\ out_rows[i][j] = IF PastCell(0, i, j) THEN TheProduct[i][j] ELSE 0
      /\ out_cols[j][i] = IF PastCell(0, i, j) THEN TheProduct[i][j] ELSE 0

\* The threads store the rows in two of the loops, and the columns in one.
RowsInv ==
  stage \in {"pass1", "rows"} =>
    \A t \in MM!Team :
      Stored(out_rows, TheProduct, MM!StaticShare(t), todo[t], acc[t], Added(t))

ColsInv ==
  stage = "pass2" =>
    \A t \in MM!Team :
      Stored(out_cols, TheColumns, MM!StaticShare(t), todo[t], acc[t], Added(t))

\* The column accumulators of thread t hold the cells of its own rows, and
\* what it has read of one is still what it holds.
ThreadColsInv ==
  stage \in {"rows", "reduce"} =>
    /\ \A t \in MM!Team : slot[t] # MM!NoRead => slot[t] = thread_cols[t][inner[t]]
    /\ \A t \in MM!Team : \A i, j \in MM!Slots :
         thread_cols[t][j][i] = IF i \in MM!StaticShare(t) /\ PastCell(t, i, j)
                                THEN TheProduct[i][j] ELSE 0

\* What a barrier hands to the next stage.
StageInv ==
  /\ stage \in {"pass2", "reduce", "done"} => out_rows = TheProduct
  /\ stage \in {"reduce", "done"} => \A t \in MM!Team : todo[t] = {}
  /\ stage = "done" => out_cols = TheColumns

MatMulInv ==
  /\ MM!TypeOK
  /\ A \in MM!Matrices /\ B \in MM!Matrices
  /\ LoopInv /\ SerialInv /\ RowsInv /\ ColsInv /\ ThreadColsInv /\ StageInv

\* The serial loop and the slots it works on are at the same cell.
CellInv ==
  stage = "serial" /\ pc # "done" =>
    /\ todo[0] # {}
    /\ row = encrypt_packed(A[MM!Min(todo[0])])
    /\ col = encrypt_packed(MM!Column(B, inner[0]))

------------------------------------------------------------------------------
(* The loops of matmul.                                                    *)

\* The windows of the two levels are one set, and Min is one operator.
LEMMA SameWindow ==
  /\ MM!Slots = Window /\ Window = 0 .. N - 1 /\ N \in Nat \ {0}
  /\ 0 \in MM!Slots /\ N - 1 \in MM!Slots
  /\ MM!Team = 0 .. Threads - 1 /\ Threads \in Nat \ {0} /\ 0 \in MM!Team
  /\ MM!Vectors = [MM!Slots -> {0, 1}]
BY WindowAssumption, ThreadsAssumption DEF MM!Slots, Window, MM!Team, MM!Vectors

\* A nonempty set of numbers has a least element.
LEMMA LeastNat ==
  ASSUME NEW X, X \subseteq Nat, X # {}
  PROVE  \E x \in X : \A y \in X : ~(y < x)
<1>1. \E x \in X : \A y \in X : <<y, x>> \notin OpToRel(<, Nat)
  BY NatLessThanWellFounded, WFMin, Zenon
<1> QED BY <1>1 DEF OpToRel

\* Integer division, as schedule(static) uses it.
LEMMA DivMod ==
  ASSUME NEW n \in Nat, NEW d \in Nat \ {0}
  PROVE  /\ n \div d \in Nat /\ n % d \in 0 .. d - 1
         /\ n = (n \div d) * d + (n % d)
  OBVIOUS

\* The iteration a loop is at.
LEMMA MinOf ==
  ASSUME NEW X, X \subseteq MM!Slots, X # {}
  PROVE  /\ MM!Min(X) \in X /\ \A y \in X : MM!Min(X) =< y
         /\ MM!Min(X) = Min(X)
<1>0. X \subseteq Nat
  BY SameWindow
<1>1. PICK x \in X : \A z \in X : ~(z < x)
  BY <1>0, LeastNat
<1>2. x \in X /\ \A z \in X : x =< z
  BY <1>0, <1>1
<1>3. MM!Min(X) \in X /\ \A y \in X : MM!Min(X) =< y
  BY <1>2, Zenon DEF MM!Min
<1>4. Min(X) \in X /\ \A y \in X : Min(X) =< y
  BY <1>2, Zenon DEF Min
<1>5. MM!Min(X) =< Min(X) /\ Min(X) =< MM!Min(X) /\ MM!Min(X) \in Nat /\ Min(X) \in Nat
  BY <1>0, <1>3, <1>4
<1>6. MM!Min(X) = Min(X)
  BY <1>5
<1> QED BY <1>3, <1>6

\* schedule(static) gives every iteration to one thread.
LEMMA SharesTile ==
  /\ \A t \in MM!Team : MM!StaticShare(t) \subseteq MM!Slots
  /\ \A i \in MM!Slots : \E t \in MM!Team : i \in MM!StaticShare(t)
  /\ \A t, s \in MM!Team : \A i \in MM!StaticShare(t) : i \in MM!StaticShare(s) => t = s
<1> DEFINE c == (N + Threads - 1) \div Threads
<1>1. c \in Nat \ {0} /\ N <= c * Threads
  <2>1. N + Threads - 1 \in Nat /\ Threads \in Nat \ {0}
    BY SameWindow
  <2>2. /\ c \in Nat /\ (N + Threads - 1) % Threads \in 0 .. Threads - 1
        /\ N + Threads - 1 = c * Threads + ((N + Threads - 1) % Threads)
    BY <2>1, DivMod
  <2>3. N <= c * Threads
    BY <2>1, <2>2, SameWindow
  <2>4. c # 0
    BY <2>3, SameWindow
  <2> QED BY <2>2, <2>3, <2>4
<1>2. ASSUME NEW i \in MM!Slots PROVE i \div c \in MM!Team
  <2>1. i \in Nat /\ i < N
    BY SameWindow
  <2>2. i \div c \in Nat /\ (i \div c) * c <= i
    <3>1. i \div c \in Nat /\ i % c \in 0 .. c - 1 /\ i = (i \div c) * c + (i % c)
      BY <1>1, <2>1
    <3> QED BY <1>1, <2>1, <3>1
  <2>3. i \div c < Threads
    <3> DEFINE q == i \div c
    <3>1. q * c < c * Threads
      BY <1>1, <2>1, <2>2, SameWindow
    <3>2. q \in Nat /\ c \in Nat \ {0} /\ Threads \in Nat
      BY <1>1, <2>2, SameWindow
    <3> HIDE DEF q, c
    <3>3. q < Threads
      <4> SUFFICES ASSUME Threads <= q PROVE FALSE
        BY <3>2
      <4>1. c * Threads <= q * c
        BY <3>2
      <4> QED BY <3>1, <3>2, <4>1
    <3> QED BY <3>3 DEF q
  <2> QED BY <2>2, <2>3, SameWindow
<1>3. \A t, i : i \in MM!StaticShare(t) <=> i \in MM!Slots /\ i \div c = t
  BY DEF MM!StaticShare
<1> HIDE DEF c
<1> QED BY <1>2, <1>3

\* Every nonempty set of subsets of a finite set has a minimal one.
LEMMA LeastSubset ==
  ASSUME NEW S, IsFiniteSet(S), NEW X, X \subseteq SUBSET S, X # {}
  PROVE  \E T \in X : \A U \in X : ~(U \subseteq T /\ U # T)
<1>1. X \subseteq FiniteSubsetsOf(S)
  BY FS_Subset DEF FiniteSubsetsOf
<1>2. \E T \in X : \A U \in X : ~(<<U, T>> \in StrictSubsetOrdering(S))
  BY <1>1, FS_StrictSubsetOrderingWellFounded, WFMin
<1> QED BY <1>2 DEF StrictSubsetOrdering

\* What the folds compute on the subsets of S, one element after the other.
OrsUp(it, f, S)  == it[{}] = 0 /\ \A s \in SUBSET S : s # {} =>
                                     \E x \in s : it[s] = MM!Or(f[x], it[s \ {x}])

\* The OR of bits is 1 when one of them is.
LEMMA OrOverSet ==
  ASSUME NEW S, IsFiniteSet(S), NEW f \in [S -> {0, 1}],
         NEW it, OrsUp(it, f, S)
  PROVE  it[S] = IF \E x \in S : f[x] = 1 THEN 1 ELSE 0
<1> DEFINE Any(s) == IF \E x \in s : f[x] = 1 THEN 1 ELSE 0
           Bad == {s \in SUBSET S : it[s] # Any(s)}
<1>1. Bad = {}
  <2> SUFFICES ASSUME Bad # {} PROVE FALSE
    OBVIOUS
  <2>1. PICK s \in Bad : \A U \in Bad : ~(U \subseteq s /\ U # s)
    <3>1. Bad \subseteq SUBSET S
      OBVIOUS
    <3> HIDE DEF Bad
    <3> QED BY <3>1, LeastSubset
  <2>2. CASE s = {}
    BY <2>1, <2>2 DEF OrsUp
  <2>3. CASE s # {}
    <3>2. PICK x \in s : it[s] = MM!Or(f[x], it[s \ {x}])
      BY <2>1, <2>3 DEF OrsUp
    <3>1. x \in s
      OBVIOUS
    <3>3. it[s \ {x}] = Any(s \ {x})
      <4>1. s \ {x} \in SUBSET S /\ s \ {x} \subseteq s /\ s \ {x} # s
        BY <2>1, <3>1
      <4>2. s \ {x} \notin Bad
        BY <2>1, <4>1
      <4> QED BY <4>1, <4>2
    <3>4. f[x] \in {0, 1}
      BY <2>1, <3>1
    <3>5. MM!Or(f[x], Any(s \ {x})) = Any(s)
      BY <3>1, <3>4 DEF MM!Or
    <3> QED BY <2>1, <3>2, <3>3, <3>5
  <2> QED BY <2>2, <2>3
<1> QED BY <1>1

\* BooleanDotProduct of bits.
LEMMA DotProductOfBits ==
  ASSUME NEW u \in [MM!Slots -> {0, 1}], NEW w \in [MM!Slots -> {0, 1}]
  PROVE  MM!BooleanDotProduct(u, w) = IF \E k \in MM!Slots : u[k] = 1 /\ w[k] = 1 THEN 1 ELSE 0
<1> DEFINE f == [k \in MM!Slots |-> u[k] * w[k]]
           Rec(g) == [s \in SUBSET MM!Slots |-> IF s = {} THEN 0
                       ELSE MM!Or(f[CHOOSE x \in s : TRUE], g[s \ {CHOOSE x \in s : TRUE}])]
           it == CHOOSE g : g = Rec(g)
<1>1. f \in [MM!Slots -> {0, 1}]
  <2>1. \A k \in MM!Slots : u[k] \in {0, 1} /\ w[k] \in {0, 1}
    OBVIOUS
  <2> QED BY <2>1
<1>2. DOMAIN f = MM!Slots /\ IsFiniteSet(MM!Slots)
  BY FS_Interval, SameWindow
<1>3. MM!BooleanDotProduct(u, w) = it[MM!Slots]
  BY <1>2 DEF MM!BooleanDotProduct, MM!FoldFunction, MM!FoldFunctionOnSet, MM!MapThenFoldSet
<1>4. it = Rec(it)
  <2> DEFINE any == [s \in SUBSET MM!Slots |-> IF \E x \in s : f[x] = 1 THEN 1 ELSE 0]
  <2> HIDE DEF f
  <2>1. ASSUME NEW s \in SUBSET MM!Slots PROVE any[s] = Rec(any)[s]
    <3>1. CASE s = {}
      BY <3>1
    <3>2. CASE s # {}
      <4> DEFINE x == CHOOSE y \in s : TRUE
      <4>1. x \in s /\ Rec(any)[s] = MM!Or(f[x], any[s \ {x}])
        BY <3>2
      <4> HIDE DEF x
      <4>2. f[x] \in {0, 1} /\ s \ {x} \in SUBSET MM!Slots
        BY <1>1, <4>1
      <4>3. MM!Or(f[x], any[s \ {x}]) = any[s]
        BY <4>1, <4>2 DEF MM!Or
      <4> QED BY <4>1, <4>3
    <3> QED BY <3>1, <3>2
  <2>2. any = Rec(any)
    BY <2>1
  <2> HIDE DEF any, Rec
  <2> QED BY <2>2, Zenon
<1>5. it[MM!Slots] = IF \E x \in MM!Slots : f[x] = 1 THEN 1 ELSE 0
  <2> HIDE DEF f, it
  <2>1. it[{}] = 0
    BY <1>4
  <2>2. \A s \in SUBSET MM!Slots : s # {} => \E x \in s : it[s] = MM!Or(f[x], it[s \ {x}])
    <3>1. ASSUME NEW s \in SUBSET MM!Slots, s # {}
          PROVE  \E x \in s : it[s] = MM!Or(f[x], it[s \ {x}])
      <4> DEFINE x == CHOOSE y \in s : TRUE
      <4>1. x \in s
        BY <3>1
      <4>2. it[s] = MM!Or(f[x], it[s \ {x}])
        BY <1>4, <3>1
      <4> QED BY <4>1, <4>2
    <3> QED BY <3>1
  <2>3. OrsUp(it, f, MM!Slots)
    BY <2>1, <2>2 DEF OrsUp
  <2> HIDE DEF Rec
  <2> QED BY <1>1, <1>2, <2>3, OrOverSet
<1>6. \A k \in MM!Slots : f[k] = 1 <=> u[k] = 1 /\ w[k] = 1
  <2>1. \A k \in MM!Slots : u[k] \in {0, 1} /\ w[k] \in {0, 1}
    OBVIOUS
  <2> QED BY <2>1
<1> QED BY <1>3, <1>5, <1>6

\* The product is a Boolean matrix, and a dot product is one of its cells.
LEMMA ProductFacts ==
  ASSUME A \in MM!Matrices, B \in MM!Matrices
  PROVE  /\ TheProduct \in [MM!Slots -> MM!Vectors]
         /\ \A i, j \in MM!Slots : TheProduct[i][j] \in {0, 1} /\ MM!Cij(i, j) = TheProduct[i][j]
         /\ TheColumns \in [MM!Slots -> MM!Vectors]
         /\ \A i, j \in MM!Slots : TheColumns[j][i] = TheProduct[i][j]
<1>1. \A i, j \in MM!Slots :
        TheProduct[i][j] = IF \E k \in MM!Slots : A[i][k] = 1 /\ B[k][j] = 1 THEN 1 ELSE 0
  BY DEF TheProduct, MM!Product
<1>2. TheProduct \in [MM!Slots -> MM!Vectors]
  BY DEF TheProduct, MM!Product, MM!Vectors
<1>3. \A i, j \in MM!Slots : TheProduct[i][j] \in {0, 1}
  BY <1>1
<1>4. ASSUME NEW i \in MM!Slots, NEW j \in MM!Slots
      PROVE  MM!Cij(i, j) = TheProduct[i][j]
  <2>1. A[i] \in [MM!Slots -> {0, 1}] /\ \A k \in MM!Slots : B[k][j] \in {0, 1}
    BY DEF MM!Matrices
  <2>2. /\ MM!Column(B, j) \in [MM!Slots -> {0, 1}]
        /\ \A k \in MM!Slots : MM!Column(B, j)[k] = B[k][j]
    BY <2>1 DEF MM!Column
  <2>3. MM!BooleanDotProduct(A[i], MM!Column(B, j))
          = IF \E k \in MM!Slots : A[i][k] = 1 /\ MM!Column(B, j)[k] = 1 THEN 1 ELSE 0
    BY <2>1, <2>2, DotProductOfBits
  <2> QED BY <1>1, <2>2, <2>3 DEF MM!Cij
<1>5. \A j \in MM!Slots : TheColumns[j] = [k \in MM!Slots |-> TheProduct[k][j]]
  BY DEF TheColumns, MM!Column
<1>6. TheColumns \in [MM!Slots -> MM!Vectors]
  <2>1. ASSUME NEW j \in MM!Slots PROVE TheColumns[j] \in MM!Vectors
    <3>1. [k \in MM!Slots |-> TheProduct[k][j]] \in [MM!Slots -> {0, 1}]
      BY <1>3
    <3> QED BY <1>5, <3>1, SameWindow
  <2> QED BY <2>1 DEF TheColumns
<1> QED BY <1>2, <1>3, <1>4, <1>5, <1>6

\* Adding a masked entry to the entries before it.
LEMMA AddPiece ==
  ASSUME NEW v \in MM!Vectors, NEW j \in MM!Slots
  PROVE  /\ MM!EvalAdd(UpTo(v, j), MM!MaskMult(v[j], j)) = UpTo(v, j + 1)
         /\ UpTo(v, j) \in MM!Vectors /\ UpTo(v, j + 1) \in MM!Vectors
         /\ UpTo(v, 0) = MM!Zero /\ UpTo(v, N) = v
<1>1. \A k \in MM!Slots : v[k] \in {0, 1} /\ v[k] \in Nat /\ k \in Nat /\ k < N
  BY SameWindow
<1>2. j \in Nat
  BY SameWindow
<1>3. MM!EvalAdd(UpTo(v, j), MM!MaskMult(v[j], j))
        = [k \in MM!Slots |-> (IF k < j THEN v[k] ELSE 0) + (IF k = j THEN v[j] ELSE 0)]
  BY DEF MM!EvalAdd, UpTo, MM!MaskMult
<1>4. \A k \in MM!Slots : (IF k < j THEN v[k] ELSE 0) + (IF k = j THEN v[j] ELSE 0)
                            = IF k < j + 1 THEN v[k] ELSE 0
  BY <1>1, <1>2
<1>5. MM!EvalAdd(UpTo(v, j), MM!MaskMult(v[j], j)) = UpTo(v, j + 1)
  BY <1>3, <1>4 DEF UpTo
<1>6. UpTo(v, j) \in MM!Vectors /\ UpTo(v, j + 1) \in MM!Vectors
  BY <1>1, SameWindow DEF UpTo
<1>7. UpTo(v, 0) = MM!Zero
  BY <1>1 DEF UpTo, MM!Zero
<1>8. UpTo(v, N) = v
  <2>1. UpTo(v, N) = [k \in MM!Slots |-> v[k]]
    BY <1>1 DEF UpTo
  <2> QED BY <2>1, SameWindow
<1> QED BY <1>5, <1>6, <1>7, <1>8

\* One cell added to an accumulator that other cells have been added to.
LEMMA AddBit ==
  ASSUME NEW u \in MM!Vectors, NEW c \in {0, 1}, NEW j \in MM!Slots, u[j] = 0
  PROVE  /\ MM!EvalAdd(u, MM!MaskMult(c, j)) = [u EXCEPT ![j] = c]
         /\ MM!EvalAdd(u, MM!MaskMult(c, j)) \in MM!Vectors
<1>1. \A k \in MM!Slots : u[k] \in {0, 1} /\ u[k] \in Nat
  BY SameWindow
<1>2. u = [k \in MM!Slots |-> u[k]]
  BY SameWindow
<1>3. MM!EvalAdd(u, MM!MaskMult(c, j)) = [k \in MM!Slots |-> u[k] + (IF k = j THEN c ELSE 0)]
  BY DEF MM!EvalAdd, MM!MaskMult
<1>4. \A k \in MM!Slots : u[k] + (IF k = j THEN c ELSE 0) = [u EXCEPT ![j] = c][k]
  BY <1>1, <1>2
<1>5. [u EXCEPT ![j] = c] \in MM!Vectors
  BY SameWindow
<1>6. [u EXCEPT ![j] = c] = [k \in MM!Slots |-> [u EXCEPT ![j] = c][k]]
  BY <1>2
<1>7. MM!EvalAdd(u, MM!MaskMult(c, j)) = [u EXCEPT ![j] = c]
  BY <1>3, <1>4, <1>6
<1> QED BY <1>5, <1>7

\* The loops go from cell to cell: after Advance thread t is past the cell it
\* was at, and nothing else has changed.
LEMMA AdvanceMoves ==
  ASSUME todo \in [MM!Team -> SUBSET MM!Slots], inner \in [MM!Team -> MM!Slots],
         NEW t \in MM!Team, todo[t] # {}, MM!Advance(t)
  PROVE  /\ todo' \in [MM!Team -> SUBSET MM!Slots] /\ inner' \in [MM!Team -> MM!Slots]
         /\ \A s \in MM!Team : s # t => todo'[s] = todo[s] /\ inner'[s] = inner[s]
         /\ inner[t] < N - 1 => todo'[t] = todo[t] /\ inner'[t] = inner[t] + 1
         /\ inner[t] = N - 1 => todo'[t] = todo[t] \ {MM!Min(todo[t])} /\ inner'[t] = 0
         /\ inner[t] < N - 1 \/ inner[t] = N - 1
         /\ MM!Min(todo[t]) \in todo[t] /\ inner[t] \in MM!Slots
<1>1. todo[t] \subseteq MM!Slots /\ inner[t] \in MM!Slots
  OBVIOUS
<1>2. MM!Min(todo[t]) \in todo[t]
  BY <1>1, MinOf
<1>3. inner[t] \in Nat /\ N \in Nat \ {0} /\ inner[t] <= N - 1
  BY <1>1, SameWindow
<1>4. inner[t] < N - 1 \/ inner[t] = N - 1
  BY <1>3
<1>5. CASE inner[t] < N - 1
  <2>1. inner' = [inner EXCEPT ![t] = @ + 1] /\ todo' = todo
    BY <1>5 DEF MM!Advance
  <2>2. inner[t] + 1 \in MM!Slots
    BY <1>3, <1>5, SameWindow
  <2> QED BY <1>1, <1>2, <1>3, <1>5, <2>1, <2>2
<1>6. CASE inner[t] = N - 1
  <2>1. inner' = [inner EXCEPT ![t] = 0] /\ todo' = [todo EXCEPT ![t] = @ \ {MM!Min(@)}]
    BY <1>3, <1>6 DEF MM!Advance
  <2>2. 0 \in MM!Slots
    BY SameWindow
  <2> QED BY <1>1, <1>2, <1>3, <1>6, <2>1, <2>2
<1> QED BY <1>4, <1>5, <1>6

\* Advance adds one cell to those a thread has passed.
LEMMA PastAdvances ==
  ASSUME todo \in [MM!Team -> SUBSET MM!Slots], inner \in [MM!Team -> MM!Slots],
         NEW t \in MM!Team, todo[t] # {}, MM!Advance(t)
  PROVE  /\ \A s \in MM!Team : \A i, j \in MM!Slots :
              PastCell(s, i, j)' <=> \/ PastCell(s, i, j)
                                     \/ s = t /\ i = MM!Min(todo[t]) /\ j = inner[t]
         /\ ~ PastCell(t, MM!Min(todo[t]), inner[t])
<1>1. /\ \A s \in MM!Team : s # t => todo'[s] = todo[s] /\ inner'[s] = inner[s]
      /\ inner[t] < N - 1 => todo'[t] = todo[t] /\ inner'[t] = inner[t] + 1
      /\ inner[t] = N - 1 => todo'[t] = todo[t] \ {MM!Min(todo[t])} /\ inner'[t] = 0
      /\ inner[t] < N - 1 \/ inner[t] = N - 1
      /\ MM!Min(todo[t]) \in todo[t] /\ inner[t] \in MM!Slots
  BY AdvanceMoves
<1>2. \A k \in MM!Slots : k \in Nat /\ k <= N - 1 /\ ~(k < 0)
  BY SameWindow
<1>3. ASSUME NEW s \in MM!Team, s # t, NEW i \in MM!Slots, NEW j \in MM!Slots
      PROVE  PastCell(s, i, j)' <=> PastCell(s, i, j)
  BY <1>1, <1>3 DEF PastCell
<1>4. ASSUME NEW i \in MM!Slots, NEW j \in MM!Slots
      PROVE  PastCell(t, i, j)' <=> PastCell(t, i, j) \/ (i = MM!Min(todo[t]) /\ j = inner[t])
  <2> DEFINE m == MM!Min(todo[t])
             k == inner[t]
  <2>1. j \in Nat /\ j <= N - 1 /\ ~(j < 0) /\ k \in Nat /\ N \in Nat
    BY <1>1, <1>2, SameWindow
  <2>2. CASE k < N - 1
    <3>1. PastCell(t, i, j)' <=> i \notin todo[t] \/ (i = m /\ j < k + 1)
      BY <1>1, <2>2 DEF PastCell
    <3>2. PastCell(t, i, j) <=> i \notin todo[t] \/ (i = m /\ j < k)
      BY DEF PastCell
    <3> HIDE DEF m, k
    <3> QED BY <2>1, <3>1, <3>2 DEF m, k
  <2>3. CASE k = N - 1
    <3>1. PastCell(t, i, j)' <=> i \notin todo[t] \/ i = m
      BY <1>1, <2>1, <2>3 DEF PastCell
    <3>2. PastCell(t, i, j) <=> i \notin todo[t] \/ (i = m /\ j < k)
      BY DEF PastCell
    <3> HIDE DEF m, k
    <3> QED BY <2>1, <2>3, <3>1, <3>2 DEF m, k
  <2> QED BY <1>1, <2>2, <2>3
<1>5. ~ PastCell(t, MM!Min(todo[t]), inner[t])
  BY <1>1, <1>2 DEF PastCell
<1> QED BY <1>3, <1>4, <1>5

\* One more iteration of the inner loop of a thread that stores what it has
\* added up: the entry stays in its accumulator, and after the last one the
\* vector is stored.
LEMMA IterationStores ==
  ASSUME NEW M \in [MM!Slots -> MM!Vectors], NEW share \in SUBSET MM!Slots,
         NEW rest \in SUBSET MM!Slots, rest \subseteq share, rest # {},
         NEW j \in MM!Slots, NEW out \in [MM!Slots -> MM!Vectors], NEW sum,
         Stored(out, M, share, rest, sum, j)
  PROVE  LET i    == MM!Min(rest)
             more == MM!EvalAdd(sum, MM!MaskMult(M[i][j], j))
         IN  /\ Stored(out, M, share, rest, more, j + 1)
             /\ sum \in MM!Vectors /\ more \in MM!Vectors /\ M[i] \in MM!Vectors
             /\ j = N - 1 => more = M[i]
<1> DEFINE i == MM!Min(rest)
           more == MM!EvalAdd(sum, MM!MaskMult(M[i][j], j))
<1>1. i \in rest /\ M[i] \in MM!Vectors
  BY MinOf
<1>2. sum = UpTo(M[i], j) /\ \A k \in share : k \notin rest => out[k] = M[k]
  BY DEF Stored
<1>3. more = UpTo(M[i], j + 1) /\ sum \in MM!Vectors /\ more \in MM!Vectors /\ UpTo(M[i], N) = M[i]
  BY <1>1, <1>2, AddPiece
<1>4. j = N - 1 => j + 1 = N
  BY SameWindow
<1> HIDE DEF i, more
<1>5. j = N - 1 => more = M[i]
  BY <1>3, <1>4
<1>6. Stored(out, M, share, rest, more, j + 1)
  BY <1>2, <1>3 DEF Stored, i
<1> QED BY <1>1, <1>3, <1>5, <1>6 DEF i, more

\* After the last entry the vector is stored and the next iteration begins.
LEMMA LastStores ==
  ASSUME NEW M \in [MM!Slots -> MM!Vectors], NEW share \in SUBSET MM!Slots,
         NEW rest \in SUBSET MM!Slots, rest \subseteq share, rest # {},
         NEW out \in [MM!Slots -> MM!Vectors], NEW sum, NEW n,
         Stored(out, M, share, rest, sum, n)
  PROVE  Stored([out EXCEPT ![MM!Min(rest)] = M[MM!Min(rest)]], M, share,
                rest \ {MM!Min(rest)}, MM!Zero, 0)
<1> DEFINE i == MM!Min(rest)
           left == rest \ {i}
           stored == [out EXCEPT ![i] = M[i]]
<1>1. i \in rest /\ i \in MM!Slots
  BY MinOf
<1>2. \A k \in share : k \notin left => stored[k] = M[k]
  <2>1. \A k \in share : k \notin rest => out[k] = M[k]
    BY DEF Stored
  <2> HIDE DEF i
  <2> QED BY <1>1, <2>1
<1>3. left # {} => MM!Zero = UpTo(M[MM!Min(left)], 0)
  <2>1. left \subseteq MM!Slots
    OBVIOUS
  <2> HIDE DEF left
  <2> SUFFICES ASSUME left # {} PROVE MM!Zero = UpTo(M[MM!Min(left)], 0)
    OBVIOUS
  <2>2. M[MM!Min(left)] \in MM!Vectors
    BY <2>1, MinOf
  <2> QED BY <2>2, AddPiece, SameWindow
<1> HIDE DEF i, left, stored
<1>4. Stored(stored, M, share, left, MM!Zero, 0)
  BY <1>2, <1>3 DEF Stored
<1> QED BY <1>4 DEF i, left, stored

\* What another thread stores is not in this one's share.
LEMMA OthersStored ==
  ASSUME NEW M, NEW share \in SUBSET MM!Slots, NEW rest,
         NEW out \in [MM!Slots -> MM!Vectors], NEW sum, NEW n,
         Stored(out, M, share, rest, sum, n),
         NEW i \in MM!Slots, i \notin share, NEW v
  PROVE  Stored([out EXCEPT ![i] = v], M, share, rest, sum, n)
BY DEF Stored

\* The steps between two barriers keep LoopInv.
LEMMA LoopAdvances ==
  ASSUME MM!TypeOK, LoopInv, NEW t \in MM!Team, todo[t] # {}, MM!Advance(t),
         stage' = stage,
         \A s \in MM!Team : slot'[s] = IF s = t THEN MM!NoRead ELSE slot[s]
  PROVE  LoopInv'
<1>1. /\ \A s \in MM!Team : s # t => todo'[s] = todo[s] /\ inner'[s] = inner[s]
      /\ inner[t] < N - 1 => todo'[t] = todo[t] /\ inner'[t] = inner[t] + 1
      /\ inner[t] = N - 1 => todo'[t] = todo[t] \ {MM!Min(todo[t])} /\ inner'[t] = 0
      /\ inner[t] < N - 1 \/ inner[t] = N - 1
  BY AdvanceMoves DEF MM!TypeOK
<1>2. \A s \in MM!Team : todo'[s] = {} => inner'[s] = 0 /\ slot'[s] = MM!NoRead
  BY <1>1 DEF LoopInv
<1>3. ASSUME stage \in {"pass1", "pass2", "rows"}, NEW s \in MM!Team
      PROVE  todo'[s] \subseteq MM!StaticShare(s)
  <2>1. todo[s] \subseteq MM!StaticShare(s)
    BY <1>3 DEF LoopInv
  <2>2. todo'[s] \subseteq todo[s]
    BY <1>1
  <2> QED BY <2>1, <2>2
<1>4. stage # "rows" => \A s \in MM!Team : slot'[s] = MM!NoRead
  BY DEF LoopInv
<1> QED BY <1>2, <1>3, <1>4 DEF LoopInv

\* No vector is the mark of a thread that has read nothing.
LEMMA NoReadIsNoVector == \A v \in MM!Vectors : v # MM!NoRead
<1> SUFFICES ASSUME NEW v \in MM!Vectors, v = MM!NoRead PROVE FALSE
  OBVIOUS
<1>1. DOMAIN v = MM!Slots /\ 0 \in MM!Slots
  BY SameWindow
<1>2. DOMAIN MM!NoRead = {}
  BY DEF MM!NoRead
<1> QED BY <1>1, <1>2

\* The operands stay.
LEMMA SameProduct ==
  ASSUME UNCHANGED <<A, B>>
  PROVE  TheProduct' = TheProduct /\ TheColumns' = TheColumns
BY DEF TheProduct, TheColumns, MM!Product, MM!Column

\* Init.
LEMMA InitMatMulInv == MM!Init => MatMulInv
<1> SUFFICES ASSUME MM!Init PROVE MatMulInv
  OBVIOUS
<1>1. A \in MM!Matrices /\ B \in MM!Matrices
  BY InputsAssumption DEF MM!Init
<1>2. MM!Zero \in MM!Vectors /\ MM!Zeros \in [MM!Slots -> MM!Vectors]
  BY SameWindow DEF MM!Zero, MM!Zeros
<1>3. /\ variant \in MM!Variants /\ stage \in {"serial", "pass1", "rows"}
      /\ stage = "serial" <=> variant = "Serial"
  BY DEF MM!Init, MM!Variants
<1>4. /\ todo \in [MM!Team -> SUBSET MM!Slots]
      /\ stage # "serial" => \A t \in MM!Team : todo[t] = MM!StaticShare(t)
      /\ stage = "serial" => todo[0] = MM!Slots
  BY <1>3, SharesTile, SameWindow DEF MM!Init, MM!Loop
<1>5. /\ inner = [t \in MM!Team |-> 0] /\ acc = [t \in MM!Team |-> MM!Zero]
      /\ slot = [t \in MM!Team |-> MM!NoRead] /\ thread_cols = [t \in MM!Team |-> MM!Zeros]
      /\ out_rows = MM!Zeros /\ out_cols = MM!Zeros
  BY DEF MM!Init
<1>6. MM!TypeOK
  BY <1>2, <1>3, <1>4, <1>5, SameWindow DEF MM!TypeOK
<1>7. LoopInv
  BY <1>3, <1>4, <1>5, SharesTile DEF LoopInv
<1>8. \A i, j \in MM!Slots : MM!Zeros[j][i] = 0
  BY DEF MM!Zeros, MM!Zero
<1>9. \A t \in MM!Team : \A i, j \in MM!Slots : i \in todo[t] => ~ PastCell(t, i, j)
  BY <1>5, SameWindow DEF PastCell
<1>10. SerialInv
  BY <1>4, <1>5, <1>8, <1>9, SameWindow DEF SerialInv
<1>11. RowsInv
  <2> SUFFICES ASSUME stage \in {"pass1", "rows"}, NEW t \in MM!Team
               PROVE  Stored(out_rows, TheProduct, MM!StaticShare(t), todo[t], acc[t], Added(t))
    BY DEF RowsInv
  <2>1. todo[t] = MM!StaticShare(t) /\ todo[t] \subseteq MM!Slots /\ acc[t] = MM!Zero /\ Added(t) = 0
    BY <1>4, <1>5, SharesTile DEF Added
  <2>2. todo[t] # {} => MM!Zero = UpTo(TheProduct[MM!Min(todo[t])], 0)
    <3> SUFFICES ASSUME todo[t] # {} PROVE MM!Zero = UpTo(TheProduct[MM!Min(todo[t])], 0)
      OBVIOUS
    <3>1. TheProduct[MM!Min(todo[t])] \in MM!Vectors
      BY <1>1, <2>1, MinOf, ProductFacts
    <3> QED BY <3>1, AddPiece, SameWindow
  <2> QED BY <2>1, <2>2 DEF Stored
<1>12. ColsInv /\ StageInv
  BY <1>3 DEF ColsInv, StageInv
<1>13. ThreadColsInv
  <2> SUFFICES ASSUME stage = "rows"
               PROVE  \A t \in MM!Team : \A i, j \in MM!Slots :
                        thread_cols[t][j][i] = IF i \in MM!StaticShare(t) /\ PastCell(t, i, j)
                                               THEN TheProduct[i][j] ELSE 0
    BY <1>3, <1>5 DEF ThreadColsInv
  <2>1. \A t \in MM!Team : todo[t] = MM!StaticShare(t)
    BY <1>4
  <2> QED BY <1>5, <1>8, <1>9, <2>1
<1> QED BY <1>1, <1>6, <1>7, <1>10, <1>11, <1>12, <1>13 DEF MatMulInv

\* What every step of a loop starts from.
LEMMA LoopFacts ==
  ASSUME MatMulInv, NEW t \in MM!Team, todo[t] # {}
  PROVE  /\ MM!Min(todo[t]) \in todo[t] /\ MM!Min(todo[t]) \in MM!Slots /\ todo[t] \in SUBSET MM!Slots
         /\ inner[t] \in MM!Slots /\ inner[t] \in Nat
         /\ \A i, j \in MM!Slots : MM!Cij(i, j) = TheProduct[i][j] /\ TheProduct[i][j] \in {0, 1}
<1>1. MM!TypeOK /\ A \in MM!Matrices /\ B \in MM!Matrices
  BY DEF MatMulInv
<1>2. todo[t] \in SUBSET MM!Slots /\ inner[t] \in MM!Slots
  BY <1>1 DEF MM!TypeOK
<1>3. MM!Min(todo[t]) \in todo[t]
  BY <1>2, MinOf
<1>4. inner[t] \in Nat
  BY <1>2, SameWindow
<1>5. \A i, j \in MM!Slots : MM!Cij(i, j) = TheProduct[i][j] /\ TheProduct[i][j] \in {0, 1}
  BY <1>1, ProductFacts
<1> QED BY <1>2, <1>3, <1>4, <1>5

\* MatMulSerial: the cell is added to one row and to one column.
LEMMA SerialKeeps == MatMulInv /\ MM!SerialStep => MatMulInv'
<1> SUFFICES ASSUME MatMulInv, MM!SerialStep PROVE MatMulInv'
  OBVIOUS
<1> DEFINE i == MM!Min(todo[0])
           j == inner[0]
           c == TheProduct[i][j]
<1>1. /\ stage = "serial" /\ stage' = stage /\ todo[0] # {} /\ 0 \in MM!Team
      /\ UNCHANGED <<variant, A, B, acc, slot, thread_cols>>
      /\ MM!Advance(0)
  BY SameWindow DEF MM!SerialStep, MM!inputs
<1>2. MM!TypeOK /\ LoopInv /\ SerialInv /\ A \in MM!Matrices /\ B \in MM!Matrices
  BY DEF MatMulInv
<1>3. i \in MM!Slots /\ j \in MM!Slots /\ MM!Cij(i, j) = c /\ c \in {0, 1}
  BY <1>1, LoopFacts
<1>4. /\ out_rows' = [out_rows EXCEPT ![i] = MM!EvalAdd(@, MM!MaskMult(MM!Cij(i, j), j))]
      /\ out_cols' = [out_cols EXCEPT ![j] = MM!EvalAdd(@, MM!MaskMult(MM!Cij(i, j), i))]
  BY DEF MM!SerialStep
<1>5. /\ out_rows \in [MM!Slots -> MM!Vectors] /\ out_cols \in [MM!Slots -> MM!Vectors]
      /\ todo \in [MM!Team -> SUBSET MM!Slots] /\ inner \in [MM!Team -> MM!Slots]
  BY <1>2 DEF MM!TypeOK
<1>6. /\ \A a, b \in MM!Slots : PastCell(0, a, b)' <=> PastCell(0, a, b) \/ (a = i /\ b = j)
      /\ ~ PastCell(0, i, j)
  BY <1>1, <1>5, PastAdvances
<1>7. out_rows[i][j] = 0 /\ out_cols[j][i] = 0
  BY <1>1, <1>2, <1>3, <1>6 DEF SerialInv
<1> HIDE DEF i, j, c
<1>8. /\ out_rows' = [out_rows EXCEPT ![i] = [@ EXCEPT ![j] = c]]
      /\ out_cols' = [out_cols EXCEPT ![j] = [@ EXCEPT ![i] = c]]
  BY <1>3, <1>4, <1>5, <1>7, AddBit
<1>9. /\ out_rows' \in [MM!Slots -> MM!Vectors] /\ out_cols' \in [MM!Slots -> MM!Vectors]
  BY <1>3, <1>5, <1>8, SameWindow
<1>10. MM!TypeOK'
  <2>1. todo' \in [MM!Team -> SUBSET MM!Slots] /\ inner' \in [MM!Team -> MM!Slots]
    BY <1>1, <1>5, AdvanceMoves
  <2> QED BY <1>1, <1>2, <1>9, <2>1 DEF MM!TypeOK
<1>11. LoopInv'
  <2>1. \A s \in MM!Team : slot'[s] = IF s = 0 THEN MM!NoRead ELSE slot[s]
    BY <1>1, <1>2 DEF LoopInv
  <2> QED BY <1>1, <1>2, <2>1, LoopAdvances
<1>12. SerialInv'
  <2>1. /\ \A a, b \in MM!Slots : out_rows'[a][b] = IF a = i /\ b = j THEN c ELSE out_rows[a][b]
        /\ \A a, b \in MM!Slots : out_cols'[b][a] = IF a = i /\ b = j THEN c ELSE out_cols[b][a]
    BY <1>3, <1>5, <1>8, SameWindow
  <2>2. TheProduct' = TheProduct
    BY <1>1, SameProduct
  <2>3. ASSUME NEW a \in MM!Slots, NEW b \in MM!Slots
        PROVE  /\ out_rows'[a][b] = IF PastCell(0, a, b)' THEN TheProduct[a][b] ELSE 0
               /\ out_cols'[b][a] = IF PastCell(0, a, b)' THEN TheProduct[a][b] ELSE 0
    <3>1. /\ out_rows[a][b] = IF PastCell(0, a, b) THEN TheProduct[a][b] ELSE 0
          /\ out_cols[b][a] = IF PastCell(0, a, b) THEN TheProduct[a][b] ELSE 0
      BY <1>1, <1>2 DEF SerialInv
    <3>2. PastCell(0, a, b)' <=> PastCell(0, a, b) \/ (a = i /\ b = j)
      BY <1>6
    <3>3. a = i /\ b = j => c = TheProduct[a][b]
      BY DEF c
    <3> QED BY <2>1, <3>1, <3>2, <3>3
  <2> QED BY <2>2, <2>3 DEF SerialInv
<1>13. RowsInv' /\ ColsInv' /\ ThreadColsInv' /\ StageInv'
  BY <1>1 DEF RowsInv, ColsInv, ThreadColsInv, StageInv
<1> QED BY <1>1, <1>2, <1>10, <1>11, <1>12, <1>13 DEF MatMulInv

\* What a step of thread t stores leaves the threads of the loop as Stored
\* says, if t itself is as it says.
LEMMA StoresForAll ==
  ASSUME NEW t \in MM!Team, NEW M \in [MM!Slots -> MM!Vectors],
         NEW out \in [MM!Slots -> MM!Vectors], NEW out2,
         NEW i \in MM!Slots, NEW v, i \in MM!StaticShare(t),
         out2 = out \/ out2 = [out EXCEPT ![i] = v],
         \A s \in MM!Team : s # t => /\ todo'[s] = todo[s] /\ inner'[s] = inner[s]
                                     /\ slot'[s] = slot[s] /\ acc'[s] = acc[s],
         \A s \in MM!Team : Stored(out, M, MM!StaticShare(s), todo[s], acc[s], Added(s)),
         Stored(out2, M, MM!StaticShare(t), todo'[t], acc'[t], Added(t)')
  PROVE  \A s \in MM!Team : Stored(out2, M, MM!StaticShare(s), todo'[s], acc'[s], Added(s)')
<1> SUFFICES ASSUME NEW s \in MM!Team, s # t
             PROVE  Stored(out2, M, MM!StaticShare(s), todo'[s], acc'[s], Added(s)')
  OBVIOUS
<1>1. Added(s)' = Added(s) /\ todo'[s] = todo[s] /\ acc'[s] = acc[s]
  BY DEF Added
<1>2. i \notin MM!StaticShare(s) /\ MM!StaticShare(s) \in SUBSET MM!Slots
  BY SharesTile
<1>3. Stored(out, M, MM!StaticShare(s), todo[s], acc[s], Added(s))
  OBVIOUS
<1>4. Stored([out EXCEPT ![i] = v], M, MM!StaticShare(s), todo[s], acc[s], Added(s))
  BY <1>2, <1>3, OthersStored
<1>5. Stored(out2, M, MM!StaticShare(s), todo[s], acc[s], Added(s))
  BY <1>3, <1>4
<1> QED BY <1>1, <1>5

\* One iteration of the inner loop in either pass, with `out` and M the rows
\* or the columns.
LEMMA PassStores ==
  ASSUME MM!TypeOK, LoopInv, stage \in {"pass1", "pass2"},
         NEW t \in MM!Team, todo[t] # {}, MM!Advance(t), UNCHANGED slot,
         NEW M \in [MM!Slots -> MM!Vectors], NEW out \in [MM!Slots -> MM!Vectors], NEW out2,
         NEW i, i = MM!Min(todo[t]), NEW j, j = inner[t],
         NEW sum, sum = MM!EvalAdd(acc[t], MM!MaskMult(M[i][j], j)),
         acc' = [acc EXCEPT ![t] = IF j = N - 1 THEN MM!Zero ELSE sum],
         out2 = IF j = N - 1 THEN [out EXCEPT ![i] = sum] ELSE out,
         \A s \in MM!Team : Stored(out, M, MM!StaticShare(s), todo[s], acc[s], Added(s))
  PROVE  /\ \A s \in MM!Team : Stored(out2, M, MM!StaticShare(s), todo'[s], acc'[s], Added(s)')
         /\ acc' \in [MM!Team -> MM!Vectors] /\ out2 \in [MM!Slots -> MM!Vectors]
<1>1. /\ \A s \in MM!Team : s # t => todo'[s] = todo[s] /\ inner'[s] = inner[s]
      /\ j < N - 1 => todo'[t] = todo[t] /\ inner'[t] = j + 1
      /\ j = N - 1 => todo'[t] = todo[t] \ {i} /\ inner'[t] = 0
      /\ j < N - 1 \/ j = N - 1
      /\ i \in todo[t] /\ j \in MM!Slots /\ j \in Nat /\ N \in Nat
  <2>1. todo \in [MM!Team -> SUBSET MM!Slots] /\ inner \in [MM!Team -> MM!Slots]
    BY DEF MM!TypeOK
  <2>2. /\ \A s \in MM!Team : s # t => todo'[s] = todo[s] /\ inner'[s] = inner[s]
        /\ j < N - 1 => todo'[t] = todo[t] /\ inner'[t] = j + 1
        /\ j = N - 1 => todo'[t] = todo[t] \ {i} /\ inner'[t] = 0
        /\ j < N - 1 \/ j = N - 1
        /\ i \in todo[t] /\ j \in MM!Slots
    BY <2>1, AdvanceMoves
  <2>3. j \in Nat /\ N \in Nat
    BY <2>2, SameWindow
  <2> QED BY <2>2, <2>3
<1>2. /\ todo[t] \in SUBSET MM!Slots /\ todo[t] \subseteq MM!StaticShare(t) /\ i \in MM!Slots
      /\ MM!StaticShare(t) \in SUBSET MM!Slots /\ i \in MM!StaticShare(t)
  BY <1>1, SharesTile DEF LoopInv, MM!TypeOK
<1>3. \A s \in MM!Team : slot[s] = MM!NoRead /\ slot'[s] = MM!NoRead
  BY DEF LoopInv
<1>4. Added(t) = j /\ Added(t)' = inner'[t]
  BY <1>3 DEF Added
<1>5. Stored(out, M, MM!StaticShare(t), todo[t], acc[t], j)
  BY <1>4
<1>6. /\ Stored(out, M, MM!StaticShare(t), todo[t], sum, j + 1)
      /\ sum \in MM!Vectors
      /\ j = N - 1 => sum = M[i]
  BY <1>1, <1>2, <1>5, IterationStores
<1>7. acc \in [MM!Team -> MM!Vectors] /\ MM!Zero \in MM!Vectors
  BY SameWindow DEF MM!TypeOK, MM!Zero
<1>8. acc'[t] = (IF j = N - 1 THEN MM!Zero ELSE sum) /\ \A s \in MM!Team : s # t => acc'[s] = acc[s]
  BY <1>7
<1>9. Stored(out2, M, MM!StaticShare(t), todo'[t], acc'[t], Added(t)')
  <2>1. CASE j = N - 1
    <3>1. Stored([out EXCEPT ![i] = M[i]], M, MM!StaticShare(t), todo[t] \ {i}, MM!Zero, 0)
      BY <1>2, <1>6, LastStores
    <3>2. out2 = [out EXCEPT ![i] = M[i]] /\ acc'[t] = MM!Zero
      BY <1>6, <1>8, <2>1
    <3>3. todo'[t] = todo[t] \ {i} /\ Added(t)' = 0
      BY <1>1, <1>4, <2>1
    <3> QED BY <3>1, <3>2, <3>3
  <2>2. CASE j < N - 1
    <3>1. out2 = out /\ acc'[t] = sum /\ todo'[t] = todo[t] /\ Added(t)' = j + 1
      BY <1>1, <1>4, <1>8, <2>2
    <3> QED BY <1>6, <3>1
  <2> QED BY <1>1, <2>1, <2>2
<1>10. out2 = out \/ out2 = [out EXCEPT ![i] = sum]
  OBVIOUS
<1>11. \A s \in MM!Team : s # t => slot'[s] = slot[s]
  OBVIOUS
<1>12. \A s \in MM!Team : Stored(out2, M, MM!StaticShare(s), todo'[s], acc'[s], Added(s)')
  <2>1. \A s \in MM!Team : s # t => /\ todo'[s] = todo[s] /\ inner'[s] = inner[s]
                                   /\ slot'[s] = slot[s] /\ acc'[s] = acc[s]
    BY <1>1, <1>8, <1>11
  <2>2. i \in MM!Slots /\ i \in MM!StaticShare(t)
    BY <1>2
  <2> QED BY <1>9, <1>10, <2>1, <2>2, StoresForAll
<1>13. acc' \in [MM!Team -> MM!Vectors] /\ out2 \in [MM!Slots -> MM!Vectors]
  <2>1. (IF j = N - 1 THEN MM!Zero ELSE sum) \in MM!Vectors
    BY <1>6, <1>7
  <2>2. acc' \in [MM!Team -> MM!Vectors]
    BY <1>7, <2>1
  <2>3. [out EXCEPT ![i] = sum] \in [MM!Slots -> MM!Vectors]
    BY <1>6
  <2> QED BY <2>2, <2>3
<1> QED BY <1>12, <1>13

\* MatMulOpenMPTwoPass, stage 1.
LEMMA Pass1Keeps == MatMulInv /\ (\E t \in MM!Team : MM!Pass1Step(t)) => MatMulInv'
<1> SUFFICES ASSUME MatMulInv, NEW t \in MM!Team, MM!Pass1Step(t) PROVE MatMulInv'
  OBVIOUS
<1> DEFINE i == MM!Min(todo[t])
           j == inner[t]
           sum == MM!EvalAdd(acc[t], MM!MaskMult(TheProduct[i][j], j))
<1>1. /\ stage = "pass1" /\ stage' = stage /\ todo[t] # {}
      /\ UNCHANGED <<variant, A, B, slot, thread_cols, out_cols>>
      /\ MM!Advance(t)
  BY DEF MM!Pass1Step, MM!inputs
<1>2. MM!TypeOK /\ LoopInv /\ RowsInv /\ A \in MM!Matrices /\ B \in MM!Matrices
  BY DEF MatMulInv
<1>3. MM!Cij(i, j) = TheProduct[i][j]
  BY <1>1, LoopFacts
<1>4. /\ acc' = [acc EXCEPT ![t] = IF j = N - 1 THEN MM!Zero ELSE sum]
      /\ out_rows' = IF j = N - 1 THEN [out_rows EXCEPT ![i] = sum] ELSE out_rows
  BY <1>3 DEF MM!Pass1Step
<1>5. TheProduct \in [MM!Slots -> MM!Vectors] /\ out_rows \in [MM!Slots -> MM!Vectors]
  BY <1>2, ProductFacts DEF MM!TypeOK
<1>6. \A s \in MM!Team : Stored(out_rows, TheProduct, MM!StaticShare(s), todo[s], acc[s], Added(s))
  BY <1>1, <1>2 DEF RowsInv
<1>7. TheProduct' = TheProduct
  BY <1>1, SameProduct
<1>8. /\ \A s \in MM!Team : Stored(out_rows', TheProduct, MM!StaticShare(s), todo'[s], acc'[s], Added(s)')
      /\ acc' \in [MM!Team -> MM!Vectors] /\ out_rows' \in [MM!Slots -> MM!Vectors]
  <2> HIDE DEF i, j, sum
  <2>1. i = MM!Min(todo[t]) /\ j = inner[t] /\ sum = MM!EvalAdd(acc[t], MM!MaskMult(TheProduct[i][j], j))
    BY DEF i, j, sum
  <2> QED BY <1>1, <1>2, <1>4, <1>5, <1>6, <2>1, PassStores
<1>9. MM!TypeOK'
  <2>1. todo' \in [MM!Team -> SUBSET MM!Slots] /\ inner' \in [MM!Team -> MM!Slots]
    BY <1>1, <1>2, AdvanceMoves DEF MM!TypeOK
  <2> QED BY <1>1, <1>2, <1>8, <2>1 DEF MM!TypeOK
<1>10. LoopInv'
  <2>1. \A s \in MM!Team : slot'[s] = IF s = t THEN MM!NoRead ELSE slot[s]
    BY <1>1, <1>2 DEF LoopInv
  <2> QED BY <1>1, <1>2, <2>1, LoopAdvances
<1>11. RowsInv'
  BY <1>7, <1>8 DEF RowsInv
<1>12. SerialInv' /\ ColsInv' /\ ThreadColsInv' /\ StageInv'
  BY <1>1 DEF SerialInv, ColsInv, ThreadColsInv, StageInv
<1> QED BY <1>1, <1>2, <1>9, <1>10, <1>11, <1>12 DEF MatMulInv

\* Stage 2.
LEMMA Pass2Keeps == MatMulInv /\ (\E t \in MM!Team : MM!Pass2Step(t)) => MatMulInv'
<1> SUFFICES ASSUME MatMulInv, NEW t \in MM!Team, MM!Pass2Step(t) PROVE MatMulInv'
  OBVIOUS
<1> DEFINE j == MM!Min(todo[t])
           i == inner[t]
           sum == MM!EvalAdd(acc[t], MM!MaskMult(TheColumns[j][i], i))
<1>1. /\ stage = "pass2" /\ stage' = stage /\ todo[t] # {}
      /\ UNCHANGED <<variant, A, B, slot, thread_cols, out_rows>>
      /\ MM!Advance(t)
  BY DEF MM!Pass2Step, MM!inputs
<1>2. MM!TypeOK /\ LoopInv /\ ColsInv /\ StageInv /\ A \in MM!Matrices /\ B \in MM!Matrices
  BY DEF MatMulInv
<1>3. MM!Cij(i, j) = TheColumns[j][i]
  <2>1. i \in MM!Slots /\ j \in MM!Slots /\ MM!Cij(i, j) = TheProduct[i][j]
    BY <1>1, LoopFacts
  <2> QED BY <1>2, <2>1, ProductFacts
<1>4. /\ acc' = [acc EXCEPT ![t] = IF i = N - 1 THEN MM!Zero ELSE sum]
      /\ out_cols' = IF i = N - 1 THEN [out_cols EXCEPT ![j] = sum] ELSE out_cols
  BY <1>3 DEF MM!Pass2Step
<1>5. TheColumns \in [MM!Slots -> MM!Vectors] /\ out_cols \in [MM!Slots -> MM!Vectors]
  BY <1>2, ProductFacts DEF MM!TypeOK
<1>6. \A s \in MM!Team : Stored(out_cols, TheColumns, MM!StaticShare(s), todo[s], acc[s], Added(s))
  BY <1>1, <1>2 DEF ColsInv
<1>7. TheColumns' = TheColumns /\ TheProduct' = TheProduct
  BY <1>1, SameProduct
<1>8. /\ \A s \in MM!Team : Stored(out_cols', TheColumns, MM!StaticShare(s), todo'[s], acc'[s], Added(s)')
      /\ acc' \in [MM!Team -> MM!Vectors] /\ out_cols' \in [MM!Slots -> MM!Vectors]
  <2> HIDE DEF i, j, sum
  <2>1. j = MM!Min(todo[t]) /\ i = inner[t] /\ sum = MM!EvalAdd(acc[t], MM!MaskMult(TheColumns[j][i], i))
    BY DEF i, j, sum
  <2> QED BY <1>1, <1>2, <1>4, <1>5, <1>6, <2>1, PassStores
<1>9. MM!TypeOK'
  <2>1. todo' \in [MM!Team -> SUBSET MM!Slots] /\ inner' \in [MM!Team -> MM!Slots]
    BY <1>1, <1>2, AdvanceMoves DEF MM!TypeOK
  <2> QED BY <1>1, <1>2, <1>8, <2>1 DEF MM!TypeOK
<1>10. LoopInv'
  <2>1. \A s \in MM!Team : slot'[s] = IF s = t THEN MM!NoRead ELSE slot[s]
    BY <1>1, <1>2 DEF LoopInv
  <2> QED BY <1>1, <1>2, <2>1, LoopAdvances
<1>11. ColsInv'
  BY <1>7, <1>8 DEF ColsInv
<1>12. SerialInv' /\ RowsInv' /\ ThreadColsInv' /\ StageInv'
  BY <1>1, <1>2, <1>7 DEF SerialInv, RowsInv, ThreadColsInv, StageInv
<1> QED BY <1>1, <1>2, <1>9, <1>10, <1>11, <1>12 DEF MatMulInv

\* MatMulOpenMPOptimized: a thread adds the cell to its row and reads its
\* accumulator of the column.
LEMMA ReadSlotKeeps == MatMulInv /\ (\E t \in MM!Team : MM!RowsReadSlot(t)) => MatMulInv'
<1> SUFFICES ASSUME MatMulInv, NEW t \in MM!Team, MM!RowsReadSlot(t) PROVE MatMulInv'
  OBVIOUS
<1> DEFINE i == MM!Min(todo[t])
           j == inner[t]
           sum == MM!EvalAdd(acc[t], MM!MaskMult(TheProduct[i][j], j))
<1>1. /\ stage = "rows" /\ stage' = stage /\ todo[t] # {} /\ slot[t] = MM!NoRead
      /\ UNCHANGED <<variant, A, B, todo, inner, thread_cols, out_rows, out_cols>>
  BY DEF MM!RowsReadSlot, MM!inputs
<1>2. /\ MM!TypeOK /\ LoopInv /\ RowsInv /\ ThreadColsInv
      /\ A \in MM!Matrices /\ B \in MM!Matrices
  BY DEF MatMulInv
<1>3. /\ i \in todo[t] /\ i \in MM!Slots /\ todo[t] \in SUBSET MM!Slots
      /\ j \in MM!Slots /\ j \in Nat /\ MM!Cij(i, j) = TheProduct[i][j]
  BY <1>1, LoopFacts
<1>4. slot' = [slot EXCEPT ![t] = thread_cols[t][j]] /\ acc' = [acc EXCEPT ![t] = sum]
  BY <1>3 DEF MM!RowsReadSlot, MM!ColumnsOf
<1>5. /\ TheProduct \in [MM!Slots -> MM!Vectors] /\ out_rows \in [MM!Slots -> MM!Vectors]
      /\ acc \in [MM!Team -> MM!Vectors] /\ slot \in [MM!Team -> MM!Vectors \cup {MM!NoRead}]
      /\ thread_cols[t][j] \in MM!Vectors
  BY <1>2, <1>3, ProductFacts DEF MM!TypeOK
<1>6. \A s \in MM!Team : Stored(out_rows, TheProduct, MM!StaticShare(s), todo[s], acc[s], Added(s))
  BY <1>1, <1>2 DEF RowsInv
<1>7. todo[t] \subseteq MM!StaticShare(t) /\ MM!StaticShare(t) \in SUBSET MM!Slots
  BY <1>1, <1>2, SharesTile DEF LoopInv
<1>8. TheProduct' = TheProduct
  BY <1>1, SameProduct
<1> HIDE DEF i, j
<1>9. /\ Stored(out_rows, TheProduct, MM!StaticShare(t), todo[t], sum, j + 1)
      /\ sum \in MM!Vectors
  <2>1. Stored(out_rows, TheProduct, MM!StaticShare(t), todo[t], acc[t], j)
    BY <1>1, <1>6 DEF Added, j
  <2> QED BY <1>1, <1>3, <1>5, <1>7, <2>1, IterationStores DEF i
<1> HIDE DEF sum
<1>10. thread_cols[t][j] # MM!NoRead
  BY <1>5, NoReadIsNoVector
<1>11. /\ slot'[t] = thread_cols[t][j] /\ acc'[t] = sum
       /\ \A s \in MM!Team : s # t => slot'[s] = slot[s] /\ acc'[s] = acc[s]
  BY <1>4, <1>5
<1>12. MM!TypeOK'
  <2>1. acc' \in [MM!Team -> MM!Vectors] /\ slot' \in [MM!Team -> MM!Vectors \cup {MM!NoRead}]
    BY <1>4, <1>5, <1>9
  <2> QED BY <1>1, <1>2, <2>1 DEF MM!TypeOK
<1>13. LoopInv'
  BY <1>1, <1>2, <1>11 DEF LoopInv
<1>14. RowsInv'
  <2>1. Added(t)' = j + 1
    BY <1>1, <1>10, <1>11 DEF Added, j
  <2>2. Stored(out_rows, TheProduct, MM!StaticShare(t), todo'[t], acc'[t], Added(t)')
    BY <1>1, <1>9, <1>11, <2>1
  <2>3. \A s \in MM!Team : s # t => todo'[s] = todo[s] /\ inner'[s] = inner[s]
    BY <1>1
  <2>4. i \in MM!StaticShare(t) /\ i \in MM!Slots
    BY <1>3, <1>7
  <2>5. \A s \in MM!Team : Stored(out_rows, TheProduct, MM!StaticShare(s), todo'[s], acc'[s], Added(s)')
    BY <1>5, <1>6, <1>11, <2>2, <2>3, <2>4, StoresForAll
  <2> QED BY <1>1, <1>8, <2>5 DEF RowsInv
<1>15. ThreadColsInv'
  <2>1. \A s \in MM!Team : slot'[s] # MM!NoRead => slot'[s] = thread_cols'[s][inner'[s]]
    BY <1>1, <1>2, <1>11 DEF ThreadColsInv, j
  <2>2. \A s \in MM!Team : \A a, b \in MM!Slots : PastCell(s, a, b)' <=> PastCell(s, a, b)
    BY <1>1 DEF PastCell
  <2>3. \A s \in MM!Team : \A a, b \in MM!Slots :
          thread_cols'[s][b][a] = IF a \in MM!StaticShare(s) /\ PastCell(s, a, b)'
                                  THEN TheProduct'[a][b] ELSE 0
    BY <1>1, <1>2, <1>8, <2>2 DEF ThreadColsInv
  <2> QED BY <2>1, <2>3 DEF ThreadColsInv
<1>16. SerialInv' /\ ColsInv' /\ StageInv'
  BY <1>1 DEF SerialInv, ColsInv, StageInv
<1> QED BY <1>1, <1>2, <1>12, <1>13, <1>14, <1>15, <1>16 DEF MatMulInv

\* ... and writes it back, and stores the row at its end.
LEMMA WriteSlotKeeps == MatMulInv /\ (\E t \in MM!Team : MM!RowsWriteSlot(t)) => MatMulInv'
<1> SUFFICES ASSUME MatMulInv, NEW t \in MM!Team, MM!RowsWriteSlot(t) PROVE MatMulInv'
  OBVIOUS
<1> DEFINE i == MM!Min(todo[t])
           j == inner[t]
           c == TheProduct[i][j]
<1>2. /\ MM!TypeOK /\ LoopInv /\ RowsInv /\ ThreadColsInv
      /\ A \in MM!Matrices /\ B \in MM!Matrices
  BY DEF MatMulInv
<1>1. /\ stage = "rows" /\ stage' = stage /\ todo[t] # {} /\ slot[t] # MM!NoRead
      /\ UNCHANGED <<variant, A, B, out_cols>>
      /\ MM!Advance(t)
  BY <1>2 DEF MM!RowsWriteSlot, MM!inputs, LoopInv
<1>3. /\ i \in todo[t] /\ i \in MM!Slots /\ todo[t] \in SUBSET MM!Slots
      /\ j \in MM!Slots /\ j \in Nat /\ MM!Cij(i, j) = c /\ c \in {0, 1}
  BY <1>1, LoopFacts
<1>4. /\ thread_cols' = [thread_cols EXCEPT ![t][j] = MM!EvalAdd(slot[t], MM!MaskMult(c, i))]
      /\ slot' = [slot EXCEPT ![t] = MM!NoRead]
      /\ out_rows' = IF j = N - 1 THEN [out_rows EXCEPT ![i] = acc[t]] ELSE out_rows
      /\ acc' = [acc EXCEPT ![t] = IF j = N - 1 THEN MM!Zero ELSE @]
  BY <1>3 DEF MM!RowsWriteSlot, MM!ColumnsOf
<1>5. /\ TheProduct \in [MM!Slots -> MM!Vectors] /\ out_rows \in [MM!Slots -> MM!Vectors]
      /\ acc \in [MM!Team -> MM!Vectors] /\ slot \in [MM!Team -> MM!Vectors \cup {MM!NoRead}]
      /\ thread_cols \in [MM!Team -> [MM!Slots -> MM!Vectors]]
      /\ todo \in [MM!Team -> SUBSET MM!Slots] /\ inner \in [MM!Team -> MM!Slots]
  BY <1>2, ProductFacts DEF MM!TypeOK
<1>6. \A s \in MM!Team : Stored(out_rows, TheProduct, MM!StaticShare(s), todo[s], acc[s], Added(s))
  BY <1>1, <1>2 DEF RowsInv
<1>7. todo[t] \subseteq MM!StaticShare(t) /\ MM!StaticShare(t) \in SUBSET MM!Slots
  BY <1>1, <1>2, SharesTile DEF LoopInv
<1>8. TheProduct' = TheProduct
  BY <1>1, SameProduct
<1>9. /\ \A s \in MM!Team : s # t => todo'[s] = todo[s] /\ inner'[s] = inner[s]
      /\ j < N - 1 => todo'[t] = todo[t] /\ inner'[t] = j + 1
      /\ j = N - 1 => todo'[t] = todo[t] \ {i} /\ inner'[t] = 0
      /\ j < N - 1 \/ j = N - 1
      /\ todo' \in [MM!Team -> SUBSET MM!Slots] /\ inner' \in [MM!Team -> MM!Slots]
  BY <1>1, <1>5, AdvanceMoves
<1>10. /\ \A s \in MM!Team : \A a, b \in MM!Slots :
            PastCell(s, a, b)' <=> PastCell(s, a, b) \/ (s = t /\ a = i /\ b = j)
       /\ ~ PastCell(t, i, j)
  BY <1>1, <1>5, PastAdvances
<1>11. slot[t] = thread_cols[t][j] /\ slot[t] \in MM!Vectors /\ slot[t][i] = 0
  BY <1>1, <1>2, <1>3, <1>5, <1>10 DEF ThreadColsInv
<1> HIDE DEF i, j, c
<1>12. /\ slot'[t] = MM!NoRead /\ acc'[t] = (IF j = N - 1 THEN MM!Zero ELSE acc[t])
       /\ \A s \in MM!Team : s # t => slot'[s] = slot[s] /\ acc'[s] = acc[s]
  BY <1>4, <1>5
<1>13. MM!EvalAdd(slot[t], MM!MaskMult(c, i)) = [thread_cols[t][j] EXCEPT ![i] = c]
       /\ MM!EvalAdd(slot[t], MM!MaskMult(c, i)) \in MM!Vectors
  BY <1>3, <1>11, AddBit
<1>14. /\ Stored(out_rows, TheProduct, MM!StaticShare(t), todo[t], acc[t], j + 1)
       /\ acc[t] \in MM!Vectors
       /\ j = N - 1 => acc[t] = TheProduct[i]
  <2>1. Added(t) = j + 1
    BY <1>1 DEF Added, j
  <2>2. Stored(out_rows, TheProduct, MM!StaticShare(t), todo[t], acc[t], j + 1)
    BY <1>6, <2>1
  <2>3. acc[t] = UpTo(TheProduct[i], j + 1) /\ UpTo(TheProduct[i], N) = TheProduct[i]
    BY <1>1, <1>3, <1>5, <2>2, AddPiece DEF Stored, i
  <2>4. j = N - 1 => j + 1 = N
    BY SameWindow
  <2> QED BY <1>5, <2>2, <2>3, <2>4
<1>15. MM!TypeOK'
  <2>1. (IF j = N - 1 THEN MM!Zero ELSE acc[t]) \in MM!Vectors
    BY <1>14, SameWindow DEF MM!Zero
  <2>2. acc' \in [MM!Team -> MM!Vectors]
    BY <1>4, <1>5, <2>1
  <2>3. slot' \in [MM!Team -> MM!Vectors \cup {MM!NoRead}]
    BY <1>4, <1>5
  <2>4. out_rows' \in [MM!Slots -> MM!Vectors]
    BY <1>4, <1>5, <1>14
  <2>5. thread_cols' \in [MM!Team -> [MM!Slots -> MM!Vectors]]
    BY <1>3, <1>4, <1>5, <1>13
  <2> QED BY <1>1, <1>2, <1>9, <2>2, <2>3, <2>4, <2>5 DEF MM!TypeOK
<1>16. LoopInv'
  <2>1. \A s \in MM!Team : slot'[s] = IF s = t THEN MM!NoRead ELSE slot[s]
    BY <1>12
  <2> QED BY <1>1, <1>2, <2>1, LoopAdvances
<1>17. RowsInv'
  <2>1. Added(t)' = inner'[t]
    BY <1>12 DEF Added
  <2>2. Stored(out_rows', TheProduct, MM!StaticShare(t), todo'[t], acc'[t], Added(t)')
    <3>1. CASE j = N - 1
      <4>1. Stored([out_rows EXCEPT ![i] = TheProduct[i]], TheProduct, MM!StaticShare(t),
                   todo[t] \ {i}, MM!Zero, 0)
        BY <1>1, <1>3, <1>5, <1>7, <1>14, LastStores DEF i
      <4>2. out_rows' = [out_rows EXCEPT ![i] = TheProduct[i]] /\ acc'[t] = MM!Zero
        BY <1>4, <1>12, <1>14, <3>1
      <4>3. todo'[t] = todo[t] \ {i} /\ Added(t)' = 0
        BY <1>9, <2>1, <3>1
      <4> QED BY <4>1, <4>2, <4>3
    <3>2. CASE j < N - 1
      <4>1. j # N - 1
        BY <1>3, <3>2, SameWindow
      <4>2. out_rows' = out_rows /\ acc'[t] = acc[t] /\ todo'[t] = todo[t] /\ Added(t)' = j + 1
        BY <1>4, <1>9, <1>12, <2>1, <3>2, <4>1
      <4> QED BY <1>14, <4>2
    <3> QED BY <1>9, <3>1, <3>2
  <2>3. out_rows' = out_rows \/ out_rows' = [out_rows EXCEPT ![i] = acc[t]]
    BY <1>4
  <2>4. i \in MM!StaticShare(t) /\ i \in MM!Slots
    BY <1>3, <1>7
  <2>5. \A s \in MM!Team : Stored(out_rows', TheProduct, MM!StaticShare(s), todo'[s], acc'[s], Added(s)')
    BY <1>5, <1>6, <1>9, <1>12, <2>2, <2>3, <2>4, StoresForAll
  <2> QED BY <1>8, <2>5 DEF RowsInv
<1>18. ThreadColsInv'
  <2>1. /\ \A s \in MM!Team : s # t => thread_cols'[s] = thread_cols[s]
        /\ \A a, b \in MM!Slots :
             thread_cols'[t][b][a] = IF a = i /\ b = j THEN c ELSE thread_cols[t][b][a]
    <3>1. /\ \A s \in MM!Team : s # t => thread_cols'[s] = thread_cols[s]
          /\ thread_cols'[t] = [thread_cols[t] EXCEPT ![j] = [thread_cols[t][j] EXCEPT ![i] = c]]
      BY <1>4, <1>5, <1>13
    <3>2. thread_cols[t] \in [MM!Slots -> MM!Vectors]
      BY <1>5
    <3> QED BY <1>3, <3>1, <3>2, SameWindow
  <2>2. \A s \in MM!Team : slot'[s] # MM!NoRead => slot'[s] = thread_cols'[s][inner'[s]]
    BY <1>1, <1>2, <1>9, <1>12, <2>1 DEF ThreadColsInv
  <2>3. ASSUME NEW s \in MM!Team, NEW a \in MM!Slots, NEW b \in MM!Slots
        PROVE  thread_cols'[s][b][a] = IF a \in MM!StaticShare(s) /\ PastCell(s, a, b)'
                                       THEN TheProduct[a][b] ELSE 0
    <3>1. thread_cols[s][b][a] = IF a \in MM!StaticShare(s) /\ PastCell(s, a, b)
                                 THEN TheProduct[a][b] ELSE 0
      BY <1>1, <1>2 DEF ThreadColsInv
    <3>2. PastCell(s, a, b)' <=> PastCell(s, a, b) \/ (s = t /\ a = i /\ b = j)
      BY <1>10
    <3>3. i \in MM!StaticShare(t)
      BY <1>3, <1>7
    <3>4. c = TheProduct[i][j]
      BY DEF c
    <3>5. CASE s = t
      BY <2>1, <3>1, <3>2, <3>3, <3>4, <3>5
    <3>6. CASE s # t
      BY <2>1, <3>1, <3>2, <3>6
    <3> QED BY <3>5, <3>6
  <2> QED BY <1>8, <2>2, <2>3 DEF ThreadColsInv
<1>19. SerialInv' /\ ColsInv' /\ StageInv'
  BY <1>1 DEF SerialInv, ColsInv, StageInv
<1> QED BY <1>1, <1>2, <1>15, <1>16, <1>17, <1>18, <1>19 DEF MatMulInv

\* At a barrier every thread has stored its whole share, hence all of it is.
LEMMA AllStored ==
  ASSUME MM!TypeOK, LoopInv, \A t \in MM!Team : todo[t] = {},
         NEW M \in [MM!Slots -> MM!Vectors], NEW out \in [MM!Slots -> MM!Vectors],
         \A t \in MM!Team : Stored(out, M, MM!StaticShare(t), todo[t], acc[t], Added(t))
  PROVE  out = M /\ \A t \in MM!Team : acc[t] = MM!Zero /\ inner[t] = 0 /\ slot[t] = MM!NoRead
<1>1. ASSUME NEW i \in MM!Slots PROVE out[i] = M[i]
  <2>1. PICK t \in MM!Team : i \in MM!StaticShare(t)
    BY SharesTile
  <2> QED BY <2>1 DEF Stored
<1>2. out = M
  BY <1>1
<1>3. \A t \in MM!Team : acc[t] = MM!Zero /\ inner[t] = 0 /\ slot[t] = MM!NoRead
  BY DEF Stored, LoopInv
<1> QED BY <1>2, <1>3

\* The barrier at the end of a parallel loop.
LEMMA EndLoopKeeps == MatMulInv /\ MM!EndLoop => MatMulInv'
<1> SUFFICES ASSUME MatMulInv, MM!EndLoop PROVE MatMulInv'
  OBVIOUS
<1>1. /\ stage \in {"serial", "pass1", "pass2", "rows"}
      /\ \A t \in MM!Team : todo[t] = {}
      /\ UNCHANGED <<variant, A, B, inner, acc, slot, thread_cols, out_rows, out_cols>>
  BY DEF MM!EndLoop, MM!inputs
<1>2. /\ MM!TypeOK /\ LoopInv /\ SerialInv /\ RowsInv /\ ColsInv /\ ThreadColsInv /\ StageInv
      /\ A \in MM!Matrices /\ B \in MM!Matrices
  BY DEF MatMulInv
<1>3. /\ TheProduct \in [MM!Slots -> MM!Vectors] /\ TheColumns \in [MM!Slots -> MM!Vectors]
      /\ out_rows \in [MM!Slots -> MM!Vectors] /\ out_cols \in [MM!Slots -> MM!Vectors]
  BY <1>2, ProductFacts DEF MM!TypeOK
<1>4. TheProduct' = TheProduct /\ TheColumns' = TheColumns
  BY <1>1, SameProduct
<1>5. CASE stage = "serial"
  <2>1. stage' = "done" /\ todo' = todo
    BY <1>5 DEF MM!EndLoop
  <2>2. MM!TypeOK'
    BY <1>1, <1>2, <2>1 DEF MM!TypeOK
  <2>3. \A i, j \in MM!Slots : PastCell(0, i, j)
    BY <1>1, SameWindow DEF PastCell
  <2>4. \A i, j \in MM!Slots : out_rows[i][j] = TheProduct[i][j] /\ out_cols[j][i] = TheProduct[i][j]
    BY <1>2, <1>5, <2>3 DEF SerialInv
  <2>5. out_rows = TheProduct
    <3>1. \A i \in MM!Slots : out_rows[i] = TheProduct[i]
      <4> SUFFICES ASSUME NEW i \in MM!Slots PROVE out_rows[i] = TheProduct[i]
        OBVIOUS
      <4>1. /\ out_rows[i] \in [MM!Slots -> {0, 1}] /\ TheProduct[i] \in [MM!Slots -> {0, 1}]
            /\ \A j \in MM!Slots : out_rows[i][j] = TheProduct[i][j]
        BY <1>3, <2>4, SameWindow
      <4> QED BY <4>1
    <3> QED BY <1>3, <3>1
  <2>6. out_cols = TheColumns
    <3>1. \A j \in MM!Slots : out_cols[j] = TheColumns[j]
      <4> SUFFICES ASSUME NEW j \in MM!Slots PROVE out_cols[j] = TheColumns[j]
        OBVIOUS
      <4>1. /\ out_cols[j] \in [MM!Slots -> {0, 1}] /\ TheColumns[j] \in [MM!Slots -> {0, 1}]
            /\ \A i \in MM!Slots : out_cols[j][i] = TheColumns[j][i]
        BY <1>2, <1>3, <2>4, ProductFacts, SameWindow
      <4> QED BY <4>1
    <3> QED BY <1>3, <3>1
  <2>7. LoopInv' /\ SerialInv' /\ RowsInv' /\ ColsInv' /\ ThreadColsInv'
    BY <1>1, <1>2, <1>5, <2>1 DEF LoopInv, SerialInv, RowsInv, ColsInv, ThreadColsInv
  <2>8. StageInv'
    BY <1>1, <1>4, <2>1, <2>5, <2>6 DEF StageInv
  <2> QED BY <1>1, <1>2, <2>2, <2>7, <2>8 DEF MatMulInv
<1>6. CASE stage = "pass1"
  <2>1. stage' = "pass2" /\ todo' = [t \in MM!Team |-> MM!StaticShare(t)]
    BY <1>6 DEF MM!EndLoop, MM!Loop
  <2>2. /\ out_rows = TheProduct
        /\ \A t \in MM!Team : acc[t] = MM!Zero /\ inner[t] = 0 /\ slot[t] = MM!NoRead
    BY <1>1, <1>2, <1>3, <1>6, AllStored DEF RowsInv
  <2>3. \A t \in MM!Team : todo'[t] = MM!StaticShare(t) /\ todo'[t] \subseteq MM!Slots
    BY <2>1, SharesTile
  <2>4. MM!TypeOK'
    BY <1>1, <1>2, <2>1, <2>3 DEF MM!TypeOK
  <2>5. LoopInv'
    BY <1>1, <2>1, <2>2, <2>3 DEF LoopInv
  <2>6. ColsInv'
    <3> SUFFICES ASSUME NEW t \in MM!Team
                 PROVE  Stored(out_cols, TheColumns, MM!StaticShare(t), todo'[t], acc[t], Added(t)')
      BY <1>1, <1>4 DEF ColsInv
    <3>1. Added(t)' = 0 /\ acc[t] = MM!Zero
      BY <1>1, <2>2 DEF Added
    <3>2. todo'[t] # {} => MM!Zero = UpTo(TheColumns[MM!Min(todo'[t])], 0)
      <4> SUFFICES ASSUME todo'[t] # {} PROVE MM!Zero = UpTo(TheColumns[MM!Min(todo'[t])], 0)
        OBVIOUS
      <4>1. TheColumns[MM!Min(todo'[t])] \in MM!Vectors
        BY <1>3, <2>3, MinOf
      <4> QED BY <4>1, AddPiece, SameWindow
    <3> QED BY <2>3, <3>1, <3>2 DEF Stored
  <2>7. SerialInv' /\ RowsInv' /\ ThreadColsInv'
    BY <2>1 DEF SerialInv, RowsInv, ThreadColsInv
  <2>8. StageInv'
    BY <1>1, <1>4, <2>1, <2>2 DEF StageInv
  <2> QED BY <1>1, <1>2, <2>4, <2>5, <2>6, <2>7, <2>8 DEF MatMulInv
<1>7. CASE stage = "pass2"
  <2>1. stage' = "done" /\ todo' = todo
    BY <1>7 DEF MM!EndLoop
  <2>2. out_cols = TheColumns /\ out_rows = TheProduct
    BY <1>1, <1>2, <1>3, <1>7, AllStored DEF ColsInv, StageInv
  <2>3. MM!TypeOK'
    BY <1>1, <1>2, <2>1 DEF MM!TypeOK
  <2>4. LoopInv' /\ SerialInv' /\ RowsInv' /\ ColsInv' /\ ThreadColsInv'
    BY <1>1, <1>2, <1>7, <2>1 DEF LoopInv, SerialInv, RowsInv, ColsInv, ThreadColsInv
  <2>5. StageInv'
    BY <1>1, <1>4, <2>1, <2>2 DEF StageInv
  <2> QED BY <1>1, <1>2, <2>3, <2>4, <2>5 DEF MatMulInv
<1>8. CASE stage = "rows"
  <2>1. stage' = "reduce" /\ todo' = todo
    BY <1>8 DEF MM!EndLoop
  <2>2. /\ out_rows = TheProduct
        /\ \A t \in MM!Team : acc[t] = MM!Zero /\ inner[t] = 0 /\ slot[t] = MM!NoRead
    BY <1>1, <1>2, <1>3, <1>8, AllStored DEF RowsInv
  <2>3. MM!TypeOK'
    BY <1>1, <1>2, <2>1 DEF MM!TypeOK
  <2>4. LoopInv' /\ SerialInv' /\ RowsInv' /\ ColsInv'
    BY <1>1, <1>2, <2>1, <2>2 DEF LoopInv, SerialInv, RowsInv, ColsInv
  <2>5. \A t \in MM!Team : \A i, j \in MM!Slots : PastCell(t, i, j)' <=> PastCell(t, i, j)
    BY <1>1, <2>1 DEF PastCell
  <2>6. ThreadColsInv'
    BY <1>1, <1>2, <1>4, <1>8, <2>5 DEF ThreadColsInv
  <2>7. StageInv'
    BY <1>1, <1>4, <2>1, <2>2 DEF StageInv
  <2> QED BY <1>1, <1>2, <2>3, <2>4, <2>6, <2>7 DEF MatMulInv
<1> QED BY <1>1, <1>5, <1>6, <1>7, <1>8

\* What the fold of EvalAdd computes on the subsets of S.
AddsUp(it, v, S) == it[{}] = MM!Zero /\ \A s \in SUBSET S : s # {} =>
                                          \E x \in s : it[s] = MM!EvalAdd(v[x], it[s \ {x}])

\* At most one of the vectors, that of thread p[k], is not 0 in slot k.
OneEach(v, p, w, S) == \A x \in S : \A k \in MM!Slots : v[x][k] = IF x = p[k] THEN w[k] ELSE 0

\* The sum of such vectors.
LEMMA SumOverThreads ==
  ASSUME NEW S, NEW v, NEW p, NEW w \in MM!Vectors, NEW it,
         IsFiniteSet(S) /\ OneEach(v, p, w, S) /\ AddsUp(it, v, S)
  PROVE  it[S] = [k \in MM!Slots |-> IF p[k] \in S THEN w[k] ELSE 0]
<1> DEFINE Here(s) == [k \in MM!Slots |-> IF p[k] \in s THEN w[k] ELSE 0]
           Bad == {s \in SUBSET S : it[s] # Here(s)}
<1>1. \A k \in MM!Slots : w[k] \in Nat
  BY SameWindow
<1>2. Bad = {}
  <2> SUFFICES ASSUME Bad # {} PROVE FALSE
    OBVIOUS
  <2>1. PICK s \in Bad : \A U \in Bad : ~(U \subseteq s /\ U # s)
    <3>1. Bad \subseteq SUBSET S
      OBVIOUS
    <3> HIDE DEF Bad
    <3> QED BY <3>1, LeastSubset
  <2>2. CASE s = {}
    <3>1. Here({}) = MM!Zero
      BY DEF MM!Zero
    <3> QED BY <2>1, <2>2, <3>1 DEF AddsUp
  <2>3. CASE s # {}
    <3>2. PICK x \in s : it[s] = MM!EvalAdd(v[x], it[s \ {x}])
      BY <2>1, <2>3 DEF AddsUp
    <3>1. x \in s
      OBVIOUS
    <3>3. it[s \ {x}] = Here(s \ {x})
      <4>1. s \ {x} \in SUBSET S /\ s \ {x} \subseteq s /\ s \ {x} # s
        BY <2>1, <3>1
      <4>2. s \ {x} \notin Bad
        BY <2>1, <4>1
      <4> QED BY <4>1, <4>2
    <3>4. \A k \in MM!Slots : v[x][k] = (IF x = p[k] THEN w[k] ELSE 0)
      <4>1. x \in S
        BY <2>1, <3>1
      <4> QED BY <4>1 DEF OneEach
    <3>5. \A k \in MM!Slots : w[k] \in Nat
      BY <1>1
    <3>6. MM!EvalAdd(v[x], Here(s \ {x})) = Here(s)
      <4>1. MM!EvalAdd(v[x], Here(s \ {x}))
              = [k \in MM!Slots |-> v[x][k] + (IF p[k] \in s \ {x} THEN w[k] ELSE 0)]
        BY DEF MM!EvalAdd
      <4>2. ASSUME NEW k \in MM!Slots
            PROVE  v[x][k] + (IF p[k] \in s \ {x} THEN w[k] ELSE 0) = IF p[k] \in s THEN w[k] ELSE 0
        BY <3>1, <3>4, <3>5
      <4> QED BY <4>1, <4>2
    <3> QED BY <2>1, <3>2, <3>3, <3>6
  <2> QED BY <2>2, <2>3
<1> QED BY <1>2

\* The reduction of the thread-local accumulators of one column.
LEMMA ReduceColumn ==
  ASSUME NEW v \in [MM!Team -> MM!Vectors], NEW p \in [MM!Slots -> MM!Team], NEW w \in MM!Vectors,
         \A t \in MM!Team : \A k \in MM!Slots : v[t][k] = IF t = p[k] THEN w[k] ELSE 0
  PROVE  MM!FoldFunction(MM!EvalAdd, MM!Zero, v) = w
<1> DEFINE Rec(g) == [s \in SUBSET MM!Team |-> IF s = {} THEN MM!Zero
                       ELSE MM!EvalAdd(v[CHOOSE x \in s : TRUE], g[s \ {CHOOSE x \in s : TRUE}])]
           it == CHOOSE g : g = Rec(g)
<1>1. DOMAIN v = MM!Team /\ IsFiniteSet(MM!Team)
  BY FS_Interval, SameWindow
<1>2. MM!FoldFunction(MM!EvalAdd, MM!Zero, v) = it[MM!Team]
  BY <1>1 DEF MM!FoldFunction, MM!FoldFunctionOnSet, MM!MapThenFoldSet
<1>3. it = Rec(it)
  <2> DEFINE sum == [s \in SUBSET MM!Team |-> [k \in MM!Slots |-> IF p[k] \in s THEN w[k] ELSE 0]]
  <2>1. ASSUME NEW s \in SUBSET MM!Team PROVE sum[s] = Rec(sum)[s]
    <3>1. CASE s = {}
      BY <3>1 DEF MM!Zero
    <3>2. CASE s # {}
      <4> DEFINE x == CHOOSE y \in s : TRUE
      <4>1. x \in s /\ Rec(sum)[s] = MM!EvalAdd(v[x], sum[s \ {x}])
        BY <3>2
      <4> HIDE DEF x
      <4>2. \A k \in MM!Slots : v[x][k] = (IF x = p[k] THEN w[k] ELSE 0) /\ w[k] \in Nat
        BY <4>1, SameWindow
      <4>3. MM!EvalAdd(v[x], sum[s \ {x}])
              = [k \in MM!Slots |-> v[x][k] + (IF p[k] \in s \ {x} THEN w[k] ELSE 0)]
        BY DEF MM!EvalAdd
      <4>4. ASSUME NEW k \in MM!Slots
            PROVE  v[x][k] + (IF p[k] \in s \ {x} THEN w[k] ELSE 0) = IF p[k] \in s THEN w[k] ELSE 0
        BY <4>1, <4>2
      <4>5. MM!EvalAdd(v[x], sum[s \ {x}]) = sum[s]
        BY <4>3, <4>4
      <4> QED BY <4>1, <4>5
    <3> QED BY <3>1, <3>2
  <2>2. sum = Rec(sum)
    BY <2>1
  <2> HIDE DEF sum, Rec
  <2> QED BY <2>2, Zenon
<1>4. it[MM!Team] = [k \in MM!Slots |-> IF p[k] \in MM!Team THEN w[k] ELSE 0]
  <2> HIDE DEF it
  <2>1. it[{}] = MM!Zero
    BY <1>3
  <2>2. ASSUME NEW s \in SUBSET MM!Team, s # {}
        PROVE  \E x \in s : it[s] = MM!EvalAdd(v[x], it[s \ {x}])
    <3> DEFINE x == CHOOSE y \in s : TRUE
    <3>1. x \in s
      BY <2>2
    <3>2. it[s] = MM!EvalAdd(v[x], it[s \ {x}])
      BY <1>3, <2>2
    <3> QED BY <3>1, <3>2
  <2>3. AddsUp(it, v, MM!Team)
    BY <2>1, <2>2 DEF AddsUp
  <2>4. OneEach(v, p, w, MM!Team)
    BY DEF OneEach
  <2>5. IsFiniteSet(MM!Team)
    BY <1>1
  <2> HIDE DEF Rec
  <2>6. IsFiniteSet(MM!Team) /\ OneEach(v, p, w, MM!Team) /\ AddsUp(it, v, MM!Team)
    BY <2>3, <2>4, <2>5
  <2> HIDE DEF Rec
  <2> QED BY ONLY <2>6, w \in MM!Vectors, SumOverThreads
<1>5. [k \in MM!Slots |-> IF p[k] \in MM!Team THEN w[k] ELSE 0] = w
  BY SameWindow
<1> QED BY <1>2, <1>4, <1>5

\* The thread-local columns add up to the columns of the product: a row is in
\* the share of one thread only.
LEMMA ReduceKeeps == MatMulInv /\ MM!Reduce => MatMulInv'
<1> SUFFICES ASSUME MatMulInv, MM!Reduce PROVE MatMulInv'
  OBVIOUS
<1>1. /\ stage = "reduce" /\ stage' = "done"
      /\ UNCHANGED <<variant, A, B, todo, inner, acc, slot, thread_cols, out_rows>>
      /\ out_cols' = [j \in MM!Slots |->
                        MM!FoldFunction(MM!EvalAdd, MM!Zero, [t \in MM!Team |-> thread_cols[t][j]])]
  BY DEF MM!Reduce, MM!inputs
<1>2. /\ MM!TypeOK /\ LoopInv /\ ThreadColsInv /\ StageInv
      /\ A \in MM!Matrices /\ B \in MM!Matrices
  BY DEF MatMulInv
<1>3. /\ TheColumns \in [MM!Slots -> MM!Vectors]
      /\ \A i, j \in MM!Slots : TheColumns[j][i] = TheProduct[i][j]
  BY <1>2, ProductFacts
<1>4. TheProduct' = TheProduct /\ TheColumns' = TheColumns
  BY <1>1, SameProduct
<1>5. \A t \in MM!Team : \A i, j \in MM!Slots : PastCell(t, i, j)
  BY <1>1, <1>2 DEF StageInv, PastCell
<1> DEFINE p == [i \in MM!Slots |-> CHOOSE t \in MM!Team : i \in MM!StaticShare(t)]
<1>6. ASSUME NEW i \in MM!Slots
      PROVE  p[i] \in MM!Team /\ \A t \in MM!Team : i \in MM!StaticShare(t) <=> t = p[i]
  BY SharesTile
<1>7. p \in [MM!Slots -> MM!Team]
  BY <1>6
<1> HIDE DEF p
<1>8. ASSUME NEW j \in MM!Slots
      PROVE  MM!FoldFunction(MM!EvalAdd, MM!Zero, [t \in MM!Team |-> thread_cols[t][j]]) = TheColumns[j]
  <2> DEFINE v == [t \in MM!Team |-> thread_cols[t][j]]
  <2>1. v \in [MM!Team -> MM!Vectors] /\ TheColumns[j] \in MM!Vectors
    BY <1>2, <1>3 DEF MM!TypeOK
  <2>2. ASSUME NEW t \in MM!Team, NEW k \in MM!Slots
        PROVE  v[t][k] = IF t = p[k] THEN TheColumns[j][k] ELSE 0
    <3>1. v[t][k] = IF k \in MM!StaticShare(t) /\ PastCell(t, k, j) THEN TheProduct[k][j] ELSE 0
      BY <1>1, <1>2 DEF ThreadColsInv
    <3> QED BY <1>3, <1>5, <1>6, <3>1
  <2> HIDE DEF v
  <2>3. MM!FoldFunction(MM!EvalAdd, MM!Zero, v) = TheColumns[j]
    BY <1>7, <2>1, <2>2, ReduceColumn
  <2> QED BY <2>3 DEF v
<1>9. out_cols' = TheColumns
  BY <1>1, <1>3, <1>8
<1>10. MM!TypeOK'
  BY <1>1, <1>2, <1>3, <1>9 DEF MM!TypeOK
<1>11. LoopInv' /\ SerialInv' /\ RowsInv' /\ ColsInv' /\ ThreadColsInv'
  BY <1>1, <1>2 DEF LoopInv, SerialInv, RowsInv, ColsInv, ThreadColsInv
<1>12. StageInv'
  BY <1>1, <1>2, <1>4, <1>9 DEF StageInv
<1> QED BY <1>1, <1>2, <1>10, <1>11, <1>12 DEF MatMulInv

\* A step in which matmul does nothing.
LEMMA StutterKeeps == MatMulInv /\ UNCHANGED matmulVars => MatMulInv'
<1> SUFFICES ASSUME MatMulInv, UNCHANGED matmulVars PROVE MatMulInv'
  OBVIOUS
<1>1. UNCHANGED <<variant, A, B, stage, todo, inner, acc, slot, thread_cols, out_rows, out_cols>>
  BY DEF matmulVars
<1>2. TheProduct' = TheProduct /\ TheColumns' = TheColumns
  BY <1>1, SameProduct
<1>3. /\ \A t, i, j : PastCell(t, i, j)' <=> PastCell(t, i, j)
      /\ \A t : Added(t)' = Added(t)
  BY <1>1 DEF PastCell, Added
<1>4. MM!TypeOK' /\ LoopInv' /\ A' \in MM!Matrices /\ B' \in MM!Matrices
  BY <1>1 DEF MatMulInv, MM!TypeOK, LoopInv
<1>5. SerialInv' /\ ThreadColsInv' /\ StageInv'
  BY <1>1, <1>2, <1>3 DEF MatMulInv, SerialInv, ThreadColsInv, StageInv
<1>6. RowsInv' /\ ColsInv'
  BY <1>1, <1>2, <1>3 DEF MatMulInv, RowsInv, ColsInv
<1> QED BY <1>4, <1>5, <1>6 DEF MatMulInv

\* Every step of the three implementations.
LEMMA NextMatMulInv == MatMulInv /\ [MM!Next]_matmulVars => MatMulInv'
<1>1. (\E t \in MM!Team : MM!ThreadStep(t)) =>
        \/ \E t \in MM!Team : MM!Pass1Step(t)
        \/ \E t \in MM!Team : MM!Pass2Step(t)
        \/ \E t \in MM!Team : MM!RowsReadSlot(t)
        \/ \E t \in MM!Team : MM!RowsWriteSlot(t)
  BY DEF MM!ThreadStep
<1> QED BY <1>1, SerialKeeps, Pass1Keeps, Pass2Keeps, ReadSlotKeeps, WriteSlotKeeps,
            EndLoopKeeps, ReduceKeeps, StutterKeeps DEF MM!Next


------------------------------------------------------------------------------
(* Both levels.                                                            *)

BackendInv == IInv /\ KeysLeft /\ MatMulInv /\ CellInv

\* A packed bit vector has clean padding, and its window is the vector.
LEMMA PackedBits ==
  ASSUME NEW v \in MM!Vectors
  PROVE  /\ encrypt_packed(v) \in Packed
         /\ \A k \in Window : encrypt_packed(v)[k] = v[k]
<1>1. /\ \A k \in Window : v[k] \in {0, 1}
      /\ \A k \in Window : k \in Physical
  BY SameWindow, PaddingAssumption DEF Physical
<1>2. encrypt_packed(v) \in [Physical -> Bits]
  BY <1>1 DEF encrypt_packed, Bits
<1> QED BY <1>1, <1>2 DEF encrypt_packed, Packed

\* The operands of a cell are packed bit vectors.
LEMMA OperandsArePacked ==
  ASSUME A \in MM!Matrices, B \in MM!Matrices, NEW i \in MM!Slots, NEW j \in MM!Slots
  PROVE  /\ A[i] \in MM!Vectors /\ MM!Column(B, j) \in MM!Vectors
         /\ encrypt_packed(A[i]) \in Packed /\ encrypt_packed(MM!Column(B, j)) \in Packed
<1>1. A[i] \in MM!Vectors /\ MM!Column(B, j) \in MM!Vectors
  BY SameWindow DEF MM!Matrices, MM!Column
<1> QED BY <1>1, PackedBits

\* The dot product of the operands of a cell is the entry of that cell.
LEMMA CellIsDotProduct ==
  ASSUME A \in MM!Matrices, B \in MM!Matrices, NEW i \in MM!Slots, NEW j \in MM!Slots,
         row = encrypt_packed(A[i]), col = encrypt_packed(MM!Column(B, j))
  PROVE  DotProduct = MM!Cij(i, j) /\ DotProduct \in {0, 1}
<1>1. A[i] \in MM!Vectors /\ MM!Column(B, j) \in MM!Vectors
  BY OperandsArePacked
<1>2. \A k \in Window : row[k] = A[i][k] /\ col[k] = MM!Column(B, j)[k]
  BY <1>1, PackedBits
<1>3. MM!Cij(i, j) = IF \E k \in MM!Slots : A[i][k] = 1 /\ MM!Column(B, j)[k] = 1 THEN 1 ELSE 0
  BY <1>1, DotProductOfBits, SameWindow DEF MM!Cij
<1>4. (\E k \in MM!Slots : A[i][k] = 1 /\ MM!Column(B, j)[k] = 1)
        <=> \E k \in Window : row[k] = 1 /\ col[k] = 1
  BY <1>2, SameWindow
<1> QED BY <1>3, <1>4 DEF DotProduct

\* What MaskMult leaves of the replicated dot product is the piece of RowColMatMul.
LEMMA PieceOnWindow ==
  ASSUME NEW c \in {0, 1}, ct = [i \in Physical |-> IF i \in Window THEN c ELSE 0],
         NEW pos \in Window
  PROVE  WindowOf(MaskMult(ct, pos)) = MM!MaskMult(c, pos)
<1>1. \A k \in Window : k \in Physical
  BY SameWindow, PaddingAssumption DEF Physical
<1>2. \A k \in Window : MaskMult(ct, pos)[k] = IF k = pos THEN c ELSE 0
  <2> SUFFICES ASSUME NEW k \in Window PROVE MaskMult(ct, pos)[k] = IF k = pos THEN c ELSE 0
    OBVIOUS
  <2>1. ct[k] = c /\ one_hot_mask(pos)[k] = IF k = pos THEN 1 ELSE 0
    BY <1>1 DEF one_hot_mask
  <2>2. MaskMult(ct, pos)[k] = ct[k] * one_hot_mask(pos)[k]
    BY <1>1 DEF MaskMult, EvalMult
  <2> QED BY <2>1, <2>2
<1> QED BY <1>2, SameWindow DEF WindowOf, MM!MaskMult

\* The first cell is loaded.
LEMMA InitBackendInv == BackendInit => BackendInv
<1> SUFFICES ASSUME BackendInit PROVE BackendInv
  OBVIOUS
<1>1. /\ MM!Init /\ MatMulInv
      /\ row = encrypt_packed(A[0]) /\ col = encrypt_packed(MM!Column(B, 0))
      /\ pc = "and" /\ ct = Zero /\ shift = 1 /\ piece = Zero
  BY InitMatMulInv DEF BackendInit
<1>2. A \in MM!Matrices /\ B \in MM!Matrices
  BY <1>1 DEF MatMulInv
<1>3. row \in Packed /\ col \in Packed
  BY <1>1, <1>2, SameWindow, OperandsArePacked
<1>4. Init
  BY <1>1, <1>3 DEF Init
<1>5. CellInv
  <2> SUFFICES ASSUME stage = "serial"
               PROVE  todo[0] # {} /\ MM!Min(todo[0]) = 0 /\ inner[0] = 0
    BY <1>1 DEF CellInv
  <2>1. variant = "Serial" /\ todo = [t \in MM!Team |-> IF t = 0 THEN MM!Slots ELSE {}]
    BY <1>1 DEF MM!Init, MM!Variants
  <2>2. todo[0] = MM!Slots /\ inner[0] = 0
    BY <1>1, <2>1, SameWindow DEF MM!Init
  <2>3. MM!Min(MM!Slots) \in MM!Slots /\ \A y \in MM!Slots : MM!Min(MM!Slots) =< y
    BY SameWindow, MinOf
  <2>4. MM!Min(MM!Slots) = 0
    BY <2>3, SameWindow
  <2> QED BY <2>2, <2>4, SameWindow
<1>6. KeysLeft
  BY <1>1 DEF KeysLeft
<1> QED BY <1>1, <1>4, <1>5, <1>6, InitIInv DEF BackendInv

\* A masked dot product is a step of the serial loop on windows.
LEMMA AddPiecesIsSerialStep == BackendInv /\ AddPieces => MM!SerialStep
<1> SUFFICES ASSUME BackendInv, AddPieces PROVE MM!SerialStep
  OBVIOUS
<1> DEFINE i == MM!Min(todo[0])
           j == inner[0]
<1>1. /\ stage = "serial" /\ pc = "mask"
      /\ todo[0] # {}
      /\ row = encrypt_packed(A[i]) /\ col = encrypt_packed(MM!Column(B, j))
      /\ ct = [k \in Physical |-> IF k \in Window THEN DotProduct ELSE 0]
      /\ A \in MM!Matrices /\ B \in MM!Matrices
  BY DEF AddPieces, Mask, BackendInv, CellInv, IInv, Replicated, MatMulInv
<1>2. i \in MM!Slots /\ j \in MM!Slots /\ i = Min(todo[0]) /\ i \in Window /\ j \in Window
  <2>1. todo[0] \subseteq MM!Slots /\ j \in MM!Slots
    BY SameWindow DEF BackendInv, MatMulInv, MM!TypeOK
  <2> QED BY <1>1, <2>1, MinOf, SameWindow
<1>3. /\ out_rows' = [out_rows EXCEPT ![i] = MM!EvalAdd(@, WindowOf(MaskMult(ct, j)))]
      /\ out_cols' = [out_cols EXCEPT ![j] = MM!EvalAdd(@, WindowOf(MaskMult(ct, i)))]
      /\ MM!Advance(0)
      /\ UNCHANGED <<variant, A, B, stage, acc, slot, thread_cols>>
  BY <1>2 DEF AddPieces
<1>4. DotProduct = MM!Cij(i, j) /\ DotProduct \in {0, 1}
  BY <1>1, <1>2, CellIsDotProduct
<1>5. /\ WindowOf(MaskMult(ct, j)) = MM!MaskMult(MM!Cij(i, j), j)
      /\ WindowOf(MaskMult(ct, i)) = MM!MaskMult(MM!Cij(i, j), i)
  BY <1>1, <1>2, <1>4, PieceOnWindow
<1> QED BY <1>1, <1>3, <1>5 DEF MM!SerialStep, MM!inputs

\* A step of the slots, and one of the loops, for each step.
LEMMA StepsMap ==
  ASSUME BackendInv, [BackendNext]_backendVars
  PROVE  /\ [MM!Next]_matmulVars
         /\ NextCell \/ [Next]_vars
<1>1. CASE DotProductStep
  BY <1>1 DEF DotProductStep, Next
<1>2. CASE AddPieces
  BY <1>2, AddPiecesIsSerialStep DEF MM!Next, AddPieces, Next
<1>3. CASE NextCell
  BY <1>3 DEF NextCell
<1>4. CASE LoopStep
  BY <1>4 DEF LoopStep, MM!Next
<1>5. CASE UNCHANGED backendVars
  BY <1>5 DEF backendVars, matmulVars, vars
<1> QED BY <1>1, <1>2, <1>3, <1>4, <1>5 DEF BackendNext

\* Loading a cell starts a dot product afresh.
LEMMA NextCellKeeps == BackendInv /\ NextCell => IInv' /\ KeysLeft' /\ CellInv'
<1> SUFFICES ASSUME BackendInv, NextCell PROVE IInv' /\ KeysLeft' /\ CellInv'
  OBVIOUS
<1>1. /\ row' = encrypt_packed(A[Min(todo[0])]) /\ col' = encrypt_packed(MM!Column(B, inner[0]))
      /\ pc' = "and" /\ ct' = Zero /\ shift' = 1 /\ piece' = Zero
      /\ stage = "serial" /\ todo[0] # {}
      /\ UNCHANGED <<A, B, stage, todo, inner>>
  BY DEF NextCell, LoadCell, matmulVars
<1>2. A \in MM!Matrices /\ B \in MM!Matrices /\ todo[0] \subseteq MM!Slots /\ inner[0] \in MM!Slots
  BY SameWindow DEF BackendInv, MatMulInv, MM!TypeOK
<1>3. MM!Min(todo[0]) \in MM!Slots /\ MM!Min(todo[0]) = Min(todo[0])
  BY <1>1, <1>2, MinOf
<1>4. row' \in Packed /\ col' \in Packed
  BY <1>1, <1>2, <1>3, OperandsArePacked
<1>5. Zero \in [Physical -> Bits]
  BY DEF Zero, Bits
<1>6. TypeOK'
  BY <1>1, <1>4, <1>5, WindowAssumption DEF TypeOK
<1>7. PartialOR' /\ Replicated' /\ KeysLeft'
  BY <1>1 DEF PartialOR, Replicated, KeysLeft
<1>8. CellInv'
  BY <1>1, <1>3 DEF CellInv, MM!Column
<1> QED BY <1>6, <1>7, <1>8 DEF IInv

\* Every other step leaves the operands of the cell alone.
LEMMA CellKeeps ==
  ASSUME BackendInv, [BackendNext]_backendVars, ~ NextCell
  PROVE  CellInv'
<1>1. CellInv
  BY DEF BackendInv
<1>2. CASE DotProductStep
  <2>1. /\ UNCHANGED <<row, col, A, B, stage, todo, inner>>
        /\ pc # "done"
    BY <1>2 DEF DotProductStep, And, SumORStep, SumOREnd, matmulVars
  <2> QED BY <1>1, <2>1 DEF CellInv, MM!Column
<1>3. CASE AddPieces
  BY <1>3 DEF AddPieces, Mask, CellInv
<1>4. CASE LoopStep
  <2>1. UNCHANGED <<row, col, pc>>
    BY <1>4 DEF LoopStep, vars
  <2>2. stage' # "serial"
    BY <1>4 DEF LoopStep, MM!EndLoop, MM!Reduce, MM!ThreadStep, MM!Pass1Step, MM!Pass2Step,
                MM!RowsReadSlot, MM!RowsWriteSlot
  <2> QED BY <2>2 DEF CellInv
<1>5. CASE UNCHANGED backendVars
  BY <1>1, <1>5 DEF backendVars, CellInv, MM!Column
<1> QED BY <1>2, <1>3, <1>4, <1>5 DEF BackendNext

\* Every step of the backend keeps the invariants of both levels.
LEMMA NextBackendInv == BackendInv /\ [BackendNext]_backendVars => BackendInv'
<1> SUFFICES ASSUME BackendInv, [BackendNext]_backendVars PROVE BackendInv'
  OBVIOUS
<1>1. MatMulInv'
  BY StepsMap, NextMatMulInv DEF BackendInv
<1>2. CASE NextCell
  BY <1>1, <1>2, NextCellKeeps DEF BackendInv
<1>3. CASE ~ NextCell
  <2>1. [Next]_vars
    BY <1>3, StepsMap
  <2>2. IInv' /\ KeysLeft'
    BY <2>1, NextIInv, NextKeysLeft DEF BackendInv, IInv
  <2> QED BY <1>1, <1>3, <2>2, CellKeeps DEF BackendInv
<1> QED BY <1>2, <1>3

\* The invariants of both levels hold throughout.
THEOREM BackendInvariance == BackendSpec => []BackendInv
BY InitBackendInv, NextBackendInv, PTL DEF BackendSpec

\* Every slot of every dot product holds a bit, SumOR replicates the Boolean
\* dot product, and it has the keys of its rotations, in every cell of matmul.
THEOREM SlotsAreSound == BackendSpec => [](TypeOK /\ Replicated /\ KeysInstalled)
<1>1. BackendInv => TypeOK /\ Replicated /\ KeysInstalled
  BY KeysSuffice DEF BackendInv, IInv
<1> QED BY <1>1, BackendInvariance, PTL

\* The three implementations return the Boolean product by rows and by
\* columns, however their threads interleave, and no accumulator ever holds
\* anything but bits.
THEOREM ProductIsReturned == BackendSpec => []RowsAndColsAreProduct
<1>1. BackendInv => RowsAndColsAreProduct
  <2> SUFFICES ASSUME BackendInv PROVE MM!TypeOK /\ MM!RowsAndColsAreProduct
    BY DEF RowsAndColsAreProduct
  <2>1. MM!TypeOK /\ StageInv
    BY DEF BackendInv, MatMulInv
  <2>2. stage = "done" => out_rows = TheProduct /\ out_cols = TheColumns
    BY <2>1 DEF StageInv
  <2> QED BY <2>1, <2>2 DEF MM!RowsAndColsAreProduct, TheProduct, TheColumns
<1> QED BY <1>1, BackendInvariance, PTL

\* Rotations, masks and padding amount to the dot products of RowColMatMul,
\* each taken in one step.
THEOREM SlotsImplementMatMul == BackendSpec => ImplementsMatMul
<1>1. BackendInit => MM!Init
  BY DEF BackendInit
<1>2. BackendInv /\ [BackendNext]_backendVars => [MM!Next]_(MM!vars)
  BY StepsMap DEF matmulVars, MM!vars
<1> QED BY <1>1, <1>2, BackendInvariance, PTL DEF BackendSpec, ImplementsMatMul, MM!Spec
==============================================================================
