----------------------------- MODULE RowColSlots -----------------------------
(***************************************************************************)
(* BooleanDotProduct of bgv_rowcol_backend.hpp on the slots of a           *)
(* ciphertext: the slot-wise AND of a packed row and a packed column, the  *)
(* log-doubling OR reduction SumOR, and the MaskMult that isolates the     *)
(* result.  A ciphertext has R physical slots, of which the first N hold   *)
(* the vector and the rest are padding; EvalRotate turns all R of them, so *)
(* RotateModN builds a rotation of the N-slot window from two rotations    *)
(* and a mask.                                                             *)
(***************************************************************************)
EXTENDS Integers

CONSTANTS N,  \* matrix dimension and batch size
          R   \* physical slots of a ciphertext, half the ring dimension

ASSUME WindowAssumption  == N \in Nat \ {0}
ASSUME PaddingAssumption == R \in Nat /\ R >= 2 * N

Physical == 0 .. R - 1
Window   == 0 .. N - 1
Bits     == {0, 1}

\* encrypt_packed of N bits: the padding is zero.
Packed == {v \in [Physical -> Bits] : \A i \in Physical \ Window : v[i] = 0}

\* EvalRotate: slot i of the result is slot i + k, over all R slots.
Turn(i)          == IF i < 0 THEN i + R ELSE IF i >= R THEN i - R ELSE i
EvalRotate(v, k) == [i \in Physical |-> v[Turn(i + k)]]

EvalAdd(u, v)  == [i \in Physical |-> u[i] + v[i]]
EvalSub(u, v)  == [i \in Physical |-> u[i] - v[i]]
EvalMult(u, v) == [i \in Physical |-> u[i] * v[i]]

one_hot_mask(pos) == [i \in Physical |-> IF i = pos THEN 1 ELSE 0]
valid_region_mask == [i \in Physical |-> IF i \in Window THEN 1 ELSE 0]

EvalBooleanOR(a, b) == EvalSub(EvalAdd(a, b), EvalMult(a, b))

\* Faulty variant: the combined rotation is not masked back to the window.
RotateModN_Unmasked(v, shift) == EvalAdd(EvalRotate(v, shift), EvalRotate(v, shift - N))

\* Faulty variant: a single rotation, as if it wrapped within the window.
RotateModN_Single(v, shift) == EvalMult(EvalRotate(v, shift), valid_region_mask)

RotateModN(v, shift) ==
  EvalMult(EvalAdd(EvalRotate(v, shift), EvalRotate(v, shift - N)), valid_region_mask)

MaskMult(v, pos) == EvalMult(v, one_hot_mask(pos))

\* The rotations that keys are generated for, once, in the constructor: the
\* loop from shift = s on.
RotationsFrom[s \in 1 .. 2 * N] ==
  IF s < N THEN {s, s - N} \cup RotationsFrom[s * 2] ELSE {}

\* Faulty variant: no keys for the rotations that bring the wrapped part.
BuildRequiredRotationIndices_ForwardOnly == RotationsFrom[1] \cap Nat

BuildRequiredRotationIndices == RotationsFrom[1]

------------------------------------------------------------------------------

VARIABLES
  row, col,  \* the operands of the dot product
  pc,        \* "and", "sumor", "mask" or "done"
  ct,        \* products, then result of SumOR
  shift,     \* loop variable of SumOR
  piece      \* the masked result

vars == <<row, col, pc, ct, shift, piece>>

Zero == [i \in Physical |-> 0]

Init == /\ row \in Packed /\ col \in Packed
        /\ pc = "and"
        /\ ct = Zero
        /\ shift = 1
        /\ piece = Zero

And == /\ pc = "and"
       /\ ct' = EvalMult(row, col)
       /\ shift' = 1
       /\ pc' = "sumor"
       /\ UNCHANGED <<row, col, piece>>

\* Faulty variant: the sum of RotateAndSum instead of the OR.
SumORStep_Sum == /\ pc = "sumor"
                 /\ shift < N
                 /\ ct' = EvalAdd(ct, RotateModN(ct, shift))
                 /\ shift' = shift * 2
                 /\ UNCHANGED <<row, col, pc, piece>>

SumORStep == /\ pc = "sumor"
             /\ shift < N
             /\ ct' = EvalBooleanOR(ct, RotateModN(ct, shift))
             /\ shift' = shift * 2
             /\ UNCHANGED <<row, col, pc, piece>>

SumOREnd == /\ pc = "sumor"
            /\ shift >= N
            /\ pc' = "mask"
            /\ UNCHANGED <<row, col, ct, shift, piece>>

Mask == /\ pc = "mask"
        /\ \E pos \in Window : piece' = MaskMult(ct, pos)
        /\ pc' = "done"
        /\ UNCHANGED <<row, col, ct, shift>>

Next == And \/ SumORStep \/ SumOREnd \/ Mask

Spec == Init /\ [][Next]_vars

------------------------------------------------------------------------------

\* Every slot, padding included, holds a bit at every step.
TypeOK == /\ row \in Packed /\ col \in Packed
          /\ pc \in {"and", "sumor", "mask", "done"}
          /\ ct \in [Physical -> Bits]
          /\ shift \in 1 .. 2 * N
          /\ piece \in [Physical -> Bits]

\* The slot that is d places after slot i of the window, round the window.
Ahead(i, d) == IF i + d < N THEN i + d ELSE IF i + d < 2 * N THEN i + d - N ELSE i + d - 2 * N

\* Between two steps of SumOR slot i is the OR of the `shift` products that
\* follow it round the window, and the padding is clean: nothing leaks from
\* a rotation into the next one.
PartialOR ==
  pc = "sumor" =>
    /\ ct \in Packed
    /\ \A i \in Window :
         ct[i] = 1 <=> \E d \in 0 .. shift - 1 : row[Ahead(i, d)] = 1 /\ col[Ahead(i, d)] = 1

\* The Boolean value OR_k(row[k] AND col[k]).
DotProduct == IF \E k \in Window : row[k] = 1 /\ col[k] = 1 THEN 1 ELSE 0

\* At its end SumOR has replicated the Boolean dot product, not the number
\* of witnesses, to every slot of the window and to no other; and the piece
\* has it in exactly one slot, so that adding N pieces never adds two bits.
Replicated ==
  /\ pc \in {"mask", "done"} => ct = [i \in Physical |-> IF i \in Window THEN DotProduct ELSE 0]
  /\ pc = "done" => \E pos \in Window : piece = [i \in Physical |-> IF i = pos THEN DotProduct ELSE 0]

\* SumOR never asks for a rotation that the constructor made no key for.
KeysInstalled ==
  pc = "sumor" /\ shift < N => {shift, shift - N} \subseteq BuildRequiredRotationIndices
==============================================================================
