----------------------------- MODULE FastBuffer -----------------------------
(***************************************************************************)
(* The byte buffer behind a connection: a vector d of which the positions  *)
(* from r up to w (counted from zero) hold unread bytes, and the counter   *)
(* half of pushes that found the vector nearly empty.  What lies outside   *)
(* r..w is what earlier bytes left there.                                  *)
(***************************************************************************)
EXTENDS Integers, Sequences

CONSTANTS DEFAULT_SIZE, GROW_SIZE, SHRINK_SIZE, DOWN_SIZE, MAX_SIZE, HALF

ASSUME SizeAssumption ==
  /\ {DEFAULT_SIZE, GROW_SIZE, SHRINK_SIZE, DOWN_SIZE, MAX_SIZE, HALF} \subseteq Nat
  /\ 16 * DOWN_SIZE <= SHRINK_SIZE

EmptyBuffer == [d |-> [k \in 1..DEFAULT_SIZE |-> 0], r |-> 0, w |-> 0, half |-> 0]

size(b) == b.w - b.r
data(b) == SubSeq(b.d, b.r + 1, b.w)

Resize(b, n) == [b EXCEPT !.d = [k \in 1..n |-> IF k <= Len(b.d) THEN b.d[k] ELSE 0]]

(* std::copy of the unread bytes to the start of the vector. *)
MoveDown(b) ==
  [d |-> [k \in DOMAIN b.d |-> IF k <= size(b) THEN b.d[b.r + k] ELSE b.d[k]],
   r |-> 0, w |-> size(b), half |-> b.half]

ensurewritable(b, n) ==
  IF Len(b.d) >= b.w + n THEN b
  ELSE IF Len(b.d) <= MAX_SIZE THEN Resize(b, 2 * b.w + n + GROW_SIZE)
  ELSE LET c == MoveDown(b)
       IN  IF Len(c.d) < n + size(c) THEN Resize(c, size(c) + n) ELSE c

(* The bytes s written at writablebegin(), which push_back_withoutdata counts. *)
Fill(b, s) ==
  [d |-> [k \in DOMAIN b.d |-> IF k > b.w /\ k <= b.w + Len(s) THEN s[k - b.w] ELSE b.d[k]],
   r |-> b.r, w |-> b.w + Len(s), half |-> b.half]

(* A large vector that was nearly empty more than HALF times in a row is cut. *)
MuchFree(b, n) == Len(b.d) - size(b) - n > (Len(b.d) \div 8) * 7
Shrink(b, n) ==
  IF Len(b.d) <= SHRINK_SIZE THEN b
  ELSE IF ~MuchFree(b, n) THEN [b EXCEPT !.half = 0]
  ELSE IF b.half <= HALF THEN [b EXCEPT !.half = @ + 1]
  ELSE [Resize(MoveDown(b), Len(b.d) - DOWN_SIZE) EXCEPT !.half = 0]

push_back(b, s) ==
  IF s = << >> THEN b ELSE Fill(ensurewritable(Shrink(b, Len(s)), Len(s)), s)

clear(b) == [d |-> b.d, r |-> 0, w |-> 0, half |-> b.half]
pop_frontAll(b, n) == clear(b)   \* mutant: drops the rest too
pop_front(b, n) ==
  IF b.r + n >= b.w THEN clear(b) ELSE [b EXCEPT !.r = @ + n]

(* A buffer in which every access above stays inside the vector. *)
WellFormed(b) == 0 <= b.r /\ b.r <= b.w /\ b.w <= Len(b.d)
=============================================================================
