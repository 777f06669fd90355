------------------------------ MODULE BitWindow ------------------------------
(***************************************************************************)
(* The circuit BitSet (circuit/src/cheque/bitwindow.rs), which takes a     *)
(* number into a register of bits.  All values are elements of the field   *)
(* of Prime elements, the bits are the places of a number to base 2, and   *)
(* a right shift is a multiplication by the inverse of 2 for each place.   *)
(*                                                                         *)
(* The circuit computes the next register and start and returns neither:   *)
(* as its use intends, the next number is taken with the ones it computed. *)
(*                                                                         *)
(* Four elements are decomposed into bits by into_bits_le, which lets the  *)
(* bits stand for any number that is congruent to the element.  Synthesis  *)
(* assigns those of the number below the order, and the steps are taken    *)
(* with that assignment.  The constraints are modelled for all of them:    *)
(* AcceptsExactly says what they enforce by themselves and what only with  *)
(* the bits of numbers below the order.                                    *)
(***************************************************************************)
EXTENDS WindowSize, FiniteSets

CONSTANTS
  StartBits,       \* the start of the window is limited to 32 bits
  DistanceBits,    \* lookup_argument_bit_width
  Prime,           \* the order of the scalar field
  FieldBits        \* NUM_BITS: as many bits has a field element

Field == 0 .. Prime - 1

ASSUME CircuitConstants ==
  /\ StartBits \in Nat /\ DistanceBits \in Nat /\ Prime \in Nat /\ FieldBits \in Nat
  /\ StartLimit = 2^StartBits
  /\ 2^DistanceBits = 2 * Width /\ Width + Stride <= 2^DistanceBits
  /\ 2^Width < Prime /\ 2^StartBits + 2^DistanceBits < Prime
  /\ Prime % 2 = 1 /\ Prime < 2^FieldBits

VARIABLES
  bits,      \* the register, as a number
  start,     \* the start of the window
  redeemed   \* all numbers ever redeemed: nothing the circuit has

vars == <<bits, start, redeemed>>

----------------------------------------------------------------------------
\* The field

Plus(a, b) == (a + b) % Prime

Minus(a, b) == (a + Prime - b) % Prime

Times(a, b) == (a * b) % Prime

HalfOfOne == (Prime + 1) \div 2     \* two_inverted

\* limit_number_of_bits
FitsBits(a, width) == a < 2^width

\* The places where a number has a 1.
Bits(n) == {i \in 0 .. FieldBits - 1 : (n \div 2^i) % 2 = 1}

\* into_bits_le: the numbers whose bits add up to an element of the field.  The
\* sum is one in the field: where it has room, a + Prime is one for a.
Decompositions(a) == {n \in 0 .. 2^FieldBits - 1 : n % Prime = a}

\* A number packed again from some of its bits.
Packed(places) ==
  LET upTo[i \in 0 .. FieldBits] ==
        IF i = 0 THEN 0
        ELSE Plus(upTo[i - 1], IF i - 1 \in places THEN 2^(i - 1) ELSE 0)
  IN  upTo[FieldBits]

----------------------------------------------------------------------------
\* The lookups: polynomials in the distance that were interpolated through
\* these values.

\* generate_correctness_polynomial
ValidDistance(distance) == distance <= Width + Stride - 1

\* generate_bit_lookup_polynomial: the place of the number, at most the last.
\* Slip: the last place is one too far.
SlipPastLastPlace(distance) == IF distance <= Width THEN 2^distance ELSE 2^Width

BitPosition(distance) == IF distance < Width THEN 2^distance ELSE 2^(Width - 1)

\* generate_shift_bitmask_polynomial: ones in the places that drop out.
ShiftMask(distance) == IF distance < Width THEN 0 ELSE 2^(distance + 1 - Width) - 1

\* generate_start_adjustment_polynomial
\* Slip: the start follows one behind the register.
SlipStartBehind(distance) == IF distance < Width THEN 0 ELSE distance - Width

StartAdjustment(distance) == IF distance < Width THEN 0 ELSE distance + 1 - Width

----------------------------------------------------------------------------
\* The constraints

Distance(number) == Minus(number, start)

Halved(a, times) ==
  LET after[i \in 0 .. times] == IF i = 0 THEN a ELSE Times(after[i - 1], HalfOfOne)
  IN  after[times]

\* Of the decomposed register the places of the decomposed mask, the remainder,
\* are taken away before it is halved once for each of those places.
ShiftedRegister(register, mask) ==
  Halved(Minus(bits, Packed(Bits(register) \cap Bits(mask))), Cardinality(Bits(mask)))

\* What into_bits_le may decompose the four elements to.
Witnesses(number) ==
  {w \in [register : Decompositions(bits),
          mask : Decompositions(ShiftMask(Distance(number))),
          shifted : 0 .. 2^FieldBits - 1,
          position : Decompositions(BitPosition(Distance(number)))] :
     w.shifted \in Decompositions(ShiftedRegister(w.register, w.mask))}

\* What synthesis assigns: the numbers below the order.
Synthesised(number) ==
  LET mask == ShiftMask(Distance(number))
  IN  [register |-> bits, mask |-> mask, shifted |-> ShiftedRegister(bits, mask),
       position |-> BitPosition(Distance(number))]

NewRegister(number, w) ==
  Plus(ShiftedRegister(w.register, w.mask), BitPosition(Distance(number)))

NewStart(number) == Plus(start, StartAdjustment(Distance(number)))

\* "enforce shifted register bit is not set"
\* Slip: the bit is looked for before the shift.
SlipUnshifted(w) == Bits(w.register) \cap Bits(w.position) = {}

BitNotSet(w) == Bits(w.shifted) \cap Bits(w.position) = {}

Satisfied(number, w) ==
  /\ FitsBits(bits, Width)
  /\ FitsBits(start, StartBits)
  /\ FitsBits(Distance(number), DistanceBits)
  /\ ValidDistance(Distance(number))
  /\ BitNotSet(w)
  /\ FitsBits(NewStart(number), StartBits)

----------------------------------------------------------------------------

Init ==
  /\ bits = 0
  /\ start \in 0 .. 2^StartBits - 1
  /\ redeemed = {}

BitSet(number) ==
  /\ Satisfied(number, Synthesised(number))
  /\ bits' = NewRegister(number, Synthesised(number))
  /\ start' = NewStart(number)
  /\ redeemed' = redeemed \cup {number}

Next == \E number \in Field : BitSet(number)

Spec == Init /\ [][Next]_vars

----------------------------------------------------------------------------
(***************************************************************************)
(* Properties                                                              *)
(***************************************************************************)

\* The register that synthesis computes keeps its width, which the circuit
\* demands of the register it is given but not of the one it computes: what
\* drops out is gone before the halving, and the sum with the bit position
\* carries nothing.
TypeOK ==
  /\ bits \in 0 .. 2^Width - 1
  /\ start \in 0 .. 2^StartBits - 1
  /\ redeemed \subseteq Field

WithinReach(number) ==
  /\ start <= number /\ number < start + Width + Stride
  /\ number - start >= Width => number + 1 - Width < 2^StartBits

BelowOrder(w) == {w.register, w.mask, w.shifted, w.position} \subseteq Field

\* With what synthesis assigns the constraints hold for exactly the numbers of
\* the window, and those it can be moved to, that were not redeemed before.  For
\* every witness they enforce the first part: for numbers below the start the
\* difference wraps around in the field, and none of the lookups beyond its
\* points lets one pass.  That the number is new they enforce for witnesses below
\* the order, and nothing in the circuit makes them be that.
AcceptsExactly ==
  \A number \in Field :
    /\ Satisfied(number, Synthesised(number)) <=> WithinReach(number) /\ number \notin redeemed
    /\ \A w \in Witnesses(number) :
         Satisfied(number, w) => /\ WithinReach(number)
                                 /\ BelowOrder(w) => number \notin redeemed

\* The arithmetic of the computed assignment does to the bits what the window
\* does to its places: so no number is redeemed twice by it, which BitWindowProofs
\* shows of every window.
Window == INSTANCE NumberWindow WITH register <- Bits(bits)

ImplementsWindow == Window!Spec

=============================================================================
