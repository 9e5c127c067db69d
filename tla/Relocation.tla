------------------------------ MODULE Relocation ------------------------------
(***************************************************************************)
(* The relocations of arch/rel_x86.c, over words of any width.             *)
(***************************************************************************)
EXTENDS Integers

CONSTANTS
  Word,  \* how many values a u64 has
  Field  \* how many values a u32 has

ASSUME WidthsOK ==
  /\ Word \in Nat /\ Field \in Nat
  /\ Word > 0 /\ Word % 2 = 0
  /\ Field > 0 /\ Field % 2 = 0
  /\ Word % Field = 0

\* v, a word of the given number of values, read as a signed number.
Signed(v, size) == IF v >= size \div 2 THEN v - size ELSE v

\* Mutant of Magnitude: the sign is not looked at.
MagnitudeUnsigned(val) == val
\* The absolute value of (s64) val. -sval is undefined for the least s64; as
\* built, it is this value itself, whose absolute value it then stays.
Magnitude(val) ==
  IF Signed(val, Word) < 0 THEN - Signed(val, Word) ELSE Signed(val, Word)

\* rel32 fails for a field of size values; so do rel16 and rel64, which nothing
\* calls, for theirs.
Overflows(size, val, relative) ==
  (IF relative THEN Magnitude(val) ELSE val) > size - 1

\* Mutant of Stored: the value is not cast.
StoredWhole(size, val) == val
\* What it stores otherwise: the cast keeps the low bits.
Stored(size, val) == val % size

RelValue(rel_addr, sym_addr, addend) == (sym_addr + addend - rel_addr) % Word

\* The types loader_apply_relocation knows. Both are relative and 32 bits
\* wide.
RelTypes == {"PC32", "PLT32"}

\* What loader_apply_relocation returns, "none" for 0.
ApplyError(rel_addr, sym_addr, addend, rel_type) ==
  IF rel_type \notin RelTypes THEN "REL_BAD_TYPE"
  ELSE IF Overflows(Field, RelValue(rel_addr, sym_addr, addend), TRUE)
    THEN "REL_VALUE_OVERFLOW"
    ELSE "none"
=============================================================================
