----------------------------- MODULE ValidityMask -----------------------------
(***************************************************************************)
(* ValidityMask: a bit for every row, in words of WordBits bits.           *)
(*                                                                         *)
(* A word is the set of its bits that are set.  An operation on a mask is  *)
(* given as the words it reads and writes, one after the other, with the   *)
(* bits of the word that stay and the bits that are set.                   *)
(***************************************************************************)
EXTENDS Integers, Sequences, FiniteSetsExt

CONSTANT
    WordBits    \* ValidityMask::BITS_PER_VALUE, 64

Bits == 0 .. WordBits - 1

CeilDiv(a, b) == (a + b - 1) \div b

EntryCount(n) == CeilDiv(n, WordBits)

Op(w, keep, set) == [word |-> w, keep |-> keep, set |-> set]

\* SetValidUnsafe.
SetValid(row) == Op(row \div WordBits, Bits, {row % WordBits})

\* SetRangeInvalid, for whole words; bits above the last row are set.
RangeInvalid(count, begin_entry, end_entry) ==
    LET last == EntryCount(count) - 1
        bits == count % WordBits
        rest == IF bits = 0 THEN {} ELSE {b \in Bits : b >= bits}
    IN  [n \in 1 .. Min({last, end_entry}) - begin_entry |->
            Op(begin_entry + n - 1, {}, {})]
        \o (IF end_entry <= last THEN << >> ELSE <<Op(last, {}, rest)>>)

\* Mutant: nothing of the last word is kept.
EndMaskNone(end) == {}

\* The bits of the last word that are not in the range, and of the first one.
EndMask(end) == {b \in Bits : b >= end % WordBits}
BeginMask(begin) == {b \in Bits : b < begin % WordBits}

\* SetEntryRangeInvalid, for the rows from begin to before end.
EntryRangeInvalid(begin, end) ==
    LET begin_entry == begin \div WordBits
        end_entry == end \div WordBits
    IN  IF begin_entry = end_entry
        THEN <<Op(begin_entry, BeginMask(begin) \cup EndMask(end), {})>>
        ELSE <<Op(begin_entry, BeginMask(begin), {}), Op(end_entry, EndMask(end), {})>>
             \o [n \in 1 .. end_entry - begin_entry - 1 |->
                    Op(begin_entry + n, {}, {})]
=============================================================================
