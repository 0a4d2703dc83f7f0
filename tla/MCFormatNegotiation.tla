------------------------ MODULE MCFormatNegotiation ------------------------
(***************************************************************************)
(* Small instances of FormatNegotiation for TLC.                           *)
(***************************************************************************)
EXTENDS FormatNegotiation, TLC

CONSTANTS h1, h2, nobody

TwoHandles == {h1, h2}
Nothing == {}
AllOverlaps == Overlaps

\* A size of the table and one only an input may have.
SmallSizes == {1, 2}
TableOfOne == {1}
ThreeInputs == {NoInput, [size |-> 2, il |-> FALSE], [size |-> 2, il |-> TRUE]}

SymHandles == Permutations({h1, h2})
=============================================================================
