----------------------------- MODULE AppendPlan -----------------------------
(***************************************************************************)
(* Where the bytes of an append go.  The k * BlockSize bytes of a stripe   *)
(* are numbered along its rows: a row is one unit of every data block.  An *)
(* append brings size bytes from the logical offset off on, and            *)
(* generateAppendPlan cuts them into one slice per data block, with one    *)
(* slice of every parity block beside them.  The client cuts its buffer by *)
(* the same formulas, written again in get_append_slice_plans.             *)
(***************************************************************************)
EXTENDS Integers, FiniteSets, FiniteSetsExt

CONSTANTS
  k, r, z,    \* data blocks, global parities, local groups of a stripe
  UnitSize,
  BlockSize

\* what validateConfig asks for, and what UniLRC makes of alpha and z
ASSUME PlanAssumption ==
  /\ {k, r, z, UnitSize, BlockSize} \subseteq Nat \ {0}
  /\ BlockSize % UnitSize = 0
  /\ k % z = 0 /\ r % z = 0

Modes      == {"REP_MODE", "UNILRC_MODE", "CACHED_MODE"}
StripeSize == k * BlockSize
Row        == k * UnitSize
DataBlocks == 0 .. k - 1
Blocks     == 0 .. k + r + z - 1

Least(a, b) == IF a < b THEN a ELSE b
Untouched  == [size |-> 0, offset |-> -1]

units(off, size) == (off + size - 1) \div UnitSize - off \div UnitSize + 1
unit_stripes(off, size) == (off + size - 1) \div Row - off \div Row + 1
lastInRow(off, size) == (off + size - 1) % Row

\* Operators named ...Bug are slips a later change could make.
RowAlignedBug(mode, off, size) ==
  [size |-> IF units(off, size) = 1 THEN size ELSE unit_stripes(off, size) * UnitSize,
   offset |-> (off \div Row) * UnitSize]

\* the slice of every parity block: whole rows, or as little of them as
\* UNILRC_MODE finds out
ParitySlice(mode, off, size) ==
  LET rows  == unit_stripes(off, size)
      start == (off \div Row) * UnitSize
      short == rows > 1 /\ lastInRow(off, size) < UnitSize - 1
  IN  CASE mode = "REP_MODE"    -> [size |-> size, offset |-> -1]
        [] mode = "CACHED_MODE" -> [size |-> rows * UnitSize, offset |-> start]
        [] mode = "UNILRC_MODE" ->
             [size |-> IF short THEN (rows - 1) * UnitSize + lastInRow(off, size) + 1
                       ELSE IF units(off, size) = 1 THEN size ELSE rows * UnitSize,
              offset |-> IF units(off, size) = 1 THEN start + (off % UnitSize) ELSE start]

\* one turn of the loop over the units: the first slice ends its unit
SubSlice(off, size, at) ==
  IF at = off /\ off % UnitSize # 0
  THEN Least(UnitSize - (off % UnitSize), size)
  ELSE Least(UnitSize, off + size - at)

\* block_to_slice_sizes of the data blocks: the sizes of a block's units add
\* up, its offset is that of the first
DataSlices(off, size) ==
  LET from[at \in off .. off + size] ==
        IF at = off + size THEN [b \in DataBlocks |-> Untouched]
        ELSE LET step == SubSlice(off, size, at)
             IN  [from[at + step] EXCEPT ![(at \div UnitSize) % k] =
                    [size |-> @.size + step, offset |-> (at % UnitSize) + UnitSize * (at \div Row)]]
  IN  from[off]

\* the blocks of group i: data, then global, then the local parity
GroupData(i)   == (i * k) \div z .. ((i + 1) * k) \div z - 1
GroupParity(i) == (k + (i * r) \div z .. k + ((i + 1) * r) \div z - 1) \union {k + r + i}

SliceOf(mode, off, size, b) ==
  IF b \in DataBlocks THEN DataSlices(off, size)[b] ELSE ParitySlice(mode, off, size)

\* a data block the append does not touch is not in the plan
PlanBlocks(off, size, i) ==
  {b \in GroupData(i) : DataSlices(off, size)[b].size > 0} \union GroupParity(i)

getClusterAppendSize(mode, off, size, i) ==
  MapThenSumSet(LAMBDA b : DataSlices(off, size)[b].size, GroupData(i))
  + (ParitySlice(mode, off, size).size * (r + z)) \div z

\* a stripe that is full gets its parities merged, unless one append filled it
EveryFullBug(off, size)    == off + size = StripeSize
is_merge_parity(off, size) == off + size = StripeSize /\ off > 0
is_serialized(off, size)   == ~(off = 0 /\ size = StripeSize)

-----------------------------------------------------------------------------
(* The client: get_append_slice_plans, which REP_MODE does not use.        *)

clientParitySize(mode, off, size) ==
  IF mode = "UNILRC_MODE" /\ unit_stripes(off, size) > 1
     /\ lastInRow(off, size) < UnitSize - 1
  THEN (unit_stripes(off, size) - 1) * UnitSize + lastInRow(off, size) + 1
  ELSE IF mode = "UNILRC_MODE" /\ units(off, size) = 1
  THEN size ELSE unit_stripes(off, size) * UnitSize

node_slice_size(mode, off, size, b) ==
  IF b \in DataBlocks THEN DataSlices(off, size)[b].size
  ELSE clientParitySize(mode, off, size)

-----------------------------------------------------------------------------
(* What the plan should say: byte p of a stripe lies in one data block, at *)
(* one place, and the parities that cover it at the same place.            *)

BlockOf(p) == (p \div UnitSize) % k
PlaceOf(p) == UnitSize * (p \div Row) + (p % UnitSize)
Region(s)  == s.offset .. s.offset + s.size - 1

TilesData(off, size) ==
  \A b \in DataBlocks :
    LET s == DataSlices(off, size)[b] IN
    (IF s.size = 0 THEN {} ELSE Region(s))
      = {PlaceOf(p) : p \in {q \in off .. off + size - 1 : BlockOf(q) = b}}

CoversParity(mode, off, size) ==
  LET region == Region(ParitySlice(mode, off, size)) IN
  /\ {PlaceOf(p) : p \in off .. off + size - 1} \subseteq region
  /\ region \subseteq 0 .. BlockSize - 1

\* splitCharPointer of the proxy and of the client asserts these
SizesAddUp(mode, off, size, i) ==
  getClusterAppendSize(mode, off, size, i)
    = MapThenSumSet(LAMBDA b : SliceOf(mode, off, size, b).size, PlanBlocks(off, size, i))
ClientAgrees(mode, off, size, i) ==
  getClusterAppendSize(mode, off, size, i)
    = MapThenSumSet(LAMBDA b : node_slice_size(mode, off, size, b), PlanBlocks(off, size, i))
=============================================================================
