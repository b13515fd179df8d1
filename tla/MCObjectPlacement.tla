------------------------- MODULE MCObjectPlacement -------------------------
EXTENDS ObjectPlacement

\* (k, l, g_m, x): local groups that one chunk fills, groups of two chunks,
\* groups whose last chunk is not full, and no global parity at all
Shapes(p) ==
  {<<4, 2, 1, 2>>, <<4, 1, 2, 3>>} \union
    CASE p \in {"Ran", "DIS"} -> {}
      [] p = "AGG" -> {<<2, 2, 0, 2>>, <<6, 2, 1, 3>>, <<4, 2, 2, 2>>, <<8, 2, 1, 2>>}
      [] OTHER -> {<<2, 2, 0, 2>>, <<6, 2, 1, 3>>, <<4, 2, 2, 2>>}

MCSchemas ==
  UNION {{[encodetype |-> "Azure_LRC", k |-> h[1], l |-> h[2], g_m |-> h[3],
           b |-> h[1] \div h[2], x |-> h[4], m_placement |-> p] : h \in Shapes(p)} :
           p \in Placements}

MCClusterNums == {4, 6}
MCMaxStripes == [p \in Placements |-> IF p = "Ran" THEN 2 ELSE 3]
=============================================================================
