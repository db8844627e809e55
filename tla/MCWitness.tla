----------------------------- MODULE MCWitness -----------------------------
EXTENDS Witness

Protected(id, pdst, ldq, rob) ==
  [id |-> id, pdst |-> pdst, prs1 |-> 0, ldq |-> ldq, rob |-> rob,
   lob |-> Source, mask |-> {1}, vaddr |-> "protected"]
Leaking(id, pdst, prs1, ldq, rob) ==
  [id |-> id, pdst |-> pdst, prs1 |-> prs1, ldq |-> ldq, rob |-> rob,
   lob |-> Dependent, mask |-> {1}, vaddr |-> "observed"]

\* The gadget, then a load in the registers of one of the two: of the first one in
\* the next iteration, or of the second one in another reorder-buffer entry.
MCCores == {
  <<Protected(1, 1, 1, 1), Leaking(2, 2, 1, 2, 2), Protected(3, 1, 1, 1)>>,
  <<Protected(1, 1, 1, 1), Leaking(2, 2, 1, 2, 2), Protected(3, 2, 2, 3)>>,
  <<Protected(1, 1, 1, 1), Leaking(2, 2, 1, 2, 2), Protected(3, 2, 2, 2)>>}
=============================================================================
