\* MaxHeight 26 lets a tx in block 1 get 25 blocks deep, past the expiry
\* depth of 24, and leaves room for reorgs around it.
CONSTANTS
  p1 = p1
  p2 = p2
  Tx <- MCTx
  MaxHeight = 26
SYMMETRY MCSymmetry
SPECIFICATION Spec
INVARIANTS
  TypeOK
