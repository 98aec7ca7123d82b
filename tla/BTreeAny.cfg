CONSTANTS
  Degree = 2
  Key <- MCKeys6
  Val = {v}
  MaxPage = 6
SPECIFICATION Spec
INVARIANTS PagesFit LinksWritten FreshPages NeverFull PageZeroIsLeaf IInv Balanced Ordered
