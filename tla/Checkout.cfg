SPECIFICATION Spec
CONSTANTS
  r1 = r1 r2 = r2 k1 = k1
  a1 = a1 a2 = a2 i1 = i1 i2 = i2 i3 = i3
  Requests = {r1, r2}
  Keys = {k1}
  Carts <- MCCarts
  Catalogues <- MCCatalogues
  MaxItemQuantity = 3
  Row = {a1, a2}
  Intent = {i1, i2, i3}
  None = None
SYMMETRY Same
INVARIANTS TypeOK AnsweredAsQuoted OneIntentPerAttempt AnsweredIsVerified
