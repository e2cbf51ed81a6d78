SPECIFICATION Spec
CONSTANTS
  m1 = m1 m2 = m2 p1 = p1 mail = mail page = page t1 = t1 t2 = t2
  Masters = {m1, m2}
  Previews = {p1}
  Before = Before
  NoForm = NoForm
  Mails = {mail}
  Pages = {page}
  Tokens = {t1, t2}
  MaxFaults = 1
SYMMETRY Alike
INVARIANTS TypeOK KeyNamesObject OneUse
CHECK_DEADLOCK FALSE
