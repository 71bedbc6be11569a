SPECIFICATION Spec
CONSTANTS
  Clients = {c1, c2, c3}
  Events = {e1}
  Tokens = {t1, t2, t3, t4}
INVARIANTS TypeOK OneHolder HolderKeepsKey
PROPERTIES NoClobber ImplementsEventGuard
