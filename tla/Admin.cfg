SPECIFICATION FairSpec
CONSTANTS
  low_memory = low_memory
  no_ccache = no_ccache
  v3 = v3
  NoRow = NoRow
  Browsers = {b1}
  Operators = {o1}
  Clis = {c1}
  Flag <- TwoFlags
  Optional <- OneVariant
  Commands <- OneCommand
  MaxPw = 2
  MaxLogins = 1
  Ttl = 1
  MaxNow = 1
  MaxOps = 3
INVARIANTS TypeOK RotationRevokes CommandHonoured
PROPERTIES PageConverges
CHECK_DEADLOCK FALSE
