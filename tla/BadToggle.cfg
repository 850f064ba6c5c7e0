SPECIFICATION Spec
CONSTANTS
  low_memory = low_memory
  no_ccache = no_ccache
  v3 = v3
  NoRow = NoRow
  Browsers = {}
  Operators = {}
  Clis = {c1}
  Flag <- TwoFlags
  Optional <- OneVariant
  Commands <- ToggleOnly
  MaxPw = 2
  MaxLogins = 1
  Ttl = 1
  MaxNow = 1
  MaxOps = 3
CHECK_DEADLOCK FALSE
INVARIANT VariantToggled
