SPECIFICATION Spec
CONSTANTS
  source = source
  child = child
  review = review
  remedy = remedy
  Nobody = Nobody
  LifeActors = {a}
  Goals = {g}
  Requests = {r1, r2}
  Threads = {source, child}
  Source = source
  Responses = {p}
  Kinds = {review, remedy}
  Remediation = remedy
  OblTokens <- MCOblTokens
  OblSeconds <- MCOblSeconds
  Configs <- MCConfigs
  Keys = {k}
  Prior = 1
  Times = {0, 1}
  Amounts = {1, 2}
  Seconds = {1}
  ReqBound = 2
  ReqSeconds = 1
  Usages = {1, 2, 3}
  Members = {source}
  Parent <- MCParent
  Switch = Switch
  MaxSwitches = 2
SYMMETRY Symmetry
CONSTRAINT FewHostOps
INVARIANTS BilledWithinCap SessionCapShared SettledHasProof
PROPERTIES ProtectionKept PauseOnlyWhileGoverned UsageNeverForgotten
