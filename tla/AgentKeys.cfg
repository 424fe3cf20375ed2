SPECIFICATION Spec
CONSTANTS
  a1 = a1
  h1 = h1
  h2 = h2
  k1 = k1
  k2 = k2
  k3 = k3
  t1 = t1
  t2 = t2
  s1 = s1
  p1 = p1
  Agents = {a1}
  Hosts = {h1, h2}
  Keys = {k1, k2, k3}
  Tokens = {t1, t2}
  Sources = {s1}
  Admins = {p1}
  NoKey = NoKey
  NoAgent = NoAgent
SYMMETRY KeySymmetry
CHECK_DEADLOCK FALSE
INVARIANTS TypeOK OneActiveKey EveryKeyIsAccountedFor KeyFilesStayGood
PROPERTIES BrokenOnlyByStaleForm NoKeyComesBack KeepsSuccession
