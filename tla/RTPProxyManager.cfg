SPECIFICATION Spec
CONSTANTS
  RequestTypes = {"INVITE", "INVITE_RESPONSE", "INVITE_ACK"}
  Redis = FALSE
  Threads = {t1, t2}
  Calls = {k1, k2}
  Objs = {o1, o2, o3}
  SessionMax = 1
  None = None
SYMMETRY Symmetry
INVARIANTS TypeOK CountMatchesSessions StateFilesOwned
