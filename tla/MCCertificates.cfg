CONSTANTS
  Threads = {r1, r2}
  Ca = ca
  Svc = svc
  Bss = {b1}
  Acs = {a1}
  None = None
  MaxKeys = 6
  MaxJobs = 3
SPECIFICATION Spec
INVARIANTS
  TypeOK
  GeneratedSetServes
  IssuedPairsVerify
