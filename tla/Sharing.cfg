SPECIFICATION Spec
CONSTANTS
  Cpus <- MCCpus
  Rams <- MCRams
  DefaultLimit <- MCDefaultLimit
  HasMps = TRUE
  MayFail = TRUE
  NoCgroup = NoCgroup
INVARIANTS TypeOK   
 
