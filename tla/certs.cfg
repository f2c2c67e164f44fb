SPECIFICATION Spec
CONSTANTS
  Hosts = {h1, h2}
  Flavors = {"letsencrypt", "cert"}
  MaxFaults = 3
  MaxWrites = 4
INVARIANTS
  RestsDeployed
PROPERTIES
  CoverageKept
  
  Renewed
  
CHECK_DEADLOCK FALSE
