SPECIFICATION Spec
CONSTANTS
  Bases = {"a", "b"}
  Tags = {"t"}
  Domains = {"d1", "d2"}
  Alternatives = {"alt"}
  AliasKeys <- MCAliasKeys
  RealName <- MCRealName
  Mailboxes <- MCMailboxes
  Outside <- MCOutside
  Wildcards <- MCWildcards
  Destinations <- MCDestinations
  MaxAliases = 3
  MaxEdits = 3
  Focuses = {"aliases", "settings", "relays"}
  None = None
CHECK_DEADLOCK FALSE
INVARIANTS
  
  
  
  OwnerDecides
  
