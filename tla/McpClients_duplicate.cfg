\* A list comes in while its connection is closed for a new sign-in.
CONSTANTS
  s1 = s1
  s2 = s2
  s3 = s3
  nameOf12 = nameOf12
  nameOf3 = nameOf3
  Servers = {s1, s3}
  Tools = {t}
  Prefix <- MCPrefix
  Earlier <- MCEarlier
  Actions = {a1}
  Syncs = {r1}
  MaxVersion = 2
  MaxChanges = 2
  None = None
SPECIFICATION McpSpec
INVARIANTS NoDuplicateTools
CHECK_DEADLOCK FALSE
