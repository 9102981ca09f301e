\* A refresh has its lists and not yet applied them when a server is disabled.
CONSTANTS
  s1 = s1
  s2 = s2
  s3 = s3
  nameOf12 = nameOf12
  nameOf3 = nameOf3
  Servers = {s1, s3}
  Tools = {t}
  Prefix <- MCPrefix
  Earlier <- MCEarlier
  Actions = {a1}
  Syncs = {r1}
  MaxVersion = 2
  MaxChanges = 2
  None = None
SPECIFICATION McpSpec
INVARIANTS DisabledHasNoTools
CHECK_DEADLOCK FALSE
