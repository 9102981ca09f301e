\* Two name-sakes and a third server, two server actions and the refresh.
CONSTANTS
  s1 = s1
  s2 = s2
  s3 = s3
  nameOf12 = nameOf12
  nameOf3 = nameOf3
  Servers = {s1, s2, s3}
  Tools = {t}
  Prefix <- MCPrefix
  Earlier <- MCEarlier
  Actions = {a1, a2}
  Syncs = {r1}
  MaxVersion = 2
  MaxChanges = 2
  None = None
SPECIFICATION McpSpec
SYMMETRY Symmetry
CONSTRAINT Uncrossed
INVARIANTS RegistryFollows NamesInUse
CHECK_DEADLOCK FALSE
