CONSTANTS
  NULL = NULL
  c1 = c1
  c2 = c2
  Conns = {c1, c2}
  Script <- MCScript
  Conforming <- MCConforming
  Noise <- MCNoise
  decode_message <- MCdecode_message
  Scripts <- MCScripts
  PolitenessOf <- MCPolitenessOf
  Noisy = {c1}
  MaxNoise = 1
  InCap = 1
  Int16Max = 20
SPECIFICATION FairSpec
INVARIANTS DecodedAsSent AnsweredOnce HolderPublishes
PROPERTY EventuallyServed
CHECK_DEADLOCK FALSE
