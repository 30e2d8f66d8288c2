SPECIFICATION Spec
CONSTANTS
  Fields <- EdgeFields
  Payloads <- SignedPayloads
  Files <- ShortFiles
  Damages <- DamagedBytes
  MaxDamaged = 2
INVARIANTS
  DeliveredAsBuilt
  HeaderDamageRejected
  DamageIsCaught
  CrcIsStandard
