SPECIFICATION MCSpec
CONSTANTS
  Messages <- MCMessages
  DamageBytes = {0, 1, 3}
  MaxDamages = 2
  Damaged <- MCDamaged
  MaximumDepth = 3
  MaximumU32 = 65535
INVARIANTS
  WireExact
  TextsExact
  AcceptsExactlyJson
  ReadBack
  ListsLoad
CHECK_DEADLOCK FALSE
