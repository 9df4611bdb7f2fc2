SPECIFICATION Spec
CONSTANTS
  Keys = {k1, k2}
  WrongSize = wrongSize
  Garbled = garbled
  NoCipher = noCipher
  Failing <- Calls
  MaxPackets = 4
CHECK_DEADLOCK FALSE
INVARIANTS
  TypeOK ContextsOwned LoginIsEncrypted
  PlayMeansCipher PlayerKnewToken
