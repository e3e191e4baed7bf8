SPECIFICATION Spec
CONSTANTS
  Null = Null
  Objects <- MCObjects
  Stores <- MCStores
  JksFiles <- MCJksFiles
  Bag <- MCBag
  Pkcs12Files <- MCPkcs12Files
  Key6Files <- MCKey6Files
  W = 16
  Shift = 8
  Rest = 2
  Radix = 4
  Digits = 2
  ByteSize = 4
  BytesPerWord = 2
  WordXor <- MCWordXor
INVARIANTS
  StoresOwnAll
  CountersAgree
  StoreLives
  
  SlotsFilled
  NothingHeld
 
CHECK_DEADLOCK FALSE
