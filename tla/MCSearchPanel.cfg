SPECIFICATION Spec
CONSTANTS
  Chars <- MCChars
  Space = " "
  LowerOf <- MCLowerOf
  IdOf <- MCIdOf
  Rows <- MCRows
  Label <- MCLabel
  Content <- MCContent
  Texts <- MCTexts
  MaxLost = 1
INVARIANTS TypeOK ResultsCatchUp PanelAgrees PointerKeepsList KeysWalkLines
PROPERTY TextKept
