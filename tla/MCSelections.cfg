CONSTANTS
  Pos <- MCPos
  Root <- MCRoot
  Parent <- MCParent
  Below <- MCBelow
  Kind <- MCKind
  Kids <- MCKids
  Case <- MCCase
  ChoiceOf <- MCChoiceOf
  Default <- MCDefault
  When <- MCWhen
  Name <- MCName
  Ident <- MCIdent
  Config <- MCConfig
  Val = {v1, v2}
  v1 = v1
  v2 = v2
  Obj = Obj
  Absent = Absent
  NoCase = NoCase
  NoWhen = NoWhen
  Bad = Bad
  Sources <- MCSources
  Queries <- MCQueries
  MaxAsked = 2
SPECIFICATION Spec
INVARIANTS
  TypeOK
  PartOfWhole
  AsAsked
  AddedToExisting
  PlainSelectorsAreSafe
