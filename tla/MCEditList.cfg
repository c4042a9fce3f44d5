CONSTANTS
  Pos <- MCPos
  Root <- MCRoot
  Parent <- MCParent
  Below <- MCBelow
  Kind <- MCKind
  Kids <- MCKids
  Case <- MCCase
  ChoiceOf <- MCChoiceOf
  Default <- MCDefault
  When <- MCWhen
  Val = {v1, v2}
  v1 = v1
  v2 = v2
  Obj = Obj
  Absent = Absent
  NoCase = NoCase
  NoWhen = NoWhen
  Requests <- MCRequests
  Sources <- MCSources
  Targets <- MCTargets
SPECIFICATION Spec
INVARIANTS
  TypeOK
  EditInv
PROPERTIES
  StoreSpec
  Returns
