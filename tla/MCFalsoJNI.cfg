SPECIFICATION JniSpec
CONSTANTS
  t1 = t1
  t2 = t2
  o1 = o1
  Null = Null
  Threads <- MCThreads
  Objects <- MCObjects
  Texts <- MCTexts
  UnitTexts <- MCUnitTexts
  Garbage <- MCGarbage
  Lengths <- MCLengths
  DeletedKinds <- MCDeletedKinds
INVARIANTS CopyIsExact EveryMethodAnswers
