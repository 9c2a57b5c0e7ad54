SPECIFICATION Spec
CONSTANTS
  Names <- SomeNames
  NoPatch = NoPatch
  Readings <- SomeReadings
  Folded <- LowerCase
  NextName <- Increment
  Empty <- EmptyPatches
  MaxPatches = 3
  PicksAtOnce = 1
  Locators <- SomeLocators
  Selections <- SomeSelections
  Numbers <- SomeNumbers
  BaseDepth = 1
  GitRevisions = {"a", "2"}
  Texts <- SomeTexts
  Messages <- SomeMessages
  LengthLimits <- SomeLimits
  EditMessages <- SomeEditMessages
  EditAuthors <- SomeAuthors
  Typed <- SomeTyped
  MailMessages <- SomeMailMessages
INVARIANTS NoCollisions OthersStayPut SinkPlaces LocatorsAgree RevisionsAgree MadeNamesValid ParsersAgree ExportImportKeeps UntouchedEditKeeps EditedNamesFree
