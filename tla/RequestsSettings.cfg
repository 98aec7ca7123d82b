SPECIFICATION Spec
CONSTANTS
  Tables <- MCTables
  Urls <- MCUrls
  Databases <- MCDatabases
  Forms <- MCForms
  Raw <- MCRaw
  SdkCalls <- MCSdkCalls
  Alphabet <- MCAlphabet
  MaxDigits = 2
  MaxPairs = 3
  IntModulus = 16
  MaxFileName = 6
  FieldSize = 4
  MaxDuration = 12
  MaxRam = 20
  SortThreshold = 3
  MaxAsks = 2
  MaxCalls = 1
PROPERTIES
  SettingsApplied
