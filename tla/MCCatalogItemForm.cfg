\* Forms of two items for every combination of hints and contexts, while the calls are
\* answered in any order or fail.
SPECIFICATION FormSpec
CONSTANTS
  Numerals <- Words
  IsoDates <- Iso
  SlashDates <- Slashes
  Weekday = 3
  Variables <- AllVariables
  MaxVariables = 12
  Catalog <- Items
  Requests <- Calls
  Tables <- KnownTables
  Rows <- Answers
  Nothing = Nothing
INVARIANTS
  FlakyLookupsAreLocal
  PrefillIsAccountedFor
  ChoicesAreReal
  NamedChoiceWins
PROPERTIES
  FormIsAnswered
