CONSTANTS
  p1 = p1
  p2 = p2
  Phrases <- TwoPhrases
  Texts <- TextsWithPhrase
  Files <- TwoFiles
  MaxEdits = 2
  MaxWrites = 2
SPECIFICATION Spec
INVARIANT
  InstitutionSpared
