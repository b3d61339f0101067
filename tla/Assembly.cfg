SPECIFICATION Spec
CONSTANTS
  Sources <- MCSources
  Letter <- MCLetter
INVARIANTS LinesLinked OutputMeansSource
PROPERTIES ExpansionSubstitutes DefinitionsKept
