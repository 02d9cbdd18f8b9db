SPECIFICATION BriefSpec
CONSTANTS
  Texts <- MCTexts
  Answers <- MCAnswers
  Knowledge <- MCKnowledge
  Catalogues <- MCCatalogues
  Facts <- MCFacts
  MaxRestarts = 1
INVARIANTS
    SaidIsPlanned
    NothingInvented
PROPERTIES
    ConfirmedIsAnalysed
CHECK_DEADLOCK FALSE
