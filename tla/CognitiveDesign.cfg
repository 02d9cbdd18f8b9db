SPECIFICATION DesignSpec
CONSTANTS
  None = none
  Nothing = none
  none = none
  mast = mast
  panel = panel
  Assets = {mast, panel}
  Plans <- MCPlans
  Replies <- MCReplies
  Sources <- MCSources
  Changes = 1
  Revisions = 1
  MaxRepairs = 2
INVARIANTS
    BuiltAsJudged
    ServedAsPlanned
PROPERTIES
    ChangesAreDisclosed
    RevisionReproduces
