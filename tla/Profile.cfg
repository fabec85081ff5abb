SPECIFICATION Spec
CONSTANTS
  Workers = {w1, w2}
  Ids = {i1, i2}
  Resumes = {1, 2}
  CreatedAt <- CreationTimes
  Skills = {"sql"}
  Vacancies <- Postings
  Creations <- GoAndGeneral
  Patches <- OneField
  MaxClock = 3
  None = None
SYMMETRY Symmetry
INVARIANT TypeOK
PROPERTIES ResumesStayListed PatchedFieldsStay ChoiceFollowsChange
