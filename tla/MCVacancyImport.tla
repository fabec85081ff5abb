-------------------------- MODULE MCVacancyImport --------------------------
(* The values the runs of the import give its constants.                    *)
EXTENDS VacancyImport

\* Each content names an employer of its own, or none.
OwnEmployer == [c \in Contents |-> IF c \in Companies THEN c ELSE None]

\* What an import may do to a decision shows with the verdict that offers.
OnlyRecommended == {"RECOMMENDED"}

\* The decision that counts most: the owner archives a vacancy.
OnlyArchive == {"ARCHIVED"}

\* One posting may leave out its employer, the others never do.
OneMayOmit ==
  [p \in Postings |-> IF p = CHOOSE q \in Postings : TRUE
                      THEN Contents ELSE Contents \cap Companies]
=============================================================================
