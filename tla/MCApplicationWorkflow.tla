----------------------- MODULE MCApplicationWorkflow -----------------------
(* The values the runs of the workflow give its constants.                  *)
EXTENDS ApplicationRefinement

\* Vacancies as an import leaves them: one that can be applied for with
\* success, one that can be prepared and never submitted.
Imported == {"NORMALIZED", "RECOMMENDED"}
OnlyRecommended == {"RECOMMENDED"}

OwnerTargets == {"VIEWED", "ARCHIVED"}
OnlyArchive == {"ARCHIVED"}
OnlyRejected == {"REJECTED"}
=============================================================================
