------------------------------ MODULE Statuses ------------------------------
(***************************************************************************)
(* The two status machines every other module speaks about: the statuses   *)
(* of a vacancy (internal/core/types.go) and of an application             *)
(* (internal/core/application.go), with the tables of legal transitions    *)
(* and the helpers the application use cases build on them.  Nothing here  *)
(* has state.                                                              *)
(***************************************************************************)

VacancyStatuses ==
  {"DISCOVERED", "NORMALIZED", "DUPLICATE", "FILTERED_OUT", "RECOMMENDED",
   "APPLICATION_PREPARED", "WAITING_APPROVAL", "SUBMITTED", "VIEWED",
   "HR_CONTACT", "INTERVIEW", "OFFER", "REJECTED", "ARCHIVED"}

\* What a vacancy may become once its application has been answered or seen.
LOCAL Answers == {"HR_CONTACT", "INTERVIEW", "OFFER", "REJECTED"}

vacancyTransitions ==
  [s \in VacancyStatuses |->
    CASE s = "DISCOVERED" ->
           {"NORMALIZED", "DUPLICATE", "FILTERED_OUT", "RECOMMENDED", "ARCHIVED"}
      [] s = "NORMALIZED" ->
           {"DUPLICATE", "FILTERED_OUT", "RECOMMENDED", "ARCHIVED"}
      [] s = "RECOMMENDED" ->
           {"APPLICATION_PREPARED", "WAITING_APPROVAL", "SUBMITTED", "VIEWED",
            "ARCHIVED"} \cup Answers
      [] s = "APPLICATION_PREPARED" -> {"WAITING_APPROVAL", "ARCHIVED"}
      [] s = "WAITING_APPROVAL"     -> {"SUBMITTED", "ARCHIVED"}
      [] s = "SUBMITTED"            -> {"VIEWED", "ARCHIVED"} \cup Answers
      [] s = "VIEWED"               -> {"ARCHIVED"} \cup Answers
      [] s = "HR_CONTACT" -> {"INTERVIEW", "OFFER", "REJECTED", "ARCHIVED"}
      [] s = "INTERVIEW"  -> {"OFFER", "REJECTED", "ARCHIVED"}
      [] s \in {"DUPLICATE", "FILTERED_OUT", "OFFER", "REJECTED"} -> {"ARCHIVED"}
      [] s = "ARCHIVED"   -> {}]

CanTransitionVacancyStatus(from, to) ==
  from = to \/ to \in vacancyTransitions[from]

-----------------------------------------------------------------------------

ApplicationStatuses ==
  {"DRAFT", "WAITING_APPROVAL", "APPROVED", "MANUAL_ACTION_REQUIRED",
   "SUBMITTED", "CANCELLED", "HR_CONTACT", "INTERVIEW", "OFFER", "REJECTED"}

applicationTransitions ==
  [s \in ApplicationStatuses |->
    CASE s = "DRAFT"                  -> {"WAITING_APPROVAL", "CANCELLED"}
      [] s = "WAITING_APPROVAL"       -> {"APPROVED", "CANCELLED"}
      [] s = "APPROVED"               -> {"MANUAL_ACTION_REQUIRED", "CANCELLED"}
      [] s = "MANUAL_ACTION_REQUIRED" -> {"SUBMITTED", "CANCELLED"}
      [] s = "SUBMITTED"              -> {"HR_CONTACT", "INTERVIEW", "REJECTED"}
      [] s = "HR_CONTACT"             -> {"INTERVIEW", "REJECTED"}
      [] s = "INTERVIEW"              -> {"OFFER", "REJECTED"}
      [] s \in {"OFFER", "REJECTED", "CANCELLED"} -> {}]

CanTransitionApplicationStatus(from, to) ==
  from = to \/ to \in applicationTransitions[from]

\* The statuses that occupy the one application a vacancy may have open; the
\* partial unique index of the applications table covers the same set.
IsActiveStatus(s) == s \notin {"CANCELLED", "REJECTED"}

\* isOutcomeStatus: the answers of an employer the owner may record.
OutcomeStatuses == {"HR_CONTACT", "INTERVIEW", "OFFER", "REJECTED"}

\* The two types spell these statuses alike, so the conversion keeps the word.
VacancyStatusForOutcome(s) ==
  IF s \in OutcomeStatuses THEN s ELSE "RECOMMENDED"

AuditActions ==
  {"APPLICATION_PREPARED", "APPLICATION_APPROVED", "APPLICATION_CANCELLED",
   "APPLICATION_MARKED_SUBMITTED", "APPLICATION_HR_CONTACT",
   "APPLICATION_INTERVIEW", "APPLICATION_OFFER", "APPLICATION_REJECTED"}

auditActionForOutcome(s) ==
  CASE s = "HR_CONTACT" -> "APPLICATION_HR_CONTACT"
    [] s = "INTERVIEW"  -> "APPLICATION_INTERVIEW"
    [] s = "OFFER"      -> "APPLICATION_OFFER"
    [] s = "REJECTED"   -> "APPLICATION_REJECTED"
    [] OTHER            -> "APPLICATION_PREPARED"
=============================================================================
