---------------------------- MODULE MCSearchRun -----------------------------
(* The values the run of the search gives its constants.                    *)
EXTENDS SearchRun

\* A date in the past, which is as no header at all: a pause of a second.
SomeRetryAfters == {-1}
=============================================================================
