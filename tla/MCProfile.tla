----------------------------- MODULE MCProfile -----------------------------
(* The values the run of the profile gives its constants: two resumes, of   *)
(* which the second is older, and patches of one field.                     *)
EXTENDS Profile, TLC

Symmetry == Permutations(Workers) \cup Permutations(Ids)

CreationTimes == [r \in Resumes |-> 10 - r]

GoAndGeneral ==
  {[role |-> "GO_BACKEND", skills |-> {"sql"}, active |-> FALSE],
   [role |-> "GENERAL_BACKEND", skills |-> {}, active |-> TRUE]}

NoPatch == [role |-> None, skills |-> None, active |-> None]

OneField ==
  {[NoPatch EXCEPT !.role = "GO_BACKEND"], [NoPatch EXCEPT !.active = TRUE],
   [NoPatch EXCEPT !.active = FALSE]}

\* A posting for an analyst, one that names MongoDB, and one with no hint.
Postings ==
  {[text |-> {"python", "system analyst"}, skills |-> {"sql"}],
   [text |-> {"go"}, skills |-> {"sql"}],
   [text |-> {}, skills |-> {}]}
=============================================================================
