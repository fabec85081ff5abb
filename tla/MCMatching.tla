----------------------------- MODULE MCMatching -----------------------------
(* Profiles and postings that differ from a base in one or two respects.   *)
EXTENDS Matching

\* "js" is an alias; a text with "javascript" has no "js" in it.
SomeCanonical == [w \in Words |-> IF w = "js" THEN "javascript" ELSE w]

DefaultWeights ==
  [part \in Parts |-> IF part = "role" THEN 20 ELSE IF part = "skills" THEN 30 ELSE 10]

BaseProfile ==
  [roles |-> {"js", "javascript"}, stopWords |-> {"intern"}, excludedCompanies |-> {},
   grades |-> {"middle"}, years |-> 3,
   primary |-> {"go", "sql"}, secondary |-> {"sql", "k8s"}, excludedSkills |-> {"k8s"},
   locations |-> {"moscow"}, remoteAllowed |-> FALSE, relocationAllowed |-> FALSE,
   minimum |-> 2, currencies |-> {"RUR"}, employments |-> {"full"}, others |-> FALSE]

BasePosting ==
  [title |-> {"javascript"}, text |-> {"javascript"}, company |-> "acme",
   blacklisted |-> FALSE, old |-> FALSE, grade |-> "middle", skills |-> {"go"},
   location |-> "moscow", remote |-> FALSE, from |-> 1, to |-> 2, currency |-> "RUR",
   employment |-> "full"]

SomeProfiles ==
  LET p == BaseProfile IN
  {p,
   [p EXCEPT !.roles = {"js"}],
   [p EXCEPT !.roles = {}, !.stopWords = {}],
   [p EXCEPT !.excludedCompanies = {"acme"}],
   [p EXCEPT !.grades = {"middle", "senior"}, !.years = 5],
   [p EXCEPT !.grades = {}, !.years = 0],
   [p EXCEPT !.secondary = {}, !.excludedSkills = {}],
   [p EXCEPT !.primary = {}, !.secondary = {"k8s"}],
   [p EXCEPT !.locations = {}, !.remoteAllowed = TRUE],
   [p EXCEPT !.locations = {"moscow", "kazan"}, !.relocationAllowed = TRUE],
   [p EXCEPT !.locations = {Blank}],
   [p EXCEPT !.minimum = 0],
   [p EXCEPT !.minimum = 1, !.currencies = {"RUR", "USD"}],
   [p EXCEPT !.currencies = {}, !.employments = {}],
   [p EXCEPT !.employments = {}, !.others = TRUE]}

Changes(v) ==
  {v,
   [v EXCEPT !.title = {"js"}, !.text = {"js", "javascript"}],
   [v EXCEPT !.title = {}],
   [v EXCEPT !.text = @ \cup {"intern"}],
   [v EXCEPT !.blacklisted = TRUE],
   [v EXCEPT !.old = TRUE],
   [v EXCEPT !.grade = "senior"],
   [v EXCEPT !.grade = "lead"],
   [v EXCEPT !.grade = Blank],
   [v EXCEPT !.skills = {}],
   [v EXCEPT !.skills = {"go", "sql", "k8s"}],
   [v EXCEPT !.location = "kazan"],
   [v EXCEPT !.location = Blank],
   [v EXCEPT !.remote = TRUE],
   [v EXCEPT !.from = 3],
   [v EXCEPT !.from = Unnamed],
   [v EXCEPT !.to = 1],
   [v EXCEPT !.to = Unnamed],
   [v EXCEPT !.from = Unnamed, !.to = Unnamed],
   [v EXCEPT !.currency = "USD"],
   [v EXCEPT !.currency = Blank],
   [v EXCEPT !.employment = "part"]}

SomePostings == UNION {Changes(v) : v \in Changes(BasePosting)}
=============================================================================
