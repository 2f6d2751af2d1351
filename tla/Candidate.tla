----------------------------- MODULE Candidate -----------------------------
(***************************************************************************)
(* The contract of a session's candidate: what its fields may say together *)
(* for each role, and what the run loop makes of one that is accepted.     *)
(***************************************************************************)

Outcomes == {"completed", "needs_clarification", "needs_research", "failed"}

\* The [clarification] table.  blocks names the route, or nothing; options: what
\* recommended_option is to the options listed; details: the sections its shape needs.
ClarificationTables ==
    [fields : BOOLEAN, scope : BOOLEAN, blocks : {"route", "none", "unknown"},
     shape : {"choice", "text", "file-edit", "unknown"},
     option : {"listed", "unlisted", "none"}, details : BOOLEAN]

\* "answer" stops the route, "advice" blocks nothing.
ReadClarification(t) ==
    IF /\ t.fields /\ t.scope /\ t.details
       /\ t.blocks # "unknown" /\ t.shape # "unknown"
       /\ t.shape = "choice" => t.option = "listed"
    THEN IF t.blocks = "none" THEN "advice" ELSE "answer"
    ELSE "malformed"

\* The [research] table; its scope is the route of the session, another one, or none.
ResearchTables ==
    [fields : BOOLEAN, title : {"one line", "long", "many lines"},
     scope : {"route", "elsewhere", "unknown"},
     criteria : {"distinct", "repeated", "many lines"}]

\* "misplaced" research is not about the route of the session.
ReadResearch(t) ==
    IF t.fields /\ t.title = "one line" /\ t.scope # "unknown" /\ t.criteria = "distinct"
    THEN IF t.scope = "route" THEN "research" ELSE "misplaced"
    ELSE "malformed"

Clarifications == {"absent"} \cup {ReadClarification(t) : t \in ClarificationTables}
Researches == {"absent"} \cup {ReadResearch(t) : t \in ResearchTables}

\* planning: the planner's planning_complete; issues: the entries of open_issues.
Candidates ==
    [outcome : Outcomes \cup {"other"}, planning : {"absent", "continues", "complete"},
     issues : {"none", "some", "unrecoverable"},
     clarification : Clarifications, research : Researches]

KnownOutcome(c) == c.outcome \in Outcomes

GivesPlanning(role, c) == c.planning # "absent" <=> role = "planner"

\* A table is there for its outcome and for no other.
AsksForAnswer(c) ==
    /\ c.outcome = "needs_clarification" <=> c.clarification # "absent"
    /\ c.clarification # "malformed"

MayResearch(role) == role \in {"architect", "planner", "developer"}

AsksForResearch(role, c) ==
    /\ c.outcome = "needs_research" <=> c.research # "absent"
    /\ c.research # "malformed"
    /\ c.outcome = "needs_research" => MayResearch(role)

SaysWhatFailed(c) == c.outcome = "failed" => c.issues # "none"

\* A developer that completes its task reports no open issue.
CompletesTask(role, c) == role = "developer" /\ c.outcome = "completed" => c.issues = "none"

Recoverable(c) == c.issues # "unrecoverable"

WellFormed(role, c) ==
    /\ KnownOutcome(c) /\ GivesPlanning(role, c)
    /\ AsksForAnswer(c) /\ AsksForResearch(role, c)
    /\ SaysWhatFailed(c) /\ CompletesTask(role, c) /\ Recoverable(c)

\* What an accepted candidate asks for comes before what it reports.
AsksFor(c) ==
    IF c.research # "absent" THEN c.research
    ELSE IF c.clarification # "absent" THEN c.clarification
    ELSE "nothing"

Result(c) ==
    [asks |-> AsksFor(c), completed |-> c.outcome = "completed",
     complete |-> c.planning = "complete"]

ResultsOf(role) == {Result(c) : c \in {d \in Candidates : WellFormed(role, d)}}
=============================================================================
