----------------------------- MODULE Auxiliary -----------------------------
(***************************************************************************)
(* The agents that serve a stopped route.  The resolver answers one        *)
(* clarification and may edit the files that it lists; the researcher      *)
(* answers one request and may edit nothing.  Here is which attempts are   *)
(* accepted, and what a refused one leaves in the worktree.                *)
(***************************************************************************)

\* Files that a clarification lists, DevLab's own state, and everything else.
Paths == {"listed", "state", "other"}
Shapes == {"choice", "text", "file-edit"}

\* answer.json, if there is one: the clarification and the shape it claims, and its value.
AnswerFiles ==
    [of : {"this", "another", "no file"}, shape : Shapes \cup {"other"},
     value : {"option", "text", "empty"}]

\* listed: the listed files exist when the agent is done.
Attempts ==
    [succeeds : BOOLEAN, edits : SUBSET Paths, listed : BOOLEAN,
     answer : AnswerFiles]

ListedForEdit(shape) == IF shape = "file-edit" THEN {"listed"} ELSE {}
Forgets(shape, a) == a.succeeds /\ shape = "file-edit" /\ ~a.listed
Unexpected(shape, a) == a.edits \ ListedForEdit(shape)

UsableAnswer(shape, f) ==
    /\ f.of = "this" /\ f.shape = shape /\ f.value # "empty"
    /\ shape = "choice" => f.value = "option"

Resolves(shape, a) ==
    /\ a.succeeds /\ ~Forgets(shape, a) /\ Unexpected(shape, a) = {}
    /\ UsableAnswer(shape, a.answer)

\* DevLab's own files are restored, but not before the listed files are looked for;
\* the other edits stay.
Remain(shape, a) ==
    IF ~Forgets(shape, a) /\ Unexpected(shape, a) # {} THEN a.edits \ {"state"} ELSE a.edits

ResolverOutcomes ==
    {[answers |-> Resolves(shape, a), edited |-> Remain(shape, a) # {}] :
        shape \in Shapes, a \in Attempts}

-----------------------------------------------------------------------------
(* The researcher *)

\* result.json, if there is one: its sources, and what its evidence cites.
ResultFiles ==
    [of : {"this", "another", "no file"}, fields : BOOLEAN, sources : {"distinct", "repeated", "none"},
     evidence : {"cites sources", "cites others", "cites nothing", "none"},
     unresolved : {"questions", "none", "reserved"}]

ResultIsValid(r) ==
    /\ r.of = "this" /\ r.fields /\ r.sources = "distinct"
    /\ r.evidence = "cites sources" /\ r.unresolved # "reserved"

\* Whatever it edited is put back, and refused.
Restored(edits) == {}

Completes(succeeds, edits, result) ==
    succeeds /\ edits = {} /\ ResultIsValid(result)

ResearcherOutcomes ==
    {[answers |-> Completes(s, edits, r), edited |-> Restored(edits) # {}] :
        s \in BOOLEAN, edits \in SUBSET Paths, r \in ResultFiles}
=============================================================================
