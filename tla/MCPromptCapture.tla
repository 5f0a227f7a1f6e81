--------------------------- MODULE MCPromptCapture ---------------------------
(* Instances of PromptCapture for TLC: all events carry all tags.            *)
EXTENDS PromptCapture, TLC

AllTags == [e \in Events |-> Tags]

\* Events, tags and requests are interchangeable.
Symmetry == Permutations(Events) \cup Permutations(Tags) \cup Permutations(Requests)
==============================================================================
