-------------------------------- MODULE MCStudio --------------------------------
(* A backend as it comes, one peculiarity of its installation at a time, and the two
   panels one after the other. *)
EXTENDS Studio

Plain == [exports |-> {}, notes |-> {}, elsewhere |-> FALSE, packages |-> {"openai"},
          panels |-> {"settings"}]

MCOperators ==
  {Plain, [Plain EXCEPT !.elsewhere = TRUE], [Plain EXCEPT !.packages = {"litellm"}],
   [Plain EXCEPT !.panels = {"authoring"}]}
  \cup {[Plain EXCEPT !.exports = vs] : vs \in {{Generic("llm"), Generic("model")}, {KeyVar("openai")}}}
  \cup {[Plain EXCEPT !.notes = parts] : parts \in {{"model"}, {"url", "key"}}}
=================================================================================
