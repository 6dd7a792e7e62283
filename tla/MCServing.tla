------------------------------- MODULE MCServing -------------------------------
(***************************************************************************)
(* Admitting requests, what a turn's candidate is grounded on (recalled    *)
(* questions, the adapter's reports, the company's knowledge and the facts *)
(* they make), and the journal of the turn's calls. None of the six reads  *)
(* what another keeps, so every behavior is one of one of them.            *)
(***************************************************************************)
EXTENDS Admission, AdapterReads, KnowledgeLookup, Recall, Grounding, TurnJournal, TLC

VARIABLE part

servingVars ==
    <<part, admissionVars, readsVars, knowledgeVars, recallVars, groundingVars, vars>>

\* The one of the parts that runs; the others stay as they began.
MCInit ==
    /\ part \in {"admission", "reads", "knowledge", "recall", "grounding", "journal"}
    /\ AdmissionInit /\ ReadsInit /\ KnowledgeInit /\ RecallInit /\ GroundingInit /\ Init
    /\ part # "journal" => scene = "group" /\ settings = [gemini |-> FALSE, keys |-> {}]

MCNext ==
    /\ UNCHANGED part
    /\ \/ /\ part = "admission" /\ AdmissionNext
          /\ UNCHANGED <<readsVars, knowledgeVars, recallVars, groundingVars, vars>>
       \/ /\ part = "reads" /\ ReadsNext
          /\ UNCHANGED <<admissionVars, knowledgeVars, recallVars, groundingVars, vars>>
       \/ /\ part = "knowledge" /\ KnowledgeNext
          /\ UNCHANGED <<admissionVars, readsVars, recallVars, groundingVars, vars>>
       \/ /\ part = "recall" /\ RecallNext
          /\ UNCHANGED <<admissionVars, readsVars, knowledgeVars, groundingVars, vars>>
       \/ /\ part = "grounding" /\ GroundingNext
          /\ UNCHANGED <<admissionVars, readsVars, knowledgeVars, recallVars, vars>>
       \/ /\ part = "journal" /\ Next
          /\ UNCHANGED <<admissionVars, readsVars, knowledgeVars, recallVars, groundingVars>>

MCSpec == MCInit /\ [][MCNext]_servingVars

\* Settings that are complete or turn direct conversations off, and requests with one
\* flaw or none.
SomeDeployments == {{}, {"dm"}}
SomeFlaws == {{}, {"tenant"}, {"length"}}

\* Capabilities that pass, break the contract, or lack the direct scene.
SomeAdverts == {{}, {"contract"}, {"scene"}}

\* Two documents, of which one may be asked for at a time.
TwoDocuments == <<"doc1", "doc2">>

\* An entry that shows two images and loses one of them when its text is sanitized.
OneEntry ==
    [entry1 |-> [images |-> {"i1", "i2"}, shows |-> {"i1", "i2"}, lost |-> {"i2"},
                 says |-> TRUE]]

\* Scores, coverages and sizes on both sides of every threshold.
SomeStaticRows ==
    [id : {1, 2}, score : {0, 40, 90}, coverage : {50, 90}, matched : BOOLEAN,
     answers : BOOLEAN, bytes : {1}]
SomeDocumentRows == [id : {1, 2}, score : {0, 40, 70, 95}, bytes : {1, 3}]

\* A group with everything granted and offered, a group without sales, a direct conversation.
Business == {m \in Manifests : m.of # "general"}
SomeGrants ==
    {[scene |-> "group", reads |-> Business, actions |-> Artifacts, mentions |-> TRUE,
      artifacts |-> Artifacts, options |-> Options],
     [scene |-> "group", reads |-> Business, actions |-> {"material_pack"}, mentions |-> FALSE,
      artifacts |-> Artifacts, options |-> {}],
     [scene |-> "direct", reads |-> {CompanyKnowledge}, actions |-> {}, mentions |-> FALSE,
      artifacts |-> {}, options |-> {}]}

\* Units with and without products, of one or of two capabilities, that share what is found
\* or must not.
Pack(option, products) ==
    Unit(Manifest("material_pack", "send"), "send", option, NoQuery, products)
Knowing(query, products) == Unit(CompanyKnowledge, "answer", NoOption, query, products)
Listed(products) ==
    Unit(Manifest("weekly_report", "product_list"), "answer", NoOption, NoQuery, products)
Handoff(products) == Unit(SalesHandoff, "handoff", NoOption, NoQuery, products)
SomeUnitLists ==
    {<<Pack("o1", FALSE)>>, <<Pack("o1", TRUE)>>, <<Pack(NoOption, FALSE), Pack("o1", FALSE)>>,
     <<Pack("o1", FALSE), Pack("o2", FALSE)>>, <<Pack("o2", TRUE), Handoff(FALSE)>>,
     <<Unit(Manifest("weekly_report", "send"), "send", NoOption, NoQuery, TRUE), Listed(TRUE)>>,
     <<Handoff(FALSE)>>, <<Listed(FALSE), Knowing("q", TRUE)>>, <<Listed(FALSE), Listed(TRUE)>>,
     <<Knowing("q", FALSE)>>, <<Knowing("q", FALSE), Knowing("r", TRUE)>>,
     <<Knowing("q", FALSE), Knowing(NoQuery, FALSE)>>,
     <<Knowing("q", TRUE), Knowing("r", TRUE)>>, <<PlainUnit(General("smalltalk"), "smalltalk")>>,
     <<PlainUnit(General("handoff"), "handoff")>>, <<PlainUnit(General("refusal"), "refuse")>>}

Interchangeable == Permutations(Posts) \cup Permutations(Lookups)
================================================================================
