----------------------------- MODULE MCCandidate -----------------------------
(* First reports of every legal status from the kinds and tiers of           *)
(* config/sources.yaml; later ones official, official but unlabelled, media. *)
EXTENDS Candidate

RegistryReports ==
    {[kind |-> s[1], tier |-> s[2], status |-> status] :
        s \in {<<"police", "A1">>, <<"court", "A1">>, <<"regulator", "A2">>, <<"media", "B">>}, status \in LegalStatuses}
SomeReports ==
    {[kind |-> "police", tier |-> "A1", status |-> "reported_case"], [kind |-> "police", tier |-> "A1", status |-> "judgment"],
     [kind |-> "media", tier |-> "B", status |-> "unknown"]}
=============================================================================
