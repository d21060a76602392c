---------------------------- MODULE MCDlqReplay -----------------------------
(* Small instances of DlqReplay. *)
EXTENDS DlqReplay

\* Every original has one endpoint.
OneEndpoint == [d \in Originals |-> CHOOSE e \in Endpoints : TRUE]

OneFilter == {Endpoints}

\* One endpoint.
EndpointFilters == {{e} : e \in Endpoints}
=============================================================================
