---------------------------- MODULE MCModelCatalogue ----------------------------
(* One provider with one model, and the official list with one of Cursor's. *)
EXTENDS ModelCatalogue

MCDocuments ==
  {<<[id |-> "p", enabled |-> TRUE, key |-> TRUE,
      models |-> <<[id |-> "mine", enabled |-> TRUE, wire |-> "m"]>>]>>}
MCOfficial == {{"own"}}
=============================================================================
