--------------------------- MODULE MCMetadataStore ---------------------------
(* Two blueprints while saves do not overlap, one when they may.           *)
EXTENDS MetadataStore

MCInit == Init /\ IF serial THEN disk = Path ELSE Cardinality(disk) = 1

MCSpec == MCInit /\ [][Next]_vars /\ Fairness
==============================================================================
