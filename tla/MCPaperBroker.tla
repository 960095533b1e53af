--------------------------- MODULE MCPaperBroker ---------------------------
(* Values for PaperBroker's constants that a .cfg cannot write. *)
EXTENDS PaperBroker

LongOnly == {0, 1}
ShortOnly == {-1}
NoTargets == {}
BothWays == {-1, 1}
=============================================================================
