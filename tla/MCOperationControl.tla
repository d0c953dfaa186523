-------------------------- MODULE MCOperationControl --------------------------
(***************************************************************************)
(* Values for model checking OperationControl: a session writer, two       *)
(* background roots and an exclusive one, each of a kind of its own.       *)
(***************************************************************************)
EXTENDS OperationControl

MCClass == [r \in Root |-> CASE r = "w" -> "SessionWriteRoot"
                             [] r = "x" -> "RuntimeWrite"
                             [] OTHER -> "NonSessionRoot"]
MCKind == [r \in Root |-> r]
=============================================================================
