------------------------------ MODULE MCServices ------------------------------
(***************************************************************************)
(* The small concurrent services side by side: provider calls, compaction, *)
(* operations, authorizations, product events, language servers, the       *)
(* change tracker and rewinds.  A behaviour is one of exactly one of them, *)
(* the `part`; the others keep their initial state, so that the state      *)
(* space is the sum of theirs and not the product.                         *)
(***************************************************************************)
EXTENDS ProviderSend, CompactionHistory, MCOperationControl, Authorization, EventStream,
        LspServer, HunkTracker, Rewind, TLC

MCOwner == [c \in Call |-> "operation"]
MCAdmitted == [o \in Operation |-> 1]

\* Two contents of one line and a long one, which moves what is below it past
\* the lines between two places.
MCLinesOf == (0 :> 1) @@ (1 :> 1) @@ (2 :> 9)

\* Callers, children and tool calls that edit are interchangeable in the safety run.
Interchangeable ==
  Permutations(Callers) \cup Permutations(Child) \cup Permutations(Editor)

VARIABLE part

servicesVars == <<vars, historyVars, opVars, authVars, streamVars, lspVars, hunkVars, rewindVars,
                  part>>

Part == {"send", "history", "operations", "authorization", "stream", "lsp", "hunks", "rewind"}

Only(p) ==
  /\ part = p /\ UNCHANGED part
  /\ IF p = "send" THEN TRUE ELSE UNCHANGED vars
  /\ IF p = "history" THEN TRUE ELSE UNCHANGED historyVars
  /\ IF p = "operations" THEN TRUE ELSE UNCHANGED opVars
  /\ IF p = "authorization" THEN TRUE ELSE UNCHANGED authVars
  /\ IF p = "stream" THEN TRUE ELSE UNCHANGED streamVars
  /\ IF p = "lsp" THEN TRUE ELSE UNCHANGED lspVars
  /\ IF p = "hunks" THEN TRUE ELSE UNCHANGED hunkVars
  /\ IF p = "rewind" THEN TRUE ELSE UNCHANGED rewindVars

ServicesInit ==
  /\ part \in Part
  /\ SendInit /\ HistoryInit /\ OperationInit /\ AuthorizationInit /\ StreamInit /\ LspInit
  /\ HunkInit /\ RewindInit

ServicesNext ==
  \/ Only("send") /\ SendNext
  \/ Only("history") /\ HistoryNext
  \/ Only("operations") /\ OperationNext
  \/ Only("authorization") /\ AuthorizationNext
  \/ Only("stream") /\ StreamNext
  \/ Only("lsp") /\ LspNext
  \/ Only("hunks") /\ HunkNext
  \/ Only("rewind") /\ RewindNext

ServicesSpec == ServicesInit /\ [][ServicesNext]_servicesVars

\* Every variable of every service has its type.
ServicesTypeOK ==
  /\ SendTypeOK /\ HistoryTypeOK /\ OperationTypeOK /\ AuthorizationTypeOK /\ StreamTypeOK
  /\ LspTypeOK /\ HunkTypeOK /\ RewindTypeOK
=============================================================================
