----------------------------- MODULE MCWorkspace -----------------------------
(***************************************************************************)
(* What must come to an end.  The workspace beneath the agent: merges of   *)
(* worktrees, background tasks, MCP servers and tools that change files;   *)
(* and the three services of MCServices that somebody waits for: provider  *)
(* calls, authorizations and product events.  A behaviour is one of        *)
(* exactly one part, as in MCServices.                                     *)
(***************************************************************************)
EXTENDS WorktreeMerge, BackgroundTasks, McpServer, FileMutations,
        ProviderSend, Authorization, EventStream

MCTaskOwner == [t \in Task |-> "thread"]
MCOwner == [c \in Call |-> "operation"]
MCAdmitted == [o \in Operation |-> 1]
MCServerOf == [c \in ToolCall |-> "s"]

\* An edit of file 1, a patch of both files, and one that replaces file 1 by
\* file 2, which names them the other way round.
MCWanted == [m \in Mutation |-> CASE m = "edit" -> <<1>>
                                  [] m = "patch" -> <<1, 2>>
                                  [] OTHER -> <<2, 1>>]
MCOperationOn == [m \in Mutation |-> [f \in File |->
  CASE f = 2 -> "add" [] m = "replace" -> "delete" [] OTHER -> "update"]]

VARIABLE part

workspaceVars == <<worktreeVars, taskVars, mcpVars, filesVars, vars, authVars, streamVars, part>>

Part == {"worktree", "tasks", "mcp", "files", "send", "authorization", "stream"}

Only(p) ==
  /\ part = p /\ UNCHANGED part
  /\ IF p = "worktree" THEN TRUE ELSE UNCHANGED worktreeVars
  /\ IF p = "tasks" THEN TRUE ELSE UNCHANGED taskVars
  /\ IF p = "mcp" THEN TRUE ELSE UNCHANGED mcpVars
  /\ IF p = "files" THEN TRUE ELSE UNCHANGED filesVars
  /\ IF p = "send" THEN TRUE ELSE UNCHANGED vars
  /\ IF p = "authorization" THEN TRUE ELSE UNCHANGED authVars
  /\ IF p = "stream" THEN TRUE ELSE UNCHANGED streamVars

WorkspaceInit ==
  /\ part \in Part /\ WorktreeInit /\ TasksInit /\ McpInit /\ FilesInit
  /\ SendInit /\ AuthorizationInit /\ StreamInit
  /\ part = "mcp" \/ http = {}

WorkspaceNext ==
  \/ Only("worktree") /\ WorktreeNext
  \/ Only("tasks") /\ TasksNext
  \/ Only("mcp") /\ McpNext
  \/ Only("files") /\ FilesNext
  \/ Only("send") /\ SendNext
  \/ Only("authorization") /\ AuthorizationNext
  \/ Only("stream") /\ StreamNext

\* WorktreeFairness, TasksFairness, McpFairness, FilesFairness, the fairness of
\* ProviderSend, AuthorizationFairness and StreamFairness, each of the steps of
\* its part.  At most one disjunct of a line is ever enabled, so that a line
\* says as much as one formula for each of its disjuncts.
WorkspaceFairness ==
  /\ WF_worktreeVars(part = "worktree" /\ JobStep)
  /\ \A p \in Process : WF_worktreeVars(part = "worktree" /\ Restart(p))
  /\ \A p \in Process : WF_worktreeVars(part = "worktree" /\ Maintain(p))
  /\ \A t \in Task : WF_taskVars(part = "tasks" /\ SpawnStep(t))
  /\ \A t \in Task : WF_taskVars(part = "tasks" /\ DriverStep(t))
  /\ \A w \in Waiter : WF_taskVars(part = "tasks" /\ (Look(w) \/ Listen(w)))
  /\ WF_taskVars(part = "tasks" /\ CloseStep)
  /\ \A s \in Server : WF_mcpVars(part = "mcp" /\ TaskStep(s))
  /\ \A s \in Server : WF_mcpVars(part = "mcp" /\ UnheardReaderEnds(s))
  /\ \A c \in ToolCall : WF_mcpVars(part = "mcp" /\ ToolStep(c))
  /\ WF_mcpVars(part = "mcp" /\ HostStep)
  /\ \A m \in Mutation : WF_filesVars(part = "files" /\ ToolRuns(m))
  /\ \A c \in Callers : WF_vars(part = "send" /\ Progress(c))
  /\ WF_vars(part = "send" /\ ClockTick)
  /\ \A t \in Thread : WF_authVars(part = "authorization" /\ ThreadStep(t))
  /\ \A p \in Publisher : WF_streamVars(part = "stream" /\ PublisherStep(p))
  /\ WF_streamVars(part = "stream" /\ Signal)
  /\ \A f \in FrontEnd : WF_streamVars(part = "stream" /\ FrontEndStep(f))

WorkspaceSpec == WorkspaceInit /\ [][WorkspaceNext]_workspaceVars /\ WorkspaceFairness

\* Every variable of every module has its type.
WorkspaceTypeOK ==
  /\ WorktreeTypeOK /\ TasksTypeOK /\ McpTypeOK /\ FilesTypeOK
  /\ SendTypeOK /\ AuthorizationTypeOK /\ StreamTypeOK
=============================================================================
