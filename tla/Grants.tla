------------------------------- MODULE Grants -------------------------------
(***************************************************************************)
(* Which tools an agent may call: the resolver that chat and MCP use, the  *)
(* registry built from it, the dashboard's list and its toggle, and the    *)
(* part of it the MCP server exposes.  A tool name may have a global row   *)
(* and an organization's own; a row is absent, disabled for everybody or   *)
(* enabled, and the agent's link to it is none, off or on.                 *)
(***************************************************************************)
EXTENDS FiniteSets

Owner == {"org", "global"}
ToolName == {"search_products", "create_lead"}
MCPExposed == {"search_products"}      \* MCP_EXPOSED_TOOL_NAMES leaves create_lead out

Row == [def : {"absent"}, link : {"none"}]
         \union [def : {"disabled", "enabled"}, link : {"none", "off", "on"}]

\* tools: the rows of each name, by their owner.
ToolTables == [ToolName -> [Owner -> Row]]

\* Mutant of First: the platform's own row wins.
FirstGlobal(owners) == IF "global" \in owners THEN "global" ELSE "org"

\* first_row_per_name over ORDER BY name, organization_id IS NULL.
First(owners) == IF "org" \in owners THEN "org" ELSE "global"

Defined(tools, n) == {o \in Owner : tools[n][o].def = "enabled"}
Linked(tools, n) == {o \in Defined(tools, n) : tools[n][o].link # "none"}

\* resolve_enabled_tool_names: an inner join, so only linked rows compete.
Granted(tools) ==
    {n \in ToolName :
        Linked(tools, n) # {} /\ tools[n][First(Linked(tools, n))].link = "on"}

\* build_granted_registry: a call of any other name finds nothing to run.
Callable(tools, n) == n \in Granted(tools)

\* list_tools: a left join, so a row without a link competes too and is off.
Listed(tools) == {n \in ToolName : Defined(tools, n) # {}}
ShownRow(tools, n) == First(Defined(tools, n))
ShownOn(tools, n) == tools[n][ShownRow(tools, n)].link = "on"

\* set_tool_enabled on the row the dashboard lists.
Toggled(tools, n, on) ==
    [tools EXCEPT ![n][ShownRow(tools, n)].link = IF on THEN "on" ELSE "off"]

\* tools/list and tools/call: granted and exposed.
Exposed(tools) == Granted(tools) \intersect MCPExposed
MCPCall(tools, n) == IF n \in Exposed(tools) THEN "run" ELSE "unknown_tool"

-----------------------------------------------------------------------------
(* What the grants promise. *)

\* The screen never shows a tool on that chat will not run, a toggle is what
\* chat then does, nobody runs a tool the platform switched off or an
\* organization took over and switched off, and MCP runs what it lists.
GrantsAreSound(tools) ==
    /\ \A n \in Listed(tools) :
         /\ ShownOn(tools, n) => Callable(tools, n)
         /\ \A on \in BOOLEAN : Callable(Toggled(tools, n, on), n) <=> on
    /\ \A n \in ToolName :
         Callable(tools, n) =>
            /\ \E o \in Owner : tools[n][o] = [def |-> "enabled", link |-> "on"]
            /\ tools[n]["org"] # [def |-> "enabled", link |-> "off"]
    /\ \A n \in ToolName :
         MCPCall(tools, n) = "run" => Callable(tools, n) /\ n # "create_lead"

\* What list_tools' docstring says: its flag is exactly the condition the
\* resolver requires to ever call the tool.
ScreenAgreesWithGrants(tools) ==
    \A n \in Listed(tools) : ShownOn(tools, n) <=> Callable(tools, n)

=============================================================================
