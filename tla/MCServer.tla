-------------------------------- MODULE MCServer --------------------------------
(***************************************************************************)
(* The components of the server around the chat on one small instance:     *)
(* the request pipeline, tool calls, the model catalogue, the compatible   *)
(* endpoint, the event bus, the lifespan with the scheduler, the MCP       *)
(* bridge and the schema migrations.                                       *)
(*                                                                         *)
(* They share no state: a behaviour is one of them alone, chosen at the    *)
(* start, so that their states add up and do not multiply.                 *)
(***************************************************************************)
EXTENDS Pipeline, Tools, ModelCatalog, Compat, EventBus, Lifespan, McpBridge, Migrations

VARIABLE part      \* the component this behaviour is about

Parts == {"pipeline", "tools", "catalogue", "compat", "bus", "life", "mcp", "migrations"}

serverVars ==
    <<part, pipeVars, toolVars, catalogVars, compatVars, busVars, allLifeVars, mcpVars,
      migrationVars>>

\* Where a component starts in more than one way, the behaviours of the others
\* take one of them.
MCInit ==
    /\ part \in Parts
    /\ PipeInit
    /\ ToolInit
    /\ CatalogInit
    /\ CompatInit
    /\ BusInit
    /\ LifeInit
    /\ McpInit
    /\ MigrationInit
    /\ part = "tools" \/ gate
    /\ part = "compat" \/ registry = {}
    /\ part = "bus" \/ backend = "memory"
    /\ part = "life" \/ \A s \in DOMAIN settings : settings[s]
    /\ part = "migrations" \/ given = Sorted(given)

\* One component moves, the others stand still.
MCNext ==
    \/ /\ part = "pipeline"
       /\ PipeNext
       /\ UNCHANGED <<part, toolVars, catalogVars, compatVars, busVars, allLifeVars, mcpVars,
                      migrationVars>>
    \/ /\ part = "tools"
       /\ ToolNext
       /\ UNCHANGED <<part, pipeVars, catalogVars, compatVars, busVars, allLifeVars, mcpVars,
                      migrationVars>>
    \/ /\ part = "catalogue"
       /\ CatalogNext
       /\ UNCHANGED <<part, pipeVars, toolVars, compatVars, busVars, allLifeVars, mcpVars,
                      migrationVars>>
    \/ /\ part = "compat"
       /\ CompatNext
       /\ UNCHANGED <<part, pipeVars, toolVars, catalogVars, busVars, allLifeVars, mcpVars,
                      migrationVars>>
    \/ /\ part = "bus"
       /\ BusNext
       /\ UNCHANGED <<part, pipeVars, toolVars, catalogVars, compatVars, allLifeVars, mcpVars,
                      migrationVars>>
    \/ /\ part = "life"
       /\ LifeNext
       /\ UNCHANGED <<part, pipeVars, toolVars, catalogVars, compatVars, busVars, mcpVars,
                      migrationVars>>
    \/ /\ part = "mcp"
       /\ McpNext
       /\ UNCHANGED <<part, pipeVars, toolVars, catalogVars, compatVars, busVars, allLifeVars,
                      migrationVars>>
    \/ /\ part = "migrations"
       /\ MigrationNext
       /\ UNCHANGED <<part, pipeVars, toolVars, catalogVars, compatVars, busVars, allLifeVars,
                      mcpVars>>

\* A component that does not move never enables its fair actions.
ServerSpec == MCInit /\ [][MCNext]_serverVars /\ WF_busVars(BusProgress) /\ LifeFairness

\* Every variable of the components holds a value of its type.
ServerTypeOK ==
    /\ PipeTypeOK
    /\ ToolTypeOK
    /\ CatalogTypeOK
    /\ CompatTypeOK
    /\ BusTypeOK
    /\ LifeTypeOK
    /\ McpTypeOK
    /\ MigrationTypeOK

===============================================================================
