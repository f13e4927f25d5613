----------------------------- MODULE Server_proofs -----------------------------
(***************************************************************************)
(* Proofs about the components of MCServer together: what is proved of     *)
(* each of them alone holds of the server they are parts of.               *)
(***************************************************************************)
EXTENDS MCServer, Requests_proofs, Process_proofs

\* Each component starts as it does alone...
LEMMA ServerStarts ==
    MCInit => /\ PipeInit /\ ToolInit /\ CatalogInit /\ CompatInit
              /\ BusInit /\ LifeInit /\ McpInit /\ MigrationInit
BY DEF MCInit

\* ... and takes a step of its own, or none.
LEMMA ServerMoves ==
    [MCNext]_serverVars =>
        /\ [PipeNext]_pipeVars /\ [ToolNext]_toolVars
        /\ [CatalogNext]_catalogVars /\ [CompatNext]_compatVars
        /\ [BusNext]_busVars /\ [LifeNext]_allLifeVars
        /\ [McpNext]_mcpVars /\ [MigrationNext]_migrationVars
BY DEF MCNext, serverVars

\* A behaviour of the server is a behaviour of each of its components.
THEOREM ServerIsItsComponents ==
    ServerSpec =>
        /\ PipeSpec /\ ToolSpec /\ CatalogSpec /\ CompatSpec
        /\ BusSpec /\ LifeSpec /\ McpSpec /\ MigrationSpec
BY ServerStarts, ServerMoves, PTL
DEF ServerSpec, PipeSpec, ToolSpec, CatalogSpec, CompatSpec, BusSpec, LifeSpec, McpSpec,
    MigrationSpec

\* Every variable of the server stays in its type, whichever component moves.
THEOREM ServerWellTyped == ServerSpec => []ServerTypeOK
<1>1. ServerTypeOK <=> /\ PipeTypeOK /\ ToolTypeOK /\ CatalogTypeOK /\ CompatTypeOK
                       /\ BusTypeOK /\ LifeTypeOK /\ McpTypeOK /\ MigrationTypeOK
  BY DEF ServerTypeOK
<1> QED
  BY <1>1, ServerIsItsComponents, PipelineWellTyped, ToolsWellTyped, CatalogWellTyped,
     CompatWellTyped, BusWellTyped, LifeWellTyped, BridgeWellTyped, MigrationsWellTyped, PTL

===============================================================================
