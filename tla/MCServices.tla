------------------------------ MODULE MCServices ------------------------------
(***************************************************************************)
(* The components of the daemon that share no state with one another, each *)
(* on a small instance, in one run: a behaviour picks one of them and is a *)
(* behaviour of that component, so that the states of the run are the sum  *)
(* of the components' states and not their product.                        *)
(***************************************************************************)
EXTENDS Store, Feed, Actors, Cron, Turns, McpAuth, Gateway, Copies, Daemon, Transcript,
        Dialogue, LegacyImport, Retention, Catalog, Shell, Codex, Kv, EventBus

CONSTANTS w1, a1, a2, d1, t1, s1, p1, p2, p3

T1 == [endpoint |-> "e1", model |-> "m"]
T2 == [endpoint |-> "e2", model |-> "m"]
MCWriters   == {w1}
MCAppends   == {a1, a2}
MCDeletes   == {d1}
MCAttempts  == {t1}
MCShares    == {s1}
MCProcs     == {p1, p2, p3}
MCPlain     == {2}
MCEndpoints == {"e1", "e2"}
MCLabels    == {"n1", "n2"}
MCRoutes    == {<<T1, T2>>, <<T2>>}
MCItems     == "c1" :> <<"item", "odd", "item">> @@ "c2" :> <<>>
MCMessages  == "c1" :> <<"item">> @@ "c2" :> <<"odd", "item", "item">>

MCKept      == {1, 2}
MCSizes     == [t \in MCKept |-> 1]
MCSkills    == {"builtin", "made"}
MCBuiltins  == {"builtin"}

MCStems     == "a" :> "a" @@ "a.x" :> "a" @@ "b" :> "b"
MCKeys      == {<<"a">>, <<"a.x">>, <<"a", "b">>}
MCPair      == {p1, p2}

VARIABLE moving  \* the component of this behaviour

servicesVars ==
  <<storeVars, feedVars, actorVars, cronVars, turnsVars, mcpVars,
    gatewayVars, copyVars, daemonVars, transcriptVars, dialogueVars, legacyVars,
    retentionVars, catalogVars, shellVars, codexVars, kvVars, eventVars, moving>>

\* A component that does not move keeps one of its initial states.
ServicesInit ==
  /\ moving \in {"store", "feed", "actors", "cron", "turns", "mcp", "gateway", "copies",
                 "daemon", "transcript", "dialogue", "import", "retention", "catalog",
                 "shell", "codex", "kv", "events"}
  /\ StoreInit /\ FeedInit /\ ActorsInit /\ CronInit /\ TurnsInit /\ McpInit
  /\ GatewayInit /\ CopyInit /\ DaemonInit /\ TranscriptInit
  /\ DialogueInit /\ ImportInit /\ RetentionInit /\ CatalogInit
  /\ ShellInit /\ CodexInit /\ KvInit /\ EventInit
  /\ moving = "cron" \/ ~once
  /\ moving = "turns" \/ (route = <<T2>> /\ configured = {})
  /\ moving = "catalog" \/ packaged = {}
  /\ moving = "codex" \/ sessionId = NoThread
  /\ moving = "gateway" \/ (targetsRow = {} /\ legacyKey = 0 /\ endpointRow[DefaultEndpoint] = 0)

Moves(component) == moving = component /\ UNCHANGED moving

StoreMoves ==
  /\ Moves("store") /\ StoreNext
  /\ UNCHANGED <<feedVars, actorVars, cronVars, turnsVars, mcpVars, gatewayVars,
                 copyVars, daemonVars, transcriptVars, dialogueVars, legacyVars,
                 retentionVars, catalogVars, shellVars, codexVars, kvVars, eventVars>>

FeedMoves ==
  /\ Moves("feed") /\ FeedNext
  /\ UNCHANGED <<storeVars, actorVars, cronVars, turnsVars, mcpVars, gatewayVars,
                 copyVars, daemonVars, transcriptVars, dialogueVars, legacyVars,
                 retentionVars, catalogVars, shellVars, codexVars, kvVars, eventVars>>

ActorsMoves ==
  /\ Moves("actors") /\ ActorsNext
  /\ UNCHANGED <<storeVars, feedVars, cronVars, turnsVars, mcpVars, gatewayVars,
                 copyVars, daemonVars, transcriptVars, dialogueVars, legacyVars,
                 retentionVars, catalogVars, shellVars, codexVars, kvVars, eventVars>>

CronMoves ==
  /\ Moves("cron") /\ CronNext
  /\ UNCHANGED <<storeVars, feedVars, actorVars, turnsVars, mcpVars, gatewayVars,
                 copyVars, daemonVars, transcriptVars, dialogueVars, legacyVars,
                 retentionVars, catalogVars, shellVars, codexVars, kvVars, eventVars>>

TurnsMoves ==
  /\ Moves("turns") /\ TurnsNext
  /\ UNCHANGED <<storeVars, feedVars, actorVars, cronVars, mcpVars, gatewayVars,
                 copyVars, daemonVars, transcriptVars, dialogueVars, legacyVars,
                 retentionVars, catalogVars, shellVars, codexVars, kvVars, eventVars>>

McpMoves ==
  /\ Moves("mcp") /\ McpNext
  /\ UNCHANGED <<storeVars, feedVars, actorVars, cronVars, turnsVars, gatewayVars,
                 copyVars, daemonVars, transcriptVars, dialogueVars, legacyVars,
                 retentionVars, catalogVars, shellVars, codexVars, kvVars, eventVars>>

GatewayMoves ==
  /\ Moves("gateway") /\ GatewayNext
  /\ UNCHANGED <<storeVars, feedVars, actorVars, cronVars, turnsVars, mcpVars, copyVars,
                 daemonVars, transcriptVars, dialogueVars, legacyVars, retentionVars,
                 catalogVars, shellVars, codexVars, kvVars, eventVars>>

CopiesMoves ==
  /\ Moves("copies") /\ CopyNext
  /\ UNCHANGED <<storeVars, feedVars, actorVars, cronVars, turnsVars, mcpVars,
                 gatewayVars, daemonVars, transcriptVars, dialogueVars, legacyVars,
                 retentionVars, catalogVars, shellVars, codexVars, kvVars, eventVars>>

DaemonMoves ==
  /\ Moves("daemon") /\ DaemonNext
  /\ UNCHANGED <<storeVars, feedVars, actorVars, cronVars, turnsVars, mcpVars,
                 gatewayVars, copyVars, transcriptVars, dialogueVars, legacyVars,
                 retentionVars, catalogVars, shellVars, codexVars, kvVars, eventVars>>

TranscriptMoves ==
  /\ Moves("transcript") /\ TranscriptNext
  /\ UNCHANGED <<storeVars, feedVars, actorVars, cronVars, turnsVars, mcpVars,
                 gatewayVars, copyVars, daemonVars, dialogueVars, legacyVars,
                 retentionVars, catalogVars, shellVars, codexVars, kvVars, eventVars>>

DialogueMoves ==
  /\ Moves("dialogue") /\ DialogueNext
  /\ UNCHANGED <<storeVars, feedVars, actorVars, cronVars, turnsVars, mcpVars,
                 gatewayVars, copyVars, daemonVars, transcriptVars, legacyVars,
                 retentionVars, catalogVars, shellVars, codexVars, kvVars, eventVars>>

ImportMoves ==
  /\ Moves("import") /\ ImportNext
  /\ UNCHANGED <<storeVars, feedVars, actorVars, cronVars, turnsVars, mcpVars,
                 gatewayVars, copyVars, daemonVars, transcriptVars, dialogueVars,
                 retentionVars, catalogVars, shellVars, codexVars, kvVars, eventVars>>

RetentionMoves ==
  /\ Moves("retention") /\ RetentionNext
  /\ UNCHANGED <<storeVars, feedVars, actorVars, cronVars, turnsVars, mcpVars,
                 gatewayVars, copyVars, daemonVars, transcriptVars, dialogueVars,
                 legacyVars, catalogVars, shellVars, codexVars, kvVars, eventVars>>

CatalogMoves ==
  /\ Moves("catalog") /\ CatalogNext
  /\ UNCHANGED <<storeVars, feedVars, actorVars, cronVars, turnsVars, mcpVars,
                 gatewayVars, copyVars, daemonVars, transcriptVars, dialogueVars,
                 legacyVars, retentionVars, shellVars, codexVars, kvVars, eventVars>>

ShellMoves ==
  /\ Moves("shell") /\ ShellNext
  /\ UNCHANGED <<storeVars, feedVars, actorVars, cronVars, turnsVars, mcpVars,
                 gatewayVars, copyVars, daemonVars, transcriptVars, dialogueVars,
                 legacyVars, retentionVars, catalogVars, codexVars, kvVars, eventVars>>

CodexMoves ==
  /\ Moves("codex") /\ CodexNext
  /\ UNCHANGED <<storeVars, feedVars, actorVars, cronVars, turnsVars, mcpVars,
                 gatewayVars, copyVars, daemonVars, transcriptVars, dialogueVars,
                 legacyVars, retentionVars, catalogVars, shellVars, kvVars, eventVars>>

KvMoves ==
  /\ Moves("kv") /\ KvNext
  /\ UNCHANGED <<storeVars, feedVars, actorVars, cronVars, turnsVars, mcpVars,
                 gatewayVars, copyVars, daemonVars, transcriptVars, dialogueVars,
                 legacyVars, retentionVars, catalogVars, shellVars, codexVars,
                 eventVars>>

EventMoves ==
  /\ Moves("events") /\ EventNext
  /\ UNCHANGED <<storeVars, feedVars, actorVars, cronVars, turnsVars, mcpVars,
                 gatewayVars, copyVars, daemonVars, transcriptVars, dialogueVars,
                 legacyVars, retentionVars, catalogVars, shellVars, codexVars, kvVars>>

ServicesNext ==
  \/ StoreMoves \/ FeedMoves \/ ActorsMoves \/ CronMoves \/ TurnsMoves \/ McpMoves
  \/ GatewayMoves \/ CopiesMoves \/ DaemonMoves \/ TranscriptMoves
  \/ DialogueMoves \/ ImportMoves \/ RetentionMoves \/ CatalogMoves
  \/ ShellMoves \/ CodexMoves \/ KvMoves \/ EventMoves

ServicesSpec == ServicesInit /\ [][ServicesNext]_servicesVars

=============================================================================
