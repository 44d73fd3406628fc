---------------------------- MODULE LegacyImport ----------------------------
(***************************************************************************)
(* ybot migrate on the database of the previous program                    *)
(* (db/import_legacy.py): one transaction writes every table, a second one *)
(* marks the source as imported; workspaces are copied in between, outside *)
(* of any transaction.  The command may fail or be killed at any step and  *)
(* be run again, with --force-import when the database has rows by then.   *)
(*                                                                         *)
(* Between two runs of the command the daemon may have been used.  They    *)
(* run one at a time here: the transaction of the import locks the         *)
(* database.  The backup of the source and the report are left out.        *)
(***************************************************************************)
EXTENDS Naturals, Sequences, SequencesExt

CONSTANTS
  LegacyItems,     \* conversation_history_items: conversation -> Seq({"item", "odd"})
  LegacyMessages,  \* conversation_messages: conversation -> Seq({"item", "odd"})
  MaxImports,      \* bound: runs of ybot migrate
  MaxUses          \* bound: writes of the daemon in between

ASSUME LegacyAssumption ==
  /\ DOMAIN LegacyItems = DOMAIN LegacyMessages
  /\ \A entries \in {LegacyItems, LegacyMessages} :
       entries \in [DOMAIN LegacyItems -> Seq({"item", "odd"})]
  /\ {MaxImports, MaxUses} \subseteq Nat

VARIABLES
  stored,      \* the committed rows: key -> value
  uncommitted, \* the rows as the connection of the import sees them
  importStep,  \* "idle", the table the import writes next, "written" or "committed"
  masterKey,   \* this run has the key of the old configuration
  marked,      \* the row of legacy_imports
  workspace,   \* the actor's directory: "none", "part" or "whole"
  unconverted, \* legacy_unconverted_history.jsonl
  imports,     \* bound: imports so far
  uses         \* bound: writes of the daemon so far

legacyVars ==
  <<stored, uncommitted, importStep, masterKey, marked, workspace, unconverted, imports, uses>>

Conversations == DOMAIN LegacyItems

ImportSteps == {"integrations", "workspace", "copying", "actors", "routes", "conversations",
                "history", "messages", "written", "committed"}

Row(table, id) == <<table, id>>
HistoryRow(c, seq) == <<"history", c, seq>>

ImportInit ==
  /\ stored = <<>> /\ uncommitted = <<>>
  /\ importStep = "idle" /\ masterKey = FALSE /\ marked = FALSE
  /\ workspace = "none" /\ unconverted = {}
  /\ imports = 0 /\ uses = 0

-----------------------------------------------------------------------------
(* What the source becomes.                                                *)

\* The positions of the entries that _convert_history_item and _message_to_history know.
Known(entries) ==
  LET known[n \in 0..Len(entries)] ==
        IF n = 0 THEN <<>>
        ELSE IF entries[n] = "item" THEN Append(known[n - 1], n) ELSE known[n - 1]
  IN known[Len(entries)]

\* _import_history numbers what it converts.
FromHistory(c) == [k \in DOMAIN Known(LegacyItems[c]) |-> <<"item", Known(LegacyItems[c])[k]>>]

\* _import_messages skips a conversation that has an item, its own first message included.
FromMessages(c) ==
  LET known == Known(LegacyMessages[c])
  IN IF FromHistory(c) = <<>> /\ known # <<>> THEN <<(<<"message", known[1]>>)>> ELSE <<>>

HistoryRows(Items(_)) ==
  [row \in UNION {{HistoryRow(c, k - 1) : k \in DOMAIN Items(c)} : c \in Conversations} |->
     Items(row[2])[row[3] + 1]]

SourceKeys ==
  {Row("app_integrations", "legacy"), Row("app_actors", "legacy"), Row("app_routes", "legacy")}
    \cup {Row("app_conversations", c) : c \in Conversations}
    \cup DOMAIN HistoryRows(FromHistory) \cup DOMAIN HistoryRows(FromMessages)

-----------------------------------------------------------------------------
(* The import.                                                             *)

\* migrate_legacy: a marked source is left alone, a database with rows needs --force-import.
StartImport(force, key) ==
  /\ importStep = "idle" /\ imports < MaxImports
  /\ ~marked /\ (force \/ stored = <<>>)
  /\ importStep' = "integrations" /\ masterKey' = key /\ imports' = imports + 1
  /\ uncommitted' = stored /\ unconverted' = {}
  /\ UNCHANGED <<stored, marked, workspace, uses>>

\* mistake: every table is committed by itself.
CommitsEach(new) == uncommitted' = new /\ stored' = new

InTransaction(new) == uncommitted' = new /\ UNCHANGED stored

Passes(step, next) ==
  /\ importStep = step /\ importStep' = next
  /\ UNCHANGED <<masterKey, marked, imports, uses>>

\* "insert or replace" and "insert or ignore".
Replace(rows, new) ==
  [key \in DOMAIN rows \cup DOMAIN new |-> IF key \in DOMAIN new THEN new[key] ELSE rows[key]]
Ignore(rows, new) == Replace(new, rows)

OneRow(key, value) == [k \in {key} |-> value]

\* A secret that cannot be decrypted disables the integration.
ImportIntegrations ==
  /\ Passes("integrations", "workspace")
  /\ InTransaction(Replace(uncommitted, OneRow(Row("app_integrations", "legacy"),
                                             IF masterKey THEN "enabled" ELSE "disabled")))
  /\ UNCHANGED <<workspace, unconverted>>

\* _workspace: copytree creates the directory first.
CopyWorkspace ==
  /\ workspace = "none"
  /\ Passes("workspace", "copying")
  /\ workspace' = "part"
  /\ UNCHANGED <<stored, uncommitted, unconverted>>

WorkspaceCopied ==
  /\ Passes("copying", "actors")
  /\ workspace' = "whole"
  /\ UNCHANGED <<stored, uncommitted, unconverted>>

\* A directory that exists is taken as it is, also one that a killed run copied in part.
WorkspaceExists ==
  /\ workspace # "none"
  /\ Passes("workspace", "actors")
  /\ UNCHANGED <<stored, uncommitted, workspace, unconverted>>

ImportActors ==
  /\ Passes("actors", "routes")
  /\ InTransaction(Replace(uncommitted, OneRow(Row("app_actors", "legacy"), "blocked")))
  /\ UNCHANGED <<workspace, unconverted>>

ImportRoutes ==
  /\ Passes("routes", "conversations")
  /\ InTransaction(Replace(uncommitted, OneRow(Row("app_routes", "legacy"), "route")))
  /\ UNCHANGED <<workspace, unconverted>>

ImportConversations ==
  /\ Passes("conversations", "history")
  /\ InTransaction(Replace(uncommitted,
       [row \in {Row("app_conversations", c) : c \in Conversations} |-> "idle"]))
  /\ UNCHANGED <<workspace, unconverted>>

ImportHistory ==
  /\ Passes("history", "messages")
  /\ InTransaction(Ignore(uncommitted, HistoryRows(FromHistory)))
  /\ unconverted' = UNION {{<<c, i>> : i \in {j \in DOMAIN LegacyItems[c] : LegacyItems[c][j] = "odd"}} :
                             c \in Conversations}
  /\ UNCHANGED workspace

ImportMessages ==
  /\ Passes("messages", "written")
  /\ InTransaction(Ignore(uncommitted, HistoryRows(FromMessages)))
  /\ UNCHANGED <<workspace, unconverted>>

CommitImport ==
  /\ Passes("written", "committed")
  /\ stored' = uncommitted
  /\ UNCHANGED <<uncommitted, workspace, unconverted>>

MarkImported ==
  /\ importStep = "committed" /\ importStep' = "idle" /\ marked' = TRUE
  /\ UNCHANGED <<stored, uncommitted, masterKey, workspace, unconverted, imports, uses>>

\* An exception or a kill: the open transaction is gone.
ImportDies ==
  /\ importStep # "idle" /\ importStep' = "idle" /\ uncommitted' = stored
  /\ UNCHANGED <<stored, masterKey, marked, workspace, unconverted, imports, uses>>

-----------------------------------------------------------------------------
(* The daemon between two runs of the command.                             *)

Uses(new) ==
  /\ importStep = "idle" /\ uses < MaxUses /\ uses' = uses + 1
  /\ stored' = new /\ uncommitted' = new
  /\ UNCHANGED <<importStep, masterKey, marked, workspace, unconverted, imports>>

\* A database that has been used before, or an actor of its own.
CreateOwnActor == Uses(Replace(stored, OneRow(Row("app_actors", "own"), "enabled")))

\* The user gives the imported actor a model and enables it.
ConfigureActor ==
  /\ Row("app_actors", "legacy") \in DOMAIN stored
  /\ Uses(Replace(stored, OneRow(Row("app_actors", "legacy"), "enabled")))

Seqs(c) == {row[3] : row \in {r \in DOMAIN stored : r[1] = "history" /\ r[2] = c}}

\* HistoryStore.extend: the next seq of an imported conversation.
Chat(c) ==
  LET next == IF Seqs(c) = {} THEN 0 ELSE Max(Seqs(c)) + 1
  IN /\ Row("app_conversations", c) \in DOMAIN stored
     /\ Uses(Replace(stored, OneRow(HistoryRow(c, next), <<"chat", uses>>)))

ImportNext ==
  \/ \E force, key \in BOOLEAN : StartImport(force, key)
  \/ ImportIntegrations \/ CopyWorkspace \/ WorkspaceCopied \/ WorkspaceExists
  \/ ImportActors \/ ImportRoutes \/ ImportConversations \/ ImportHistory \/ ImportMessages
  \/ CommitImport \/ MarkImported \/ ImportDies
  \/ CreateOwnActor \/ ConfigureActor
  \/ \E c \in Conversations : Chat(c)

ImportSpec == ImportInit /\ [][ImportNext]_legacyVars

-----------------------------------------------------------------------------

ImportTypeOK ==
  /\ importStep \in {"idle"} \cup ImportSteps
  /\ {masterKey, marked} \subseteq BOOLEAN
  /\ workspace \in {"none", "part", "whole"}
  /\ imports \in 0..MaxImports /\ uses \in 0..MaxUses

\* The rows of the source are in the database all or not at all, whatever step a run of the
\* command died in and however often it is forced; a marked source has all of them; and the
\* history of a conversation is its converted items in their order, then what was said since.
ImportIsWhole ==
  /\ SourceKeys \cap DOMAIN stored \in {{}, SourceKeys}
  /\ marked => SourceKeys \subseteq DOMAIN stored
  /\ \A c \in Conversations :
       LET items == FromHistory(c) \o FromMessages(c) IN
       Seqs(c) # {} =>
         /\ \A k \in DOMAIN items :
              k - 1 \in Seqs(c) /\ stored[HistoryRow(c, k - 1)] = items[k]
         /\ \A s \in Seqs(c) : s >= Len(items) => stored[HistoryRow(c, s)][1] = "chat"
         /\ \A s, t \in Seqs(c) : Len(items) <= s /\ s < t =>
              stored[HistoryRow(c, s)][2] < stored[HistoryRow(c, t)][2]
=============================================================================
