------------------------------- MODULE Gateway -------------------------------
(***************************************************************************)
(* The endpoints and one alias of the LLM gateway (app/service.py,         *)
(* runtime/store.py): clients in memory, their rows and API keys, and the  *)
(* administrator's requests on them.  The requests come one at a time; the *)
(* half-hourly refresh of the model lists runs beside them, and the daemon *)
(* may die at any await.  The database may be one that migration 013 has   *)
(* converted from the single connection of earlier versions.               *)
(***************************************************************************)
EXTENDS Naturals, FiniteSets

CONSTANTS
  Names,           \* endpoint ids
  DefaultEndpoint, \* the one that migration 013 makes, "default"
  MaxChanges       \* bound: requests

ASSUME GatewayAssumption == DefaultEndpoint \in Names /\ MaxChanges \in Nat

VARIABLES
  client,     \* settings of the client in memory (0: none), numbered as they are made
  endpointRow,\* settings in the row (0: no row)
  apiKey,     \* the client's key (0: none)
  secret,     \* the stored key
  legacyKey,  \* the key of the earlier version's connection, credential "litellm-gateway"
  targets,    \* the alias in memory: the endpoints of its targets ({}: no alias)
  targetsRow, \* the same in its row
  pinned,     \* endpoints that an actor's exact model names
  change,     \* the request under way
  refreshing, \* the endpoint and the settings whose model list a refresh has asked for
  changes,
  unrouted,   \* history: the alias is the migration's, and its endpoint was never stored
  keyless     \* history: endpoints whose key a request on credentials took from the client

gatewayVars == <<client, endpointRow, apiKey, secret, legacyKey, targets, targetsRow, pinned,
                 change, refreshing, changes, unrouted, keyless>>

NoChange == [at |-> "idle", endpoint |-> DefaultEndpoint, key |-> 0, targets |-> {}]
NoRefresh == [endpoint |-> DefaultEndpoint, settings |-> 0]

\* The settings and the key that the earlier version left.
Migrated == MaxChanges + 1

\* The key a start gives the client of an endpoint: the stored one, for "default" else the
\* earlier version's.
KeyAtStart(e) == IF secret[e] = 0 /\ e = DefaultEndpoint THEN legacyKey ELSE secret[e]

\* _load_gateway_connection: a client for every row.
LoadConnection ==
  /\ client' = endpointRow
  /\ apiKey' = [e \in Names |-> IF endpointRow[e] = 0 THEN 0 ELSE KeyAtStart(e)]
  /\ targets' = targetsRow

\* A new database, or one that the migration has filled: an endpoint if the earlier version
\* had a base_url, an alias on it if an actor named a model, each with or without the other.
GatewayInit ==
  /\ endpointRow \in {[e \in Names |-> IF e = DefaultEndpoint THEN n ELSE 0] : n \in {0, Migrated}}
  /\ legacyKey \in {0, Migrated} /\ secret = [e \in Names |-> 0]
  /\ targetsRow \in {{}, {DefaultEndpoint}}
  /\ client = endpointRow /\ targets = targetsRow
  /\ apiKey = [e \in Names |-> IF endpointRow[e] = 0 THEN 0 ELSE KeyAtStart(e)]
  /\ pinned = {} /\ change = NoChange /\ refreshing = NoRefresh /\ changes = 0
  /\ unrouted = (targetsRow # {} /\ endpointRow[DefaultEndpoint] = 0) /\ keyless = {}

-----------------------------------------------------------------------------

Begins(req) ==
  /\ change.at = "idle" /\ changes < MaxChanges
  /\ changes' = changes + 1
  /\ change' = req
Continues(at) == change' = [change EXCEPT !.at = at] /\ UNCHANGED changes
ChangeEnds == change' = NoChange /\ UNCHANGED changes

\* put_gateway_endpoint: the key first - a new one, none, or the stored one ...
PutEndpoint(e) ==
  /\ \E k \in {0, secret[e], changes + 1} :
       /\ Begins([NoChange EXCEPT !.at = "replace", !.endpoint = e, !.key = k])
       /\ secret' = [secret EXCEPT ![e] = k]
  /\ UNCHANGED <<client, endpointRow, apiKey, legacyKey, targets, targetsRow, pinned,
                 refreshing, keyless>>

\* ... then the client in memory, which may be asked for its models before ...
ReplaceClient ==
  /\ change.at = "replace"
  /\ client' = [client EXCEPT ![change.endpoint] = changes]
  /\ apiKey' = [apiKey EXCEPT ![change.endpoint] = change.key]
  /\ Continues("row") /\ keyless' = keyless \ {change.endpoint}
  /\ UNCHANGED <<endpointRow, secret, legacyKey, targets, targetsRow, pinned, refreshing>>

\* ... the row is written.
WriteEndpoint ==
  /\ change.at = "row"
  /\ endpointRow' = [endpointRow EXCEPT ![change.endpoint] = client[change.endpoint]]
  /\ ChangeEnds
  /\ UNCHANGED <<client, apiKey, secret, legacyKey, targets, targetsRow, pinned,
                 refreshing, keyless>>

\* No actor names it.  To ask for this alone is the mistake: aliases name endpoints too.
Unpinned(e) == e \notin pinned

\* An endpoint that an alias or an actor names is not deleted.
MayDeleteEndpoint(e) == Unpinned(e) /\ e \notin targets

DeleteEndpoint(e) ==
  /\ MayDeleteEndpoint(e)
  /\ Begins([NoChange EXCEPT !.at = "deleteRow", !.endpoint = e])
  /\ client' = [client EXCEPT ![e] = 0] /\ apiKey' = [apiKey EXCEPT ![e] = 0]
  /\ UNCHANGED <<endpointRow, secret, legacyKey, targets, targetsRow, pinned, refreshing,
                 keyless>>

DeleteEndpointRow ==
  /\ change.at = "deleteRow"
  /\ endpointRow' = [endpointRow EXCEPT ![change.endpoint] = 0]
  /\ Continues("deleteKey")
  /\ UNCHANGED <<client, apiKey, secret, legacyKey, targets, targetsRow, pinned,
                 refreshing, keyless>>

DeleteKey ==
  /\ change.at = "deleteKey"
  /\ secret' = [secret EXCEPT ![change.endpoint] = 0]
  /\ ChangeEnds
  /\ UNCHANGED <<client, endpointRow, apiKey, legacyKey, targets, targetsRow, pinned,
                 refreshing, keyless>>

\* delete_credential, of an endpoint's key or the earlier version's: the client keeps it
\* until it is replaced or the daemon starts again.
DeleteStoredKey ==
  /\ change.at = "idle" /\ changes < MaxChanges /\ changes' = changes + 1
  /\ \/ \E e \in Names : /\ secret' = [secret EXCEPT ![e] = 0] /\ keyless' = keyless \cup {e}
                         /\ UNCHANGED legacyKey
     \/ legacyKey' = 0 /\ UNCHANGED <<secret, keyless>>
  /\ UNCHANGED <<client, endpointRow, apiKey, targets, targetsRow, pinned, change, refreshing>>

\* put_gateway_alias: the row first, then the alias in memory.
PutAlias ==
  /\ \E T \in SUBSET {e \in Names : client[e] # 0} :
       /\ T # {}
       /\ Begins([NoChange EXCEPT !.at = "alias", !.targets = T])
       /\ targetsRow' = T
  /\ UNCHANGED <<client, endpointRow, apiKey, secret, legacyKey, targets, pinned,
                 refreshing, keyless>>

StoreAlias ==
  /\ change.at = "alias"
  /\ targets' = change.targets
  /\ ChangeEnds
  /\ UNCHANGED <<client, endpointRow, apiKey, secret, legacyKey, targetsRow, pinned,
                 refreshing, keyless>>

\* delete_gateway_alias, of an alias no actor uses.
DeleteAlias ==
  /\ targets # {}
  /\ Begins([NoChange EXCEPT !.at = "aliasGone"])
  /\ targets' = {} /\ targetsRow' = {}
  /\ UNCHANGED <<client, endpointRow, apiKey, secret, legacyKey, pinned, refreshing, keyless>>

AliasDeleted ==
  /\ change.at = "aliasGone"
  /\ ChangeEnds
  /\ UNCHANGED <<client, endpointRow, apiKey, secret, legacyKey, targets, targetsRow,
                 pinned, refreshing, keyless>>

\* An actor gets or loses an exact model.
PinEndpoint ==
  /\ pinned' \in SUBSET {e \in Names : client[e] # 0} /\ pinned' # pinned
  /\ UNCHANGED <<client, endpointRow, apiKey, secret, legacyKey, targets, targetsRow,
                 change, refreshing, changes, keyless>>

-----------------------------------------------------------------------------

\* refresh_gateway_endpoint: the client is asked for its models; its settings, with the
\* answer, go into the row, whatever has become of the endpoint meanwhile.
RefreshAsks(e) ==
  /\ refreshing = NoRefresh /\ client[e] # 0
  /\ refreshing' = [endpoint |-> e, settings |-> client[e]]
  /\ UNCHANGED <<client, endpointRow, apiKey, secret, legacyKey, targets, targetsRow,
                 pinned, change, changes, keyless>>

RefreshStores ==
  /\ refreshing # NoRefresh
  /\ endpointRow' = [endpointRow EXCEPT ![refreshing.endpoint] = refreshing.settings]
  /\ refreshing' = NoRefresh
  /\ UNCHANGED <<client, apiKey, secret, legacyKey, targets, targetsRow, pinned, change,
                 changes, keyless>>

\* The daemon dies and starts again.
GatewayRestart ==
  /\ LoadConnection
  /\ change' = NoChange /\ refreshing' = NoRefresh /\ keyless' = {}
  /\ UNCHANGED <<endpointRow, secret, legacyKey, targetsRow, pinned, changes>>

\* The alias of the migration has no endpoint until a row of it is stored, or until another
\* alias takes its place.
StaysUnrouted ==
  unrouted' = (unrouted /\ targets' = targets /\ endpointRow'[DefaultEndpoint] = 0)

GatewayNext ==
  /\ \/ \E e \in Names : PutEndpoint(e) \/ DeleteEndpoint(e) \/ RefreshAsks(e)
     \/ ReplaceClient \/ WriteEndpoint \/ DeleteEndpointRow \/ DeleteKey \/ DeleteStoredKey
     \/ PutAlias \/ StoreAlias \/ DeleteAlias \/ AliasDeleted \/ PinEndpoint
     \/ RefreshStores \/ GatewayRestart
  /\ StaysUnrouted

GatewaySpec == GatewayInit /\ [][GatewayNext]_gatewayVars

-----------------------------------------------------------------------------

GatewayTypeOK ==
  /\ client \in [Names -> 0..Migrated] /\ endpointRow \in [Names -> 0..Migrated]
  /\ apiKey \in [Names -> 0..Migrated] /\ secret \in [Names -> 0..MaxChanges]
  /\ legacyKey \in {0, Migrated} /\ unrouted \in BOOLEAN /\ keyless \subseteq Names
  /\ targets \subseteq Names /\ targetsRow \subseteq Names /\ pinned \subseteq Names
  /\ change.at \in {"idle", "replace", "row", "deleteRow", "deleteKey", "alias", "aliasGone"}
  /\ change.endpoint \in Names /\ change.key \in 0..MaxChanges /\ change.targets \subseteq Names
  /\ refreshing.endpoint \in Names /\ refreshing.settings \in 0..Migrated
  /\ changes \in 0..MaxChanges

\* The client of an endpoint has the stored key.  Two may have another although none is
\* stored: "default", the key of the earlier version, which comes back at a start after it
\* was cleared; and an endpoint whose key a request on credentials has deleted.
KeyIsStored(e) ==
  \/ apiKey[e] = secret[e]
  \/ secret[e] = 0 /\ ((e = DefaultEndpoint /\ apiKey[e] = Migrated) \/ e \in keyless)

\* The endpoints of an alias exist, in memory and - so that the next start finds them - in
\* the database, at every await of a request and of a refresh at which the daemon may die
\* (app/service.py, store.py); an alias that migration 013 has put on an endpoint it had no
\* settings for is the exception, until the endpoint is stored.  And every client has the
\* stored key unless a request is about to change it.
AliasesResolve ==
  /\ \A e \in targetsRow : endpointRow[e] # 0 \/ (unrouted /\ e = DefaultEndpoint)
  /\ \A e \in targets : client[e] # 0 \/ (unrouted /\ e = DefaultEndpoint)
  /\ change.at \in {"idle", "row"} => \A e \in Names : client[e] # 0 => KeyIsStored(e)
=============================================================================
