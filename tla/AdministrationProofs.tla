------------------------- MODULE AdministrationProofs -------------------------
(***************************************************************************)
(* Proofs about what the owner administers while the daemon runs: endpoints  *)
(* and model aliases (Gateway), scheduled jobs (Cron), Actors (Actors), the  *)
(* authorization of MCP servers (McpAuth), and skills and integrations (Catalog).  *)
(* They share no state; every result is about the specification of one of them.  *)
(***************************************************************************)
EXTENDS Gateway, Cron, Actors, McpAuth, Catalog, SequenceTheorems, TLAPS

-----------------------------------------------------------------------------
(* Gateway                                                                 *)

ChangeType ==
  [at : {"idle", "replace", "row", "deleteRow", "deleteKey", "alias", "aliasGone"},
   endpoint : Names, key : 0..MaxChanges, targets : SUBSET Names]
RefreshType == [endpoint : Names, settings : 0..Migrated]

\* The types, with the records of the request and the refresh exactly of their fields.
RecordTypes ==
  /\ GatewayTypeOK
  /\ change \in ChangeType /\ refreshing \in RefreshType

\* A client has its row, but for the one whose row the request is about to write; and the
\* client being deleted is in no alias row.
ClientsHaveRows ==
  /\ \A e \in Names : client[e] # 0 /\ ~(change.at = "row" /\ change.endpoint = e) => endpointRow[e] # 0
  /\ change.at = "row" => client[change.endpoint] # 0
  /\ change.at \in {"deleteRow", "deleteKey"} => client[change.endpoint] = 0
  /\ change.at = "deleteRow" => change.endpoint \notin targetsRow
  /\ change.at # "idle" => changes # 0
  /\ refreshing # NoRefresh => refreshing.settings # 0

\* The alias is the one of its row, but while the request stores it; both name clients and
\* rows that are there, but for the migration's alias.
Excepted(e) == unrouted /\ e = DefaultEndpoint
AliasNamesClients ==
  /\ change.at # "alias" => targets = targetsRow
  /\ change.at = "alias" => change.targets = targetsRow
  /\ change.at = "alias" => \A e \in targetsRow : endpointRow[e] # 0 /\ client[e] # 0
  /\ \A e \in targetsRow : (endpointRow[e] # 0 /\ client[e] # 0) \/ Excepted(e)
  /\ \A e \in targets : client[e] # 0 \/ Excepted(e)

\* The migration's alias is in memory, and only an endpoint being made is refreshed.
UnroutedIsThere ==
  unrouted => /\ DefaultEndpoint \in targets /\ endpointRow[DefaultEndpoint] = 0
              /\ refreshing.endpoint = DefaultEndpoint /\ refreshing.settings # 0
                   => client[DefaultEndpoint] # 0

\* A client has the stored key, but for the one the request is about to replace.
KeysAreStored ==
  /\ \A e \in Names :
       client[e] # 0 /\ ~(change.at = "replace" /\ change.endpoint = e) => KeyIsStored(e)
  /\ change.at = "replace" => change.key = secret[change.endpoint]

GatewayInv == RecordTypes /\ ClientsHaveRows /\ AliasNamesClients /\ UnroutedIsThere /\ KeysAreStored

-----------------------------------------------------------------------------

\* No request and no refresh: the idle records are of their types.
LEMMA IdleTypes ==
  /\ NoChange \in ChangeType /\ NoChange.at = "idle"
  /\ NoRefresh \in RefreshType /\ NoRefresh.settings = 0
BY GatewayAssumption DEF ChangeType, RefreshType, NoChange, NoRefresh, Migrated

\* How long the migration's alias is without its endpoint.
LEMMA Unrouted ==
  ASSUME StaysUnrouted
  PROVE  /\ unrouted' \in BOOLEAN
         /\ unrouted' => unrouted /\ targets' = targets /\ endpointRow'[DefaultEndpoint] = 0
         /\ unrouted /\ targets' = targets /\ endpointRow'[DefaultEndpoint] = 0 => unrouted'
BY Zenon DEF StaysUnrouted

\* Every initial state satisfies the invariant.
LEMMA GatewayInitInv == GatewayInit => GatewayInv
<1> SUFFICES ASSUME GatewayInit PROVE GatewayInv
  OBVIOUS
<1>1. 0 \in 0..Migrated /\ Migrated \in 0..Migrated /\ 0 \in 0..MaxChanges /\ Migrated # 0
  BY GatewayAssumption DEF Migrated
<1>2. PICK n \in {0, Migrated} : endpointRow = [e \in Names |-> IF e = DefaultEndpoint THEN n ELSE 0]
  BY DEF GatewayInit
<1>3. unrouted \in BOOLEAN /\ (unrouted <=> targetsRow # {} /\ endpointRow[DefaultEndpoint] = 0)
  BY Zenon DEF GatewayInit
<1>4. DefaultEndpoint \in Names
  BY GatewayAssumption
<1>5. RecordTypes
  BY <1>1, <1>2, <1>3, <1>4, IdleTypes
  DEF GatewayInit, RecordTypes, GatewayTypeOK, KeyAtStart, ChangeType, RefreshType
<1>6. ClientsHaveRows
  BY IdleTypes DEF GatewayInit, ClientsHaveRows
<1>7. AliasNamesClients
  BY <1>3, IdleTypes DEF GatewayInit, AliasNamesClients, Excepted
<1>8. UnroutedIsThere
  BY <1>3, IdleTypes DEF GatewayInit, UnroutedIsThere
<1>9. KeysAreStored
  BY <1>1, <1>2, IdleTypes DEF GatewayInit, KeysAreStored, KeyIsStored, KeyAtStart
<1> QED BY <1>5, <1>6, <1>7, <1>8, <1>9 DEF GatewayInv

\* What putting an endpoint does to the rows, the clients and the keys.
LEMMA PutPreserves ==
  ASSUME GatewayInv, NEW e \in Names, PutEndpoint(e), StaysUnrouted
  PROVE  GatewayInv'
<1>1. PICK k \in {0, secret[e], changes + 1} :
        /\ Begins([NoChange EXCEPT !.at = "replace", !.endpoint = e, !.key = k])
        /\ secret' = [secret EXCEPT ![e] = k]
  BY DEF PutEndpoint
<1>2. change.at = "idle" /\ changes < MaxChanges /\ changes' = changes + 1
  BY <1>1 DEF Begins
<1>3. k \in 0..MaxChanges /\ changes \in 0..MaxChanges
  BY <1>1, <1>2, GatewayAssumption DEF GatewayInv, RecordTypes, GatewayTypeOK
<1>4. /\ change' \in ChangeType /\ change'.at = "replace"
      /\ change'.endpoint = e /\ change'.key = k
  BY <1>1, <1>3, IdleTypes DEF Begins, ChangeType
<1>5. UNCHANGED <<client, endpointRow, apiKey, legacyKey, targets, targetsRow, pinned,
                  refreshing, keyless>>
  BY DEF PutEndpoint
<1>6. RecordTypes'
  BY <1>1, <1>2, <1>3, <1>4, <1>5, Unrouted, GatewayAssumption
  DEF GatewayInv, RecordTypes, GatewayTypeOK, ChangeType, RefreshType, Migrated
<1>7. ClientsHaveRows'
  BY <1>2, <1>3, <1>4, <1>5 DEF GatewayInv, ClientsHaveRows
<1>8. AliasNamesClients' /\ UnroutedIsThere'
  BY <1>2, <1>4, <1>5, Unrouted DEF GatewayInv, AliasNamesClients, UnroutedIsThere, Excepted
<1>9. KeysAreStored'
  BY <1>1, <1>2, <1>4, <1>5 DEF GatewayInv, RecordTypes, GatewayTypeOK, KeysAreStored, KeyIsStored
<1>. QED BY <1>6, <1>7, <1>8, <1>9 DEF GatewayInv

\* The client is replaced, then its row is written.
LEMMA ReplacePreserves ==
  ASSUME GatewayInv, ReplaceClient \/ WriteEndpoint, StaysUnrouted
  PROVE  GatewayInv'
<1>. USE DEF GatewayInv
<1>1. /\ changes \in 0..MaxChanges /\ changes \in 0..Migrated /\ change \in ChangeType
      /\ \A k \in 0..MaxChanges : k \in 0..Migrated
  BY GatewayAssumption DEF RecordTypes, GatewayTypeOK, Migrated
<1>2. CASE ReplaceClient
  <2>1. change' \in ChangeType /\ change' = [change EXCEPT !.at = "row"] /\ change.at = "replace"
    BY <1>1, <1>2 DEF ReplaceClient, Continues, ChangeType
  <2>2. /\ change'.at = "row" /\ change'.endpoint = change.endpoint /\ changes # 0
        /\ change.endpoint \in Names /\ change.key \in 0..Migrated /\ change.key = secret[change.endpoint]
    BY <1>1, <2>1 DEF ChangeType, ClientsHaveRows, KeysAreStored
  <2>3. /\ client' = [client EXCEPT ![change.endpoint] = changes]
        /\ apiKey' = [apiKey EXCEPT ![change.endpoint] = change.key]
        /\ keyless' = keyless \ {change.endpoint} /\ UNCHANGED changes
        /\ UNCHANGED <<endpointRow, secret, legacyKey, targets, targetsRow, pinned, refreshing>>
    BY <1>2 DEF ReplaceClient, Continues
  <2>4. RecordTypes'
    BY <1>1, <2>1, <2>2, <2>3, Unrouted DEF RecordTypes, GatewayTypeOK, ChangeType, RefreshType
  <2>5. ClientsHaveRows'
    BY <1>1, <2>1, <2>2, <2>3 DEF RecordTypes, GatewayTypeOK, ClientsHaveRows
  <2>6. \A e \in Names : client[e] # 0 => client'[e] # 0
    BY <2>2, <2>3 DEF RecordTypes, GatewayTypeOK
  <2>7. AliasNamesClients' /\ UnroutedIsThere'
    BY <2>1, <2>2, <2>3, <2>6, Unrouted, GatewayAssumption
    DEF RecordTypes, GatewayTypeOK, AliasNamesClients, UnroutedIsThere, Excepted
  <2>8. KeysAreStored'
    BY <2>1, <2>2, <2>3 DEF RecordTypes, GatewayTypeOK, KeysAreStored, KeyIsStored
  <2>. QED BY <2>4, <2>5, <2>7, <2>8
<1>3. CASE WriteEndpoint
  <2>1. change' = NoChange /\ change.at = "row" /\ change.endpoint \in Names
        /\ client[change.endpoint] # 0
    BY <1>1, <1>3 DEF WriteEndpoint, ChangeEnds, ChangeType, ClientsHaveRows
  <2>2. /\ endpointRow' = [endpointRow EXCEPT ![change.endpoint] = client[change.endpoint]]
        /\ UNCHANGED <<client, apiKey, secret, legacyKey, targets, targetsRow, pinned, refreshing,
                       keyless, changes>>
    BY <1>3 DEF WriteEndpoint, ChangeEnds
  <2>3. RecordTypes'
    BY <1>1, <2>1, <2>2, Unrouted, IdleTypes
    DEF RecordTypes, GatewayTypeOK, ChangeType, RefreshType
  <2>4. ClientsHaveRows'
    BY <2>1, <2>2, IdleTypes DEF RecordTypes, GatewayTypeOK, ClientsHaveRows
  <2>5. \A e \in Names : endpointRow[e] # 0 => endpointRow'[e] # 0
    BY <2>1, <2>2 DEF RecordTypes, GatewayTypeOK
  <2>6. unrouted => unrouted' \/ (client[DefaultEndpoint] # 0 /\ endpointRow'[DefaultEndpoint] # 0)
    BY <2>1, <2>2, Unrouted, GatewayAssumption DEF RecordTypes, GatewayTypeOK, UnroutedIsThere
  <2>7. targets \subseteq Names /\ targetsRow \subseteq Names
    BY DEF RecordTypes, GatewayTypeOK
  <2>8. AliasNamesClients' /\ UnroutedIsThere'
    BY <2>1, <2>2, <2>5, <2>6, <2>7, Unrouted, IdleTypes
    DEF AliasNamesClients, UnroutedIsThere, Excepted
  <2>9. KeysAreStored'
    BY <2>1, <2>2, IdleTypes DEF KeysAreStored, KeyIsStored
  <2>. QED BY <2>3, <2>4, <2>8, <2>9
<1>. QED BY <1>2, <1>3

\* An endpoint no alias names goes from memory, then its row, then its key.
LEMMA DeletePreserves ==
  ASSUME GatewayInv, (\E e \in Names : DeleteEndpoint(e)) \/ DeleteEndpointRow \/ DeleteKey,
         StaysUnrouted
  PROVE  GatewayInv'
<1>. USE DEF GatewayInv
<1>1. changes \in 0..MaxChanges /\ change \in ChangeType
  BY DEF RecordTypes, GatewayTypeOK
<1>0. 0 \in 0..MaxChanges /\ 0 \in 0..Migrated
  BY GatewayAssumption DEF Migrated
<1>2. ASSUME NEW e \in Names, DeleteEndpoint(e)
      PROVE  GatewayInv'
  <2>1. /\ change.at = "idle" /\ changes < MaxChanges /\ changes' = changes + 1
        /\ change' \in ChangeType /\ change'.at = "deleteRow" /\ change'.endpoint = e
    BY <1>2, IdleTypes DEF DeleteEndpoint, Begins, ChangeType
  <2>2. e \notin targets /\ targets = targetsRow
    BY <1>2, <2>1 DEF DeleteEndpoint, MayDeleteEndpoint, AliasNamesClients
  <2>3. /\ client' = [client EXCEPT ![e] = 0] /\ apiKey' = [apiKey EXCEPT ![e] = 0]
        /\ UNCHANGED <<endpointRow, secret, legacyKey, targets, targetsRow, pinned, refreshing, keyless>>
    BY <1>2 DEF DeleteEndpoint
  <2>4. RecordTypes'
    <3>1. changes' \in 0..MaxChanges
      BY <1>1, <2>1, GatewayAssumption
    <3>. QED BY <1>0, <1>1, <2>1, <2>3, <3>1, Unrouted DEF RecordTypes, GatewayTypeOK, ChangeType, RefreshType
  <2>5. /\ client'[e] = 0
        /\ \A n \in Names \ {e} : client'[n] = client[n] /\ apiKey'[n] = apiKey[n]
    BY <2>3 DEF RecordTypes, GatewayTypeOK
  <2>6. ClientsHaveRows'
    BY <1>1, <2>1, <2>2, <2>3, <2>5 DEF ClientsHaveRows
  <2>7. AliasNamesClients' /\ UnroutedIsThere'
    BY <2>1, <2>2, <2>3, <2>5, Unrouted, GatewayAssumption
    DEF RecordTypes, GatewayTypeOK, AliasNamesClients, UnroutedIsThere, Excepted
  <2>8. KeysAreStored'
    BY <2>1, <2>3, <2>5 DEF KeysAreStored, KeyIsStored
  <2>. QED BY <2>4, <2>6, <2>7, <2>8
<1>3. CASE DeleteEndpointRow
  <2>1. /\ change.at = "deleteRow" /\ change' \in ChangeType
        /\ change'.at = "deleteKey" /\ change'.endpoint = change.endpoint
        /\ change.endpoint \in Names
    BY <1>1, <1>3 DEF DeleteEndpointRow, Continues, ChangeType
  <2>2. /\ endpointRow' = [endpointRow EXCEPT ![change.endpoint] = 0] /\ UNCHANGED changes
        /\ UNCHANGED <<client, apiKey, secret, legacyKey, targets, targetsRow, pinned, refreshing, keyless>>
    BY <1>3 DEF DeleteEndpointRow, Continues
  <2>3. RecordTypes'
    BY <1>0, <1>1, <2>1, <2>2, Unrouted DEF RecordTypes, GatewayTypeOK, ChangeType, RefreshType
  <2>4. ClientsHaveRows' /\ KeysAreStored'
    BY <1>1, <2>1, <2>2 DEF RecordTypes, GatewayTypeOK, ClientsHaveRows, KeysAreStored, KeyIsStored
  <2>5. change.endpoint \notin targetsRow
    BY <2>1 DEF ClientsHaveRows
  <2>6. unrouted => unrouted'
    BY <1>0, <2>1, <2>2, Unrouted, GatewayAssumption DEF RecordTypes, GatewayTypeOK, UnroutedIsThere
  <2>7. AliasNamesClients' /\ UnroutedIsThere'
    BY <2>1, <2>2, <2>5, <2>6, Unrouted
    DEF RecordTypes, GatewayTypeOK, AliasNamesClients, UnroutedIsThere, Excepted
  <2>. QED BY <2>3, <2>4, <2>7
<1>4. CASE DeleteKey
  <2>1. change' = NoChange /\ change.at = "deleteKey" /\ change.endpoint \in Names
    BY <1>1, <1>4 DEF DeleteKey, ChangeEnds, ChangeType
  <2>2. /\ secret' = [secret EXCEPT ![change.endpoint] = 0] /\ UNCHANGED changes
        /\ UNCHANGED <<client, endpointRow, apiKey, legacyKey, targets, targetsRow, pinned, refreshing,
                       keyless>>
    BY <1>4 DEF DeleteKey, ChangeEnds
  <2>3. RecordTypes'
    BY <1>0, <1>1, <2>1, <2>2, Unrouted, IdleTypes
    DEF RecordTypes, GatewayTypeOK, ChangeType, RefreshType
  <2>4. ClientsHaveRows' /\ KeysAreStored'
    BY <1>1, <2>1, <2>2, IdleTypes DEF RecordTypes, GatewayTypeOK, ClientsHaveRows, KeysAreStored, KeyIsStored
  <2>5. AliasNamesClients' /\ UnroutedIsThere'
    BY <2>1, <2>2, Unrouted, IdleTypes DEF AliasNamesClients, UnroutedIsThere, Excepted
  <2>. QED BY <2>3, <2>4, <2>5
<1>. QED BY <1>2, <1>3, <1>4

\* A key deleted by itself stays with the client, which is then one of the exceptions.
LEMMA KeyDeletedPreserves ==
  ASSUME GatewayInv, DeleteStoredKey, StaysUnrouted
  PROVE  GatewayInv'
<1>. USE DEF GatewayInv
<1>1. /\ change.at = "idle" /\ changes \in 0..MaxChanges /\ changes' = changes + 1 /\ changes < MaxChanges
      /\ UNCHANGED <<client, endpointRow, apiKey, targets, targetsRow, pinned, change, refreshing>>
      /\ 0 \in 0..MaxChanges /\ changes' \in 0..MaxChanges /\ changes' # 0
  BY GatewayAssumption DEF DeleteStoredKey, RecordTypes, GatewayTypeOK
<1> DEFINE Kept(e) == secret'[e] = secret[e] /\ (e \in keyless => e \in keyless')
           Gone(e) == secret'[e] = 0 /\ e \in keyless'
<1>2. /\ secret' \in [Names -> 0..MaxChanges] /\ legacyKey' \in {0, Migrated} /\ keyless' \subseteq Names
      /\ \A e \in Names : Kept(e) \/ Gone(e)
  <2>1. ASSUME NEW d \in Names, secret' = [secret EXCEPT ![d] = 0], keyless' = keyless \cup {d},
               UNCHANGED legacyKey
        PROVE  /\ secret' \in [Names -> 0..MaxChanges] /\ legacyKey' \in {0, Migrated}
               /\ keyless' \subseteq Names /\ \A e \in Names : Kept(e) \/ Gone(e)
    BY <1>1, <2>1 DEF RecordTypes, GatewayTypeOK
  <2>2. CASE legacyKey' = 0 /\ UNCHANGED <<secret, keyless>>
    BY <2>2 DEF RecordTypes, GatewayTypeOK
  <2>. QED BY <2>1, <2>2 DEF DeleteStoredKey
<1>3. RecordTypes'
  BY <1>1, <1>2, Unrouted DEF RecordTypes, GatewayTypeOK
<1>4. ClientsHaveRows'
  BY <1>1 DEF ClientsHaveRows
<1>5. AliasNamesClients' /\ UnroutedIsThere'
  BY <1>1, Unrouted DEF AliasNamesClients, UnroutedIsThere, Excepted
<1>6. KeysAreStored'
  BY <1>1, <1>2 DEF KeysAreStored, KeyIsStored
<1>. QED BY <1>3, <1>4, <1>5, <1>6

\* An alias is made of clients that are there - at that moment no row is missing - and goes
\* from its row and from memory at once.
LEMMA AliasPreserves ==
  ASSUME GatewayInv, PutAlias \/ StoreAlias \/ DeleteAlias \/ AliasDeleted, StaysUnrouted
  PROVE  GatewayInv'
<1>. USE DEF GatewayInv
<1>1. changes \in 0..MaxChanges /\ change \in ChangeType
  BY DEF RecordTypes, GatewayTypeOK
<1>2. CASE PutAlias
  <2>1. PICK T \in SUBSET {e \in Names : client[e] # 0} :
          /\ Begins([NoChange EXCEPT !.at = "alias", !.targets = T])
          /\ targetsRow' = T
    BY <1>2 DEF PutAlias
  <2>2. /\ change.at = "idle" /\ changes < MaxChanges /\ changes' = changes + 1
        /\ change' \in ChangeType /\ change'.at = "alias" /\ change'.targets = T
    BY <2>1, IdleTypes DEF Begins, ChangeType
  <2>3. UNCHANGED <<client, endpointRow, apiKey, secret, legacyKey, targets, pinned, refreshing, keyless>>
    BY <1>2 DEF PutAlias
  <2>4. RecordTypes'
    BY <1>1, <2>1, <2>2, <2>3, Unrouted, GatewayAssumption
    DEF RecordTypes, GatewayTypeOK, ChangeType, RefreshType
  <2>5. ClientsHaveRows' /\ KeysAreStored'
    BY <1>1, <2>1, <2>2, <2>3 DEF ClientsHaveRows, KeysAreStored, KeyIsStored
  <2>6. \A e \in T : client[e] # 0 /\ endpointRow[e] # 0
    BY <2>2 DEF ClientsHaveRows
  <2>7. unrouted => unrouted'
    BY <2>3, Unrouted DEF UnroutedIsThere
  <2>8. AliasNamesClients' /\ UnroutedIsThere'
    BY <2>1, <2>2, <2>3, <2>6, <2>7, Unrouted DEF AliasNamesClients, UnroutedIsThere, Excepted
  <2>. QED BY <2>4, <2>5, <2>8
<1>3. CASE StoreAlias
  <2>1. change' = NoChange /\ change.at = "alias" /\ change.targets \subseteq Names
        /\ targets' = change.targets /\ UNCHANGED changes
        /\ UNCHANGED <<client, endpointRow, apiKey, secret, legacyKey, targetsRow, pinned, refreshing,
                       keyless>>
    BY <1>1, <1>3 DEF StoreAlias, ChangeEnds, ChangeType
  <2>2. RecordTypes'
    BY <1>1, <2>1, Unrouted, IdleTypes
    DEF RecordTypes, GatewayTypeOK, ChangeType, RefreshType
  <2>3. ClientsHaveRows' /\ KeysAreStored'
    BY <1>1, <2>1, IdleTypes DEF ClientsHaveRows, KeysAreStored, KeyIsStored
  <2>4. AliasNamesClients' /\ UnroutedIsThere'
    BY <2>1, Unrouted, IdleTypes DEF AliasNamesClients, UnroutedIsThere, Excepted
  <2>. QED BY <2>2, <2>3, <2>4
<1>4. CASE DeleteAlias
  <2>1. /\ change.at = "idle" /\ changes < MaxChanges /\ changes' = changes + 1
        /\ change' \in ChangeType /\ change'.at = "aliasGone" /\ targets' = {} /\ targetsRow' = {}
        /\ UNCHANGED <<client, endpointRow, apiKey, secret, legacyKey, pinned, refreshing, keyless>>
    BY <1>4, IdleTypes DEF DeleteAlias, Begins, ChangeType
  <2>2. RecordTypes'
    BY <1>1, <2>1, Unrouted, GatewayAssumption
    DEF RecordTypes, GatewayTypeOK, ChangeType, RefreshType
  <2>3. ClientsHaveRows' /\ KeysAreStored'
    BY <1>1, <2>1 DEF ClientsHaveRows, KeysAreStored, KeyIsStored
  <2>4. AliasNamesClients' /\ UnroutedIsThere'
    BY <2>1, Unrouted DEF AliasNamesClients, UnroutedIsThere, Excepted
  <2>. QED BY <2>2, <2>3, <2>4
<1>5. CASE AliasDeleted
  <2>1. change' = NoChange /\ change.at = "aliasGone" /\ UNCHANGED changes
        /\ UNCHANGED <<client, endpointRow, apiKey, secret, legacyKey, targets, targetsRow, pinned,
                       refreshing, keyless>>
    BY <1>5 DEF AliasDeleted, ChangeEnds
  <2>2. RecordTypes'
    BY <1>1, <2>1, Unrouted, IdleTypes
    DEF RecordTypes, GatewayTypeOK, ChangeType, RefreshType
  <2>3. ClientsHaveRows' /\ KeysAreStored'
    BY <1>1, <2>1, IdleTypes DEF ClientsHaveRows, KeysAreStored, KeyIsStored
  <2>4. AliasNamesClients' /\ UnroutedIsThere'
    BY <2>1, Unrouted, IdleTypes DEF AliasNamesClients, UnroutedIsThere, Excepted
  <2>. QED BY <2>2, <2>3, <2>4
<1>. QED BY <1>2, <1>3, <1>4, <1>5

\* A pin, a refresh that asks, one that stores - it only ever adds a row - and a restart.
LEMMA BesidePreserves ==
  ASSUME GatewayInv, PinEndpoint \/ (\E e \in Names : RefreshAsks(e)) \/ RefreshStores \/ GatewayRestart,
         StaysUnrouted
  PROVE  GatewayInv'
<1>. USE DEF GatewayInv
<1>1. changes \in 0..MaxChanges /\ change \in ChangeType /\ refreshing \in RefreshType
  BY DEF RecordTypes, GatewayTypeOK
<1>2. CASE PinEndpoint
  <2>1. UNCHANGED <<client, endpointRow, apiKey, secret, legacyKey, targets, targetsRow, change,
                    refreshing, changes, keyless>>
        /\ pinned' \subseteq Names
    BY <1>2 DEF PinEndpoint
  <2>2. RecordTypes'
    BY <2>1, Unrouted DEF RecordTypes, GatewayTypeOK
  <2>3. ClientsHaveRows' /\ KeysAreStored'
    BY <2>1 DEF ClientsHaveRows, KeysAreStored, KeyIsStored
  <2>4. AliasNamesClients' /\ UnroutedIsThere'
    BY <2>1, Unrouted DEF AliasNamesClients, UnroutedIsThere, Excepted
  <2>. QED BY <2>2, <2>3, <2>4
<1>3. ASSUME NEW e \in Names, RefreshAsks(e)
      PROVE  GatewayInv'
  <2>1. /\ UNCHANGED <<client, endpointRow, apiKey, secret, legacyKey, targets, targetsRow, pinned,
                       change, changes, keyless>>
        /\ refreshing' = [endpoint |-> e, settings |-> client[e]] /\ client[e] # 0
        /\ client[e] \in 0..Migrated
    BY <1>3 DEF RefreshAsks, RecordTypes, GatewayTypeOK
  <2>2. RecordTypes'
    BY <2>1, Unrouted DEF RecordTypes, GatewayTypeOK, RefreshType
  <2>3. ClientsHaveRows' /\ KeysAreStored'
    BY <2>1 DEF ClientsHaveRows, KeysAreStored, KeyIsStored
  <2>4. AliasNamesClients' /\ UnroutedIsThere'
    BY <2>1, Unrouted DEF AliasNamesClients, UnroutedIsThere, Excepted
  <2>. QED BY <2>2, <2>3, <2>4
<1>4. CASE RefreshStores
  <2>1. /\ UNCHANGED <<client, apiKey, secret, legacyKey, targets, targetsRow, pinned, change,
                       changes, keyless>>
        /\ refreshing' = NoRefresh /\ refreshing # NoRefresh
        /\ endpointRow' = [endpointRow EXCEPT ![refreshing.endpoint] = refreshing.settings]
    BY <1>4 DEF RefreshStores
  <2>2. refreshing.settings # 0 /\ refreshing.settings \in 0..Migrated /\ refreshing.endpoint \in Names
    BY <1>1, <2>1 DEF ClientsHaveRows, RefreshType
  <2>3. RecordTypes'
    BY <2>1, <2>2, Unrouted, IdleTypes DEF RecordTypes, GatewayTypeOK, RefreshType
  <2>4. \A e \in Names : endpointRow[e] # 0 => endpointRow'[e] # 0
    BY <2>1, <2>2 DEF RecordTypes, GatewayTypeOK
  <2>5. targetsRow \subseteq Names /\ targets \subseteq Names
    BY DEF RecordTypes, GatewayTypeOK
  <2>6. ClientsHaveRows' /\ KeysAreStored'
    BY <2>1, <2>4 DEF ClientsHaveRows, KeysAreStored, KeyIsStored
  <2>7. unrouted => unrouted' \/ (client[DefaultEndpoint] # 0 /\ endpointRow'[DefaultEndpoint] # 0)
    BY <2>1, <2>2, Unrouted, GatewayAssumption DEF RecordTypes, GatewayTypeOK, UnroutedIsThere
  <2>8. AliasNamesClients' /\ UnroutedIsThere'
    BY <2>1, <2>4, <2>5, <2>7, Unrouted, IdleTypes DEF AliasNamesClients, UnroutedIsThere, Excepted
  <2>. QED BY <2>3, <2>6, <2>8
<1>5. CASE GatewayRestart
  <2>1. /\ change' = NoChange /\ refreshing' = NoRefresh /\ client' = endpointRow /\ targets' = targetsRow
        /\ UNCHANGED <<endpointRow, secret, legacyKey, targetsRow, pinned, changes>> /\ keyless' = {}
        /\ apiKey' = [e \in Names |-> IF endpointRow[e] = 0 THEN 0 ELSE KeyAtStart(e)]
    BY <1>5 DEF GatewayRestart, LoadConnection
  <2>2. \A e \in Names : /\ KeyAtStart(e) \in 0..Migrated
                         /\ \/ KeyAtStart(e) = secret[e]
                            \/ secret[e] = 0 /\ e = DefaultEndpoint /\ KeyAtStart(e) = Migrated
    BY GatewayAssumption DEF KeyAtStart, RecordTypes, GatewayTypeOK, Migrated
  <2>3. 0 \in 0..Migrated
    BY GatewayAssumption DEF Migrated
  <2>4. RecordTypes'
    BY <1>1, <2>1, <2>2, <2>3, Unrouted, IdleTypes
    DEF RecordTypes, GatewayTypeOK, ChangeType, RefreshType
  <2>5. ClientsHaveRows'
    BY <2>1, IdleTypes DEF ClientsHaveRows
  <2>6. KeysAreStored'
    BY <2>1, <2>2, IdleTypes DEF KeysAreStored, KeyIsStored
  <2>7. \A e \in targetsRow : endpointRow[e] # 0 \/ (unrouted /\ e = DefaultEndpoint /\ targets = targetsRow)
    BY DEF AliasNamesClients, Excepted
  <2>8. AliasNamesClients' /\ UnroutedIsThere'
    BY <2>1, <2>7, Unrouted, IdleTypes DEF AliasNamesClients, UnroutedIsThere, Excepted
  <2>. QED BY <2>4, <2>5, <2>6, <2>8
<1>. QED BY <1>2, <1>3, <1>4, <1>5

\* The invariant is inductive.
THEOREM GatewayInvariant == GatewaySpec => []GatewayInv
<1>1. ASSUME GatewayInv, [GatewayNext]_gatewayVars
      PROVE  GatewayInv'
  <2>1. CASE UNCHANGED gatewayVars
    BY <1>1, <2>1
    DEF gatewayVars, GatewayInv, RecordTypes, GatewayTypeOK, ClientsHaveRows, AliasNamesClients,
        UnroutedIsThere, Excepted, KeysAreStored, KeyIsStored
  <2>2. CASE GatewayNext
    BY <1>1, <2>2, PutPreserves, ReplacePreserves, DeletePreserves, KeyDeletedPreserves, AliasPreserves,
       BesidePreserves
    DEF GatewayNext
  <2>. QED BY <1>1, <2>1, <2>2
<1>. QED BY <1>1, GatewayInitInv, PTL DEF GatewaySpec

\* Every variable has its type (Gateway).
THEOREM GatewayTypes == GatewaySpec => []GatewayTypeOK
<1>1. GatewayInv => GatewayTypeOK
  BY DEF GatewayInv, RecordTypes
<1>. QED BY <1>1, GatewayInvariant, PTL

\* An alias resolves, now and after the next start, but for one of migration 013 whose
\* endpoint was never stored; and a client has the stored key - if none is stored, "default"
\* may have the earlier version's and a client whose credential was deleted the one it had
\* (app/service.py put_gateway_endpoint, delete_gateway_endpoint, put_gateway_alias).
THEOREM AliasesResolveAlways == GatewaySpec => []AliasesResolve
<1>1. GatewayInv => AliasesResolve
  BY DEF GatewayInv, ClientsHaveRows, AliasNamesClients, Excepted, KeysAreStored, AliasesResolve
<1>. QED BY <1>1, GatewayInvariant, PTL

-----------------------------------------------------------------------------
(* Cron                                                                    *)

\* The numbers behind each other: what was registered was asked for, what was delivered was
\* fired, what was cut was a crash.
Counted ==
  /\ registered + (IF adminAt = "put" THEN 1 ELSE 0) <= requests
  /\ delivered + (IF runAt \in {"fired", "got"} THEN 1 ELSE 0) <= firings
  /\ cut <= crashes

\* How many further actions what is there now may still lead to: a register that is about to
\* make the entry, and either the run before its action, or the entry, or the active row
\* that the next start would schedule.
Coming ==
  (IF adminAt = "schedule" THEN 1 ELSE 0) +
  (IF runAt = "delivered" THEN 0
   ELSE IF runAt \in {"fired", "got"} \/ (runAt = "no" /\ entry) THEN 1
   ELSE IF status = "active" /\ adminAt # "schedule" THEN 1 ELSE 0)

\* Every further action of a one-shot job is covered by a register or by a crash.
ActionsAreCovered == once => delivered + Coming <= registered + cut

\* An entry, and an entry about to be made, belong to an active row, but where the run of a
\* one-shot job has written completed and will take the entry with it.
EntryHasActiveRow ==
  /\ entry /\ ~(once /\ runAt \in {"put", "after"}) => status = "active"
  /\ adminAt = "schedule" /\ ~(once /\ runAt = "after") => status = "active"
  /\ admin = "none" <=> adminAt = "none"

CronInv == CronTypeOK /\ Counted /\ ActionsAreCovered /\ EntryHasActiveRow

AdminStep ==
  \/ CreateJob \/ ResumeGets \/ RegisterPuts \/ RegisterSchedules
  \/ PauseGets \/ PauseForOwner \/ OwnerGets \/ PausePuts \/ DeleteJob \/ DeleteReturns
RunStep ==
  \/ FireJob \/ MisfireJob \/ RunGets \/ RunDelivers \/ CronRunFails \/ RunPuts \/ RunEnds

-----------------------------------------------------------------------------

\* Every initial state satisfies the invariant.
LEMMA CronInitInv == CronInit => CronInv
<1>. SUFFICES ASSUME CronInit PROVE CronInv
  OBVIOUS
<1>. USE CronAssumption DEF CronInit
<1>1. entry \in BOOLEAN /\ ~entry
  BY Zenon
<1>2. CronTypeOK /\ Counted
  BY <1>1 DEF CronTypeOK, Counted
<1>3. ActionsAreCovered
  BY DEF ActionsAreCovered, Coming
<1>4. EntryHasActiveRow
  BY DEF EntryHasActiveRow
<1>. QED BY <1>2, <1>3, <1>4 DEF CronInv

\* The administrator's requests: a register pays for the entry it makes.
LEMMA AdminPreserves ==
  ASSUME CronInv, AdminStep
  PROVE  CronInv'
<1>. USE CronAssumption
     DEF CronInv, CronTypeOK, Counted, ActionsAreCovered, Coming, EntryHasActiveRow, CounterVars,
         CronRequest, AdminGoes, AdminDone, PutJob
<1>1. CASE CreateJob
  BY <1>1 DEF CreateJob
<1>2. CASE ResumeGets
  BY <1>2 DEF ResumeGets
<1>3. CASE RegisterPuts
  BY <1>3 DEF RegisterPuts
<1>4. CASE RegisterSchedules
  BY <1>4 DEF RegisterSchedules
<1>5. CASE PauseGets
  BY <1>5 DEF PauseGets
<1>6. CASE PauseForOwner
  BY <1>6 DEF PauseForOwner
<1>7. CASE OwnerGets
  BY <1>7 DEF OwnerGets
<1>8. CASE PausePuts
  <2>. USE <1>8 DEF PausePuts
  <2>1. CronTypeOK' OBVIOUS
  <2>2. Counted' OBVIOUS
  <2>3. ActionsAreCovered' OBVIOUS
  <2>4. EntryHasActiveRow' OBVIOUS
  <2>. QED BY <2>1, <2>2, <2>3, <2>4
<1>9. CASE DeleteJob
  <2>. USE <1>9 DEF DeleteJob
  <2>1. CronTypeOK'
    <3>1. entry' \in BOOLEAN
      BY Zenon
    <3>2. requests' \in 0..MaxRequests
      OBVIOUS
    <3>. QED BY <3>1, <3>2
  <2>2. Counted' OBVIOUS
  <2>3. ActionsAreCovered' OBVIOUS
  <2>4. EntryHasActiveRow' OBVIOUS
  <2>. QED BY <2>1, <2>2, <2>3, <2>4
<1>10. CASE DeleteReturns
  BY <1>10 DEF DeleteReturns
<1>. QED BY <1>1, <1>2, <1>3, <1>4, <1>5, <1>6, <1>7, <1>8, <1>9, <1>10 DEF AdminStep

\* The run: its action uses up what the firing took from the entry, and the row that says
\* completed follows.
LEMMA RunPreserves ==
  ASSUME CronInv, RunStep
  PROVE  CronInv'
<1>. USE CronAssumption
     DEF CronInv, CronTypeOK, Counted, ActionsAreCovered, Coming, EntryHasActiveRow, CounterVars,
         PutJob
<1>1. CASE FireJob
  BY <1>1 DEF FireJob
<1>2. CASE MisfireJob
  <2>. USE <1>2 DEF MisfireJob
  <2>1. CronTypeOK' OBVIOUS
  <2>2. Counted' OBVIOUS
  <2>3. ActionsAreCovered' OBVIOUS
  <2>4. EntryHasActiveRow' OBVIOUS
  <2>. QED BY <2>1, <2>2, <2>3, <2>4
<1>3. CASE RunGets
  BY <1>3 DEF RunGets
<1>4. CASE RunDelivers
  BY <1>4 DEF RunDelivers
<1>5. CASE CronRunFails
  BY <1>5 DEF CronRunFails
<1>6. CASE RunPuts
  BY <1>6 DEF RunPuts, PutsOutcome
<1>7. CASE RunEnds
  BY <1>7 DEF RunEnds
<1>. QED BY <1>1, <1>2, <1>3, <1>4, <1>5, <1>6, <1>7 DEF RunStep

\* The daemon dies: between an action and its row the crash itself covers the next action.
LEMMA RestartPreserves ==
  ASSUME CronInv, CronRestart
  PROVE  CronInv'
<1>. USE CronAssumption, CronInv, CronRestart DEF CronRestart
<1>1. CronTypeOK' /\ Counted'
  BY DEF CronInv, CronTypeOK, Counted
<1>2. EntryHasActiveRow'
  BY DEF CronInv, EntryHasActiveRow
<1>3. ActionsAreCovered'
  <2>1. SUFFICES ASSUME once PROVE delivered + Coming' <= registered + cut'
    BY DEF ActionsAreCovered
  <2>2. delivered \in Nat /\ registered \in Nat /\ cut \in Nat /\ runAt \in {"no", "fired", "got", "delivered", "put", "after"}
    BY DEF CronInv, CronTypeOK
  <2>3. Coming' = IF status = "active" THEN 1 ELSE 0
    <3>1. entry' <=> status = "active"
      BY Zenon
    <3>. QED BY <3>1 DEF Coming
  <2>4. delivered + Coming <= registered + cut
    BY <2>1 DEF CronInv, ActionsAreCovered
  <2>5. CASE runAt = "delivered"
    BY <2>2, <2>3, <2>4, <2>5 DEF Coming
  <2>6. CASE runAt # "delivered"
    <3>1. Coming >= (IF status = "active" THEN 1 ELSE 0) /\ Coming \in Nat
      BY <2>2, <2>6 DEF Coming
    <3>. QED BY <2>2, <2>3, <2>4, <2>6, <3>1
  <2>. QED BY <2>5, <2>6
<1>. QED BY <1>1, <1>2, <1>3 DEF CronInv

\* The invariant is inductive.
THEOREM CronInvariant == CronSpec => []CronInv
<1>1. ASSUME CronInv, [CronNext]_cronVars
      PROVE  CronInv'
  <2>1. CASE AdminStep
    BY <1>1, <2>1, AdminPreserves
  <2>2. CASE RunStep
    BY <1>1, <2>2, RunPreserves
  <2>3. CASE CronRestart
    BY <1>1, <2>3, RestartPreserves
  <2>4. CASE UNCHANGED cronVars
    BY <1>1, <2>4
    DEF cronVars, CronInv, CronTypeOK, Counted, ActionsAreCovered, Coming, EntryHasActiveRow
  <2>. QED BY <1>1, <2>1, <2>2, <2>3, <2>4 DEF CronNext, AdminStep, RunStep
<1>. QED BY <1>1, CronInitInv, PTL DEF CronSpec

\* Every variable has its type (Cron).
THEOREM CronTypes == CronSpec => []CronTypeOK
<1>1. CronInv => CronTypeOK
  BY DEF CronInv
<1>. QED BY <1>1, CronInvariant, PTL

\* A one-shot job acts as often as it was registered, or cut off by a crash before its row
\* said completed (cron/executor.py, cron/scheduler.py sync_from_store).
THEOREM OneShotActsOnceAlways == CronSpec => []OneShotActsOnce
<1>1. CronInv => OneShotActsOnce
  BY DEF CronInv, CronTypeOK, ActionsAreCovered, Coming, OneShotActsOnce
<1>. QED BY <1>1, CronInvariant, PTL

\* With nothing under way the scheduler holds active jobs only (cron/scheduler.py, app/cron.py).
THEOREM EntryIsActiveAlways == CronSpec => []EntryIsActive
<1>1. CronInv => EntryIsActive
  BY DEF CronInv, EntryHasActiveRow, EntryIsActive
<1>. QED BY <1>1, CronInvariant, PTL

-----------------------------------------------------------------------------
(* Actors                                                                  *)

\* Where a request can be, by its kind.
RequestSteps ==
  \/ request = NoRequest
  \/ request.kind = "enable" /\ request.at = "enabled"
  \/ request.kind = "disable" /\ request.at \in {"closing", "dropping", "dropped"}
  \/ request.kind = "update" /\ request.at \in {"closing", "dropping", "dropped", "disabled",
                                                "writing", "written", "enabled"}
  \/ request.kind = "remove" /\ request.at \in {"closing", "dropping", "dropped", "disabled",
                                                "deleting"}
  \/ request.kind = "load" /\ request.at \in {"loading", "enabled"}

\* The record is at its row except between the write of the one and of the other.
RecordHasRow ==
  /\ request.at \notin {"writing", "deleting"} => record = row.record
  /\ request.at \in {"writing", "written", "enabled"} => record # 0
  /\ request.at \in {"loading", "written"} => row.enabled
  /\ request.at = "deleting" => record = 0
  /\ row = NoRow \/ row.record # 0
  /\ request.kind = "update" /\ request.at \in {"closing", "dropping", "dropped", "disabled"} =>
       records < MaxRecords

\* A live Actor listens, and lives only outside the requests that stop it.
LiveListens ==
  /\ live # 0 => /\ request.at \in {"none", "enabled"} /\ live <= built
                 /\ boxOf[live] = registry /\ registry # 0 /\ config[live] = record
  /\ request.at = "enabled" => live # 0
  /\ serving # 0 => serving = live \/ request.at = "closing"

\* The enabled column goes with the status, and with the Actor when no request is under way.
StatusIsTrue ==
  /\ row.status = "running" => row.enabled
  /\ row.status = "disabled" => ~row.enabled
  /\ live # 0 /\ request = NoRequest => row.enabled
  /\ row.status = "running" =>
       live # 0 \/ request.at \in {"closing", "dropping", "dropped", "loading"}
  /\ request.at \in {"written", "writing"} => live = 0

ActorsInv == ActorsTypeOK /\ RequestSteps /\ RecordHasRow /\ LiveListens /\ StatusIsTrue

-----------------------------------------------------------------------------

\* The initial state satisfies the invariant.
LEMMA ActorsInitInv == ActorsInit => ActorsInv
  <1> SUFFICES ASSUME ActorsInit PROVE ActorsInv
    OBVIOUS
  <1>1. ActorsTypeOK
    <2>1. row = NoRow /\ request = NoRequest
      BY DEF ActorsInit
    <2> QED
      <3>1. 0 \in 0..MaxRecords /\ 0 \in 0..MaxActorObjects /\ 0 \in 0..MaxMail
        BY ActorsAssumption
      <3>2. /\ config \in [ActorObjs -> 0..MaxRecords] /\ boxOf \in [ActorObjs -> {0} \cup Boxes]
            /\ mail \in [Boxes -> 0..MaxMail]
        BY <3>1 DEF ActorsInit
      <3>3. row \in [record : 0..MaxRecords, enabled : BOOLEAN,
                    status : {"none", "idle", "running", "disabled", "blocked"}]
        BY <2>1, <3>1 DEF NoRow
      <3>4. request \in [kind : {"none", "enable", "disable", "update", "remove", "load"},
                        at : {"none", "enabled", "closing", "dropping", "dropped", "disabled",
                              "writing", "written", "deleting", "loading"}]
        BY <2>1 DEF NoRequest
      <3>5. routed \in BOOLEAN
        BY Zenon DEF ActorsInit
      <3> QED
        BY <3>1, <3>2, <3>3, <3>4, <3>5 DEF ActorsInit, ActorsTypeOK
  <1>2. RequestSteps /\ RecordHasRow /\ LiveListens /\ StatusIsTrue
    BY DEF ActorsInit, RequestSteps, RecordHasRow, LiveListens, StatusIsTrue, NoRow, NoRequest
  <1> QED
    BY <1>1, <1>2 DEF ActorsInv

\* set_actor_status keeps the record of the row it touches.
LEMMA StatusSet ==
  ASSUME ActorsTypeOK, NEW stored \in {"none", "idle", "running", "disabled", "blocked"},
         NEW enabled \in BOOLEAN, SetStatus(stored, enabled)
  PROVE  /\ row' \in [record : 0..MaxRecords, enabled : BOOLEAN,
                      status : {"none", "idle", "running", "disabled", "blocked"}]
         /\ row = NoRow => row' = NoRow
         /\ row # NoRow => row' = [record |-> row.record, enabled |-> enabled, status |-> stored]
  BY DEF ActorsTypeOK, SetStatus, NoRow

\* The status column alone.
LEMMA StatusTouched ==
  ASSUME ActorsTypeOK, NEW stored \in {"none", "idle", "running", "disabled", "blocked"},
         row' = IF row = NoRow THEN NoRow ELSE [row EXCEPT !.status = stored]
  PROVE  /\ row' \in [record : 0..MaxRecords, enabled : BOOLEAN,
                      status : {"none", "idle", "running", "disabled", "blocked"}]
         /\ row = NoRow => row' = NoRow
         /\ row # NoRow => row' = [record |-> row.record, enabled |-> row.enabled, status |-> stored]
  BY DEF ActorsTypeOK, NoRow

\* ensure registers a mailbox and leaves the registered one.
LEMMA MailboxEnsured ==
  ASSUME ActorsTypeOK, EnsureMailbox
  PROVE  /\ Ensured \in Boxes /\ registry' = Ensured /\ boxes' \in {0} \cup Boxes
         /\ registry # 0 => registry' = registry
  BY DEF EnsureMailbox, Ensured, ActorsTypeOK, Boxes

\* What enable_actor does up to its await.
LEMMA EnableType ==
  ASSUME ActorsTypeOK, NEW kind \in {"enable", "update", "load"}, EnableActor(kind)
  PROVE  ActorsTypeOK'
  <1>1. request' \in [kind : {"none", "enable", "disable", "update", "remove", "load"},
                      at : {"none", "enabled", "closing", "dropping", "dropped", "disabled", "writing",
                            "written", "deleting", "loading"}]
    BY DEF EnableActor, Goto
  <1>2. CASE live = 0
    <2>1. Ensured \in Boxes /\ registry' = Ensured /\ boxes' \in {0} \cup Boxes
      BY <1>2, MailboxEnsured DEF EnableActor, CreateActor
    <2>2. built + 1 \in ActorObjs /\ built + 1 \in 0..MaxActorObjects
      BY <1>2, ActorsAssumption DEF EnableActor, CreateActor, ActorObjs, ActorsTypeOK
    <2>3. config' \in [ActorObjs -> 0..MaxRecords] /\ boxOf' \in [ActorObjs -> {0} \cup Boxes]
      BY <1>2, <2>1 DEF EnableActor, CreateActor, ActorsTypeOK
    <2>4. serving' \in 0..MaxActorObjects /\ handling' \in {"no", "run", "blocked"}
      BY <1>2, <2>2 DEF EnableActor, StartTask, ActorsTypeOK
    <2> QED
      BY <1>1, <1>2, <2>1, <2>2, <2>3, <2>4 DEF EnableActor, CreateActor, ActorsTypeOK
  <1>3. CASE live # 0
    BY <1>1, <1>3 DEF EnableActor, StartTask, ActorsTypeOK
  <1> QED
    BY <1>2, <1>3

\* Enabling, on request or at the start, leaves a live Actor that listens.
LEMMA EnableKeeps ==
  ASSUME ActorsInv, NEW kind \in {"enable", "update", "load"}, EnableActor(kind),
         record # 0, record = row.record, kind \in {"update", "load"} => row.enabled,
         request.at # "closing"
  PROVE  RequestSteps' /\ RecordHasRow' /\ LiveListens' /\ StatusIsTrue'
  <1>0. /\ request' = [kind |-> kind, at |-> "enabled"]
        /\ record' = record /\ records' = records /\ row' = row
    BY DEF EnableActor, Goto
  <1>1. live' # 0 /\ registry' # 0 /\ live' <= built' /\ boxOf'[live'] = registry' /\ config'[live'] = record
    <2>1. CASE live = 0
      <3>1. built + 1 \in ActorObjs /\ live' = built + 1 /\ built' = built + 1
        BY <2>1, ActorsAssumption
           DEF EnableActor, CreateActor, ActorsInv, ActorsTypeOK, ActorObjs
      <3>2. /\ config' = [config EXCEPT ![built + 1] = record]
            /\ boxOf' = [boxOf EXCEPT ![built + 1] = Ensured]
        BY <2>1 DEF EnableActor, CreateActor
      <3>3. config'[built + 1] = record /\ boxOf'[built + 1] = Ensured
        BY <3>1, <3>2 DEF ActorsInv, ActorsTypeOK
      <3>4. registry' = Ensured /\ registry' # 0
        BY <2>1, MailboxEnsured DEF EnableActor, CreateActor, ActorsInv, Boxes
      <3>5. built + 1 # 0 /\ built + 1 <= built + 1
        BY DEF ActorsInv, ActorsTypeOK
      <3> QED
        BY <3>1, <3>3, <3>4, <3>5
    <2>2. CASE live # 0
      BY <2>2 DEF EnableActor, ActorsInv, LiveListens
    <2> QED
      BY <2>1, <2>2
  <1>2. serving' # 0 => serving' = live'
    BY DEF EnableActor, CreateActor, StartTask, ActorsInv, LiveListens
  <1>3. RequestSteps' /\ RecordHasRow'
    BY <1>0 DEF RequestSteps, RecordHasRow, ActorsInv, NoRequest
  <1>4. LiveListens'
    BY <1>0, <1>1, <1>2 DEF LiveListens
  <1>5. StatusIsTrue'
    BY <1>0, <1>1 DEF StatusIsTrue, ActorsInv, NoRequest
  <1> QED
    BY <1>3, <1>4, <1>5

\* A delivery reaches the registered mailbox, or one that is registered then.
LEMMA DeliverKeeps ==
  ASSUME ActorsInv, Deliver
  PROVE  ActorsTypeOK' /\ RequestSteps' /\ RecordHasRow' /\ LiveListens' /\ StatusIsTrue'
  <1>1. Ensured \in Boxes /\ registry' = Ensured /\ boxes' \in {0} \cup Boxes
    BY MailboxEnsured DEF Deliver, ActorsInv
  <1>2. mail' \in [Boxes -> 0..MaxMail]
    BY <1>1, ActorsAssumption DEF Deliver, ActorsInv, ActorsTypeOK
  <1>3. ActorsTypeOK'
    <2>1. routed' \in BOOLEAN /\ UNCHANGED lifeVars
      BY DEF Deliver, ActorsInv, ActorsTypeOK
    <2> QED
      BY <1>1, <1>2, <2>1 DEF lifeVars, ActorsInv, ActorsTypeOK
  <1>4. RequestSteps' /\ RecordHasRow' /\ StatusIsTrue'
    BY DEF Deliver, lifeVars, ActorsInv, RequestSteps, RecordHasRow, StatusIsTrue
  <1>5. LiveListens'
    BY MailboxEnsured DEF Deliver, lifeVars, ActorsInv, LiveListens
  <1> QED
    BY <1>3, <1>4, <1>5

\* Every step keeps the types.
LEMMA ActorsTypeStep == ActorsInv /\ [ActorsNext]_actorVars => ActorsTypeOK'
  <1> SUFFICES ASSUME ActorsInv, ActorsTypeOK, [ActorsNext]_actorVars PROVE ActorsTypeOK'
    BY DEF ActorsInv
  <1> USE ActorsAssumption DEF NoRow, NoRequest, Goto, TaskKeeps, PopActor, lifeVars
  <1>1. CASE RequestEnable
    BY <1>1, EnableType DEF RequestEnable, ActorsTypeOK
  <1>2. CASE StatusRunning
    BY <1>2, StatusSet DEF StatusRunning, ActorsTypeOK
  <1>3. CASE RequestDisable
    BY <1>3 DEF RequestDisable, ActorsTypeOK
  <1>4. CASE StopTask
    BY <1>4 DEF StopTask, ActorsTypeOK
  <1>5. CASE DropMailbox
    BY <1>5 DEF DropMailbox, ActorsTypeOK
  <1>6. CASE StatusDisabled
    <2>1. SetStatus("disabled", FALSE)
      BY <1>6 DEF StatusDisabled
    <2>2. request' \in [kind : {"none", "enable", "disable", "update", "remove", "load"},
                         at : {"none", "enabled", "closing", "dropping", "dropped", "disabled",
                               "writing", "written", "deleting", "loading"}]
      BY <1>6 DEF StatusDisabled, ActorsTypeOK
    <2> QED
      BY <1>6, <2>1, <2>2, StatusSet DEF StatusDisabled, ActorsTypeOK
  <1>7. CASE RequestUpdate
    BY <1>7 DEF RequestUpdate, ActorsTypeOK
  <1>8. CASE PutRecord
    <2>1. records < MaxRecords
      BY <1>8 DEF PutRecord, ActorsInv, RecordHasRow
    <2> QED
      BY <1>8, <2>1 DEF PutRecord, ActorsTypeOK
  <1>9. CASE WriteRow
    BY <1>9 DEF WriteRow, ActorsTypeOK
  <1>10. CASE EnableUpdated
    BY <1>10, EnableType DEF EnableUpdated, ActorsTypeOK
  <1>11. CASE ModelGone
    BY <1>11 DEF ModelGone, ActorsTypeOK
  <1>12. CASE RequestRemove
    BY <1>12 DEF RequestRemove, ActorsTypeOK
  <1>13. CASE UninstallFails
    BY <1>13, StatusSet DEF UninstallFails, ActorsTypeOK
  <1>14. CASE ForgetRecord
    BY <1>14 DEF ForgetRecord, ActorsTypeOK
  <1>15. CASE DeleteRow
    BY <1>15 DEF DeleteRow, ActorsTypeOK
  <1>16. CASE ActorInbound
    BY <1>16, DeliverKeeps DEF ActorInbound
  <1>17. CASE Webhook
    BY <1>17, DeliverKeeps DEF Webhook
  <1>18. CASE PutRoute
    BY <1>18 DEF PutRoute, ActorsTypeOK
  <1>19. CASE DeleteRoute
    <2>1. routed' \in BOOLEAN
      BY <1>19, Zenon DEF DeleteRoute
    <2> QED
      BY <1>19, <2>1 DEF DeleteRoute, ActorsTypeOK
  <1>20. CASE Receive
    <2>1. mail' \in [Boxes -> 0..MaxMail]
      <3> DEFINE b == boxOf[serving]
      <3>1. CASE b \in Boxes
        BY <1>20, <3>1 DEF Receive, ActorsTypeOK
      <3>2. CASE b \notin Boxes
        BY <1>20, <3>2 DEF Receive, ActorsTypeOK
      <3> QED
        BY <3>1, <3>2
    <2> QED
      BY <1>20, <2>1 DEF Receive, ActorsTypeOK
  <1>21. CASE Handled
    BY <1>21 DEF Handled, ActorsTypeOK
  <1>22. CASE Compact
    BY <1>22 DEF Compact, ActorsTypeOK
  <1>23. CASE StopCompaction
    BY <1>23, StatusTouched DEF StopCompaction, ActorsTypeOK
  <1>24. CASE Block
    BY <1>24 DEF Block, ActorsTypeOK
  <1>25. CASE Blocked
    BY <1>25, StatusTouched DEF Blocked, ActorsTypeOK
  <1>26. CASE TaskDies
    BY <1>26 DEF TaskDies, ActorsTypeOK
  <1>27. CASE Restart
    BY <1>27 DEF Restart, ActorsTypeOK
  <1>28. CASE LoadActor
    BY <1>28, EnableType DEF LoadActor, ActorsTypeOK
  <1>29. CASE UNCHANGED actorVars
    BY <1>29 DEF actorVars, ActorsTypeOK
  <1> QED
    BY <1>1, <1>2, <1>3, <1>4, <1>5, <1>6, <1>7, <1>8, <1>9, <1>10, <1>11, <1>12, <1>13, <1>14,
       <1>15, <1>16, <1>17, <1>18, <1>19, <1>20, <1>21, <1>22, <1>23, <1>24, <1>25, <1>26, <1>27,
       <1>28, <1>29 DEF ActorsNext

\* Every step keeps the invariant.
LEMMA ActorsStepInv == ActorsInv /\ [ActorsNext]_actorVars => ActorsInv'
  <1> SUFFICES ASSUME ActorsInv, [ActorsNext]_actorVars PROVE RequestSteps' /\ RecordHasRow' /\ LiveListens' /\ StatusIsTrue'
    BY ActorsTypeStep DEF ActorsInv
  <1> USE ActorsAssumption DEF ActorsInv, ActorsTypeOK, NoRow, NoRequest, Goto, SetStatus,
     TaskKeeps,
          PopActor, lifeVars, RequestSteps, RecordHasRow, LiveListens, StatusIsTrue
  <1>1. CASE RequestEnable
    BY <1>1, EnableKeeps DEF RequestEnable
  <1>2. CASE StatusRunning
    BY <1>2 DEF StatusRunning
  <1>3. CASE RequestDisable
    BY <1>3 DEF RequestDisable
  <1>4. CASE StopTask
    BY <1>4 DEF StopTask
  <1>5. CASE DropMailbox
    BY <1>5 DEF DropMailbox
  <1>6. CASE StatusDisabled
    BY <1>6 DEF StatusDisabled
  <1>7. CASE RequestUpdate
    BY <1>7 DEF RequestUpdate
  <1>8. CASE PutRecord
    BY <1>8 DEF PutRecord
  <1>9. CASE WriteRow
    BY <1>9 DEF WriteRow
  <1>10. CASE EnableUpdated
    <2>1. record # 0 /\ record = row.record /\ row.enabled /\ request.at # "closing"
      BY <1>10 DEF EnableUpdated
    <2> QED
      BY <1>10, <2>1, EnableKeeps DEF EnableUpdated
  <1>11. CASE ModelGone
    BY <1>11 DEF ModelGone
  <1>12. CASE RequestRemove
    BY <1>12 DEF RequestRemove
  <1>13. CASE UninstallFails
    BY <1>13 DEF UninstallFails
  <1>14. CASE ForgetRecord
    BY <1>14 DEF ForgetRecord
  <1>15. CASE DeleteRow
    <2>1. live = 0 /\ serving = 0 /\ record = 0
      BY <1>15 DEF DeleteRow
    <2> QED
      BY <1>15, <2>1 DEF DeleteRow
  <1>16. CASE ActorInbound
    BY <1>16, DeliverKeeps DEF ActorInbound
  <1>17. CASE Webhook
    BY <1>17, DeliverKeeps DEF Webhook
  <1>18. CASE PutRoute
    BY <1>18 DEF PutRoute
  <1>19. CASE DeleteRoute
    BY <1>19 DEF DeleteRoute
  <1>20. CASE Receive
    BY <1>20 DEF Receive
  <1>21. CASE Handled
    BY <1>21 DEF Handled
  <1>22. CASE Compact
    BY <1>22 DEF Compact
  <1>23. CASE StopCompaction
    BY <1>23 DEF StopCompaction
  <1>24. CASE Block
    BY <1>24 DEF Block
  <1>25. CASE Blocked
    BY <1>25 DEF Blocked
  <1>26. CASE TaskDies
    BY <1>26 DEF TaskDies
  <1>27. CASE Restart
    BY <1>27 DEF Restart
  <1>28. CASE LoadActor
    BY <1>28, EnableKeeps DEF LoadActor
  <1>29. CASE UNCHANGED actorVars
    BY <1>29 DEF actorVars
  <1> QED
    BY <1>1, <1>2, <1>3, <1>4, <1>5, <1>6, <1>7, <1>8, <1>9, <1>10, <1>11, <1>12, <1>13, <1>14,
       <1>15, <1>16, <1>17, <1>18, <1>19, <1>20, <1>21, <1>22, <1>23, <1>24, <1>25, <1>26, <1>27,
       <1>28, <1>29 DEF ActorsNext

-----------------------------------------------------------------------------

\* The inductive invariant.
THEOREM ActorsInvariant == ActorsSpec => []ActorsInv
  BY ActorsInitInv, ActorsStepInv, PTL DEF ActorsSpec

\* Every variable of an actor's life keeps its type.
THEOREM ActorsTypes == ActorsSpec => []ActorsTypeOK
  <1>1. ActorsInv => ActorsTypeOK
    BY DEF ActorsInv
  <1> QED
    BY <1>1, ActorsInvariant, PTL

\* Between two lifecycle requests the Actor that runs is built from its record and waits on
\* the mailbox that inbound messages are put in.
THEOREM LiveActorListensAlways == ActorsSpec => []LiveActorListens
  <1>1. ActorsInv => LiveActorListens
    BY DEF ActorsInv, LiveListens, LiveActorListens, NoRequest
  <1> QED
    BY <1>1, ActorsInvariant, PTL

\* Between two lifecycle requests the row says what runs and what a restart will run.
THEOREM RowTellsTheActorAlways == ActorsSpec => []RowTellsTheActor
  <1>1. ActorsInv => RowTellsTheActor
    BY DEF ActorsInv, RecordHasRow, LiveListens, StatusIsTrue, RowTellsTheActor, NoRequest
  <1> QED
    BY <1>1, ActorsInvariant, PTL

-----------------------------------------------------------------------------
(* McpAuth                                                                 *)

Write == [attempt : Attempts, status : AttemptStatus, by : {"task", "callback", "request", "nobody"}]

\* An attempt that has succeeded has no task left that writes, and no callback.
EndedIsQuiet ==
  /\ \A a \in Attempts \ overruled :
       attemptRow[a] = "succeeded" => task[a] \in {"ending", "none"} /\ future[a] = "none"
  /\ \A a \in Attempts : task[a] \in {"saved", "ending"} => future[a] = "none"

\* The write of a success that somebody waits for is its task's and the last of the attempt.
SuccessIsLast ==
  /\ \A i \in DOMAIN writing :
       writing[i].status = "succeeded" /\ writing[i].by # "nobody" /\ writing[i].attempt \notin overruled
         => writing[i].by = "task" /\ attemptRow[writing[i].attempt] = "succeeded"
  /\ \A i, j \in DOMAIN writing :
       /\ i < j /\ writing[i].attempt = writing[j].attempt
       /\ writing[i].by # "nobody" /\ writing[i].attempt \notin overruled
       => writing[i].status # "succeeded"

\* Memory knows of a success that is in the row, and nobody waits for another write.
KnownSuccess ==
  \A a \in Attempts \ overruled : known[a] = "succeeded" =>
    /\ attemptRow[a] = "succeeded"
    /\ \A i \in DOMAIN writing : writing[i].attempt = a => writing[i].by = "nobody"

McpInv == McpTypeOK /\ EndedIsQuiet /\ SuccessIsLast /\ KnownSuccess

-----------------------------------------------------------------------------

\* What the proofs use of the writes under way.
LEMMA WritesUnderWay ==
  ASSUME McpTypeOK
  PROVE  /\ writing \in Seq(Write) /\ Len(writing) \in Nat /\ DOMAIN writing = 1..Len(writing)
         /\ \A i \in DOMAIN writing : /\ writing[i] \in Write /\ writing[i].attempt \in Attempts
                                      /\ writing[i].status \in AttemptStatus
                                      /\ writing[i].by \in {"task", "callback", "request", "nobody"}
<1>1. writing \in Seq(Write)
  BY DEF McpTypeOK, Write
<1>2. Len(writing) \in Nat /\ DOMAIN writing = 1..Len(writing)
  BY <1>1
<1>3. ASSUME NEW i \in DOMAIN writing PROVE writing[i] \in Write
  BY <1>1, <1>2
<1>4. \A w \in Write : /\ w.attempt \in Attempts /\ w.status \in AttemptStatus
                       /\ w.by \in {"task", "callback", "request", "nobody"}
  BY DEF Write
<1> QED BY <1>1, <1>2, <1>3, <1>4

\* The initial state satisfies the invariant.
LEMMA McpInitInv == McpInit => McpInv
<1> SUFFICES ASSUME McpInit PROVE McpInv
  OBVIOUS
<1>1. writing \in Seq(Write) /\ DOMAIN writing = {}
  BY EmptySeq DEF McpInit
<1>2. tokens \in BOOLEAN /\ probing \in BOOLEAN /\ deleting \in BOOLEAN
  BY Zenon DEF McpInit
<1>3. McpTypeOK
  BY <1>1, <1>2, McpAuthAssumption DEF McpTypeOK, McpInit, Write, AttemptStatus, TaskAt
<1>4. EndedIsQuiet /\ SuccessIsLast /\ KnownSuccess
  BY <1>1 DEF McpInit, EndedIsQuiet, SuccessIsLast, KnownSuccess
<1> QED BY <1>3, <1>4 DEF McpInv

\* An update puts its write behind those under way.
LEMMA UpdateAppends ==
  ASSUME McpTypeOK, NEW a \in Attempts, NEW state \in AttemptStatus \ {"none"},
         NEW by \in {"task", "callback", "request"}, Update(a, state, by)
  PROVE  /\ attemptRow' \in [Attempts -> AttemptStatus \cup {"gone"}]
         /\ attemptRow'[a] = state /\ \A b \in Attempts : b # a => attemptRow'[b] = attemptRow[b]
         /\ writing' \in Seq(Write) /\ DOMAIN writing' = 1..(Len(writing) + 1)
         /\ writing'[Len(writing) + 1] = [attempt |-> a, status |-> state, by |-> by]
         /\ \A i \in DOMAIN writing : i \in DOMAIN writing' /\ writing'[i] = writing[i]
         /\ \A i \in DOMAIN writing' : i \in DOMAIN writing \/ i = Len(writing) + 1
<1>1. [attempt |-> a, status |-> state, by |-> by] \in Write
  BY DEF Write
<1>2. attemptRow \in [Attempts -> AttemptStatus \cup {"gone"}]
  BY DEF McpTypeOK
<1> QED BY <1>1, <1>2, WritesUnderWay DEF Update

\* A cancelled task leaves its writes to be done for nobody.
LEMMA CancelMarks ==
  ASSUME McpTypeOK, NEW S \in SUBSET Attempts, CancelTasks(S)
  PROVE  /\ task' \in [Attempts -> TaskAt]
         /\ future' \in [Attempts -> {"none", "pending", "set"}]
         /\ \A a \in Attempts : a \in S => task'[a] = "none" /\ future'[a] = "none"
         /\ \A a \in Attempts : a \notin S => task'[a] = task[a] /\ future'[a] = future[a]
         /\ writing' \in Seq(Write) /\ DOMAIN writing' = DOMAIN writing
         /\ \A i \in DOMAIN writing :
              /\ writing'[i].attempt = writing[i].attempt
              /\ writing'[i].status = writing[i].status
              /\ writing'[i].by = IF writing[i].attempt \in S /\ writing[i].by = "task"
                                  THEN "nobody" ELSE writing[i].by
<1> DEFINE W(i) == IF writing[i].attempt \in S /\ writing[i].by = "task"
                   THEN [writing[i] EXCEPT !.by = "nobody"] ELSE writing[i]
<1>1. writing' = [i \in 1..Len(writing) |-> W(i)]
  BY WritesUnderWay DEF CancelTasks
<1>2. \A i \in 1..Len(writing) :
         /\ W(i) \in Write
         /\ W(i).attempt = writing[i].attempt /\ W(i).status = writing[i].status
         /\ W(i).by = IF writing[i].attempt \in S /\ writing[i].by = "task"
                      THEN "nobody" ELSE writing[i].by
  <2> SUFFICES ASSUME NEW i \in 1..Len(writing)
               PROVE  /\ W(i) \in Write
                      /\ W(i).attempt = writing[i].attempt /\ W(i).status = writing[i].status
                      /\ W(i).by = IF writing[i].attempt \in S /\ writing[i].by = "task"
                                   THEN "nobody" ELSE writing[i].by
    OBVIOUS
  <2>1. writing[i] \in Write
    BY WritesUnderWay
  <2>2. CASE writing[i].attempt \in S /\ writing[i].by = "task"
    BY <2>1, <2>2 DEF Write
  <2>3. CASE ~(writing[i].attempt \in S /\ writing[i].by = "task")
    BY <2>1, <2>3
  <2> QED BY <2>2, <2>3
<1> HIDE DEF W
<1>3. writing' \in Seq(Write) /\ DOMAIN writing' = 1..Len(writing)
  <2>1. Len(writing) \in Nat
    BY WritesUnderWay
  <2> QED BY <1>1, <1>2, <2>1, IsASeq
<1>4. /\ task' \in [Attempts -> TaskAt]
      /\ future' \in [Attempts -> {"none", "pending", "set"}]
  BY DEF CancelTasks, McpTypeOK, TaskAt
<1>5. /\ \A a \in Attempts : a \in S => task'[a] = "none" /\ future'[a] = "none"
      /\ \A a \in Attempts : a \notin S => task'[a] = task[a] /\ future'[a] = future[a]
  BY DEF CancelTasks
<1> QED BY <1>1, <1>2, <1>3, <1>4, <1>5, WritesUnderWay

-----------------------------------------------------------------------------

\* Steps that write nothing of an attempt.
LEMMA QuietMcp ==
  ASSUME McpInv, UNCHANGED <<known, attemptRow, writing, overruled>>
  PROVE  SuccessIsLast' /\ KnownSuccess'
BY DEF McpInv, SuccessIsLast, KnownSuccess

\* A write of an attempt that has not succeeded comes behind what has been written of it, and
\* so does any write of an attempt that a request has overruled.
LEMMA UpdateKeeps ==
  ASSUME McpInv, NEW a \in Attempts, NEW state \in AttemptStatus \ {"none"},
         NEW by \in {"task", "callback", "request"}, Update(a, state, by),
         overruled \subseteq overruled',
         a \in overruled' \/ (attemptRow[a] # "succeeded" /\ (state = "succeeded" => by = "task")),
         UNCHANGED known
  PROVE  SuccessIsLast' /\ KnownSuccess'
<1>0. McpTypeOK
  BY DEF McpInv
<1>a. /\ attemptRow'[a] = state /\ \A b \in Attempts : b # a => attemptRow'[b] = attemptRow[b]
      /\ DOMAIN writing' = 1..(Len(writing) + 1)
      /\ writing'[Len(writing) + 1] = [attempt |-> a, status |-> state, by |-> by]
      /\ \A i \in DOMAIN writing : i \in DOMAIN writing' /\ writing'[i] = writing[i]
      /\ \A i \in DOMAIN writing' : i \in DOMAIN writing \/ i = Len(writing) + 1
  BY <1>0, UpdateAppends, ZenonT(60)
<1> DEFINE n == Len(writing) + 1
<1>1. /\ attemptRow'[a] = state /\ \A b \in Attempts : b # a => attemptRow'[b] = attemptRow[b]
      /\ DOMAIN writing' = 1..n
      /\ writing'[n] = [attempt |-> a, status |-> state, by |-> by]
      /\ \A i \in DOMAIN writing : i \in DOMAIN writing' /\ writing'[i] = writing[i]
      /\ \A i \in DOMAIN writing' : i \in DOMAIN writing \/ i = n
  BY <1>a
<1>2. Len(writing) \in Nat /\ DOMAIN writing = 1..Len(writing)
      /\ \A i \in DOMAIN writing : writing[i].attempt \in Attempts
  BY <1>0, WritesUnderWay
<1>3. a \notin overruled' =>
        \A i \in DOMAIN writing : writing[i].attempt = a /\ writing[i].by # "nobody"
                                    => writing[i].status # "succeeded"
  BY DEF McpInv, SuccessIsLast
<1>4. \A i, j \in DOMAIN writing' : i < j => i \in DOMAIN writing
  BY <1>1, <1>2
<1>5. writing'[n].attempt = a /\ writing'[n].status = state /\ writing'[n].by = by
  BY <1>1
<1> HIDE DEF n
<1>6. ASSUME NEW i \in DOMAIN writing', writing'[i].status = "succeeded",
             writing'[i].by # "nobody", writing'[i].attempt \notin overruled'
      PROVE  writing'[i].by = "task" /\ attemptRow'[writing'[i].attempt] = "succeeded"
  <2>1. CASE i = n
    BY <2>1, <1>1, <1>5, <1>6
  <2>2. CASE i \in DOMAIN writing
    <3>1. writing'[i] = writing[i] /\ writing[i].attempt \in Attempts
      BY <2>2, <1>1, <1>2
    <3>2. writing[i].attempt # a
      BY <3>1, <2>2, <1>3, <1>6
    <3>3. attemptRow'[writing[i].attempt] = attemptRow[writing[i].attempt]
      BY <3>1, <3>2, <1>1
    <3>4. writing[i].attempt \notin overruled
      BY <3>1, <1>6
    <3> QED BY <3>1, <3>3, <3>4, <2>2, <1>6 DEF McpInv, SuccessIsLast
  <2> QED BY <2>1, <2>2, <1>1
<1>7. ASSUME NEW i \in DOMAIN writing', NEW j \in DOMAIN writing', i < j,
             writing'[i].attempt = writing'[j].attempt,
             writing'[i].by # "nobody", writing'[i].attempt \notin overruled'
      PROVE  writing'[i].status # "succeeded"
  <2>1. i \in DOMAIN writing /\ writing'[i] = writing[i] /\ writing[i].attempt \notin overruled
    BY <1>1, <1>4, <1>7
  <2>2. CASE j = n
    BY <2>1, <2>2, <1>3, <1>5, <1>7
  <2>3. CASE j \in DOMAIN writing
    BY <2>1, <2>3, <1>1, <1>7 DEF McpInv, SuccessIsLast
  <2> QED BY <2>2, <2>3, <1>1
<1>8. KnownSuccess'
  <2> SUFFICES ASSUME NEW b \in Attempts, b \notin overruled', known[b] = "succeeded"
               PROVE  /\ attemptRow'[b] = "succeeded"
                      /\ \A i \in DOMAIN writing' : writing'[i].attempt = b => writing'[i].by = "nobody"
    BY DEF KnownSuccess
  <2>1. attemptRow[b] = "succeeded" /\ b # a /\ b \notin overruled
    BY DEF McpInv, KnownSuccess
  <2>2. attemptRow'[b] = "succeeded"
    BY <2>1, <1>1
  <2>3. ASSUME NEW i \in DOMAIN writing', writing'[i].attempt = b PROVE writing'[i].by = "nobody"
    <3>1. i # n
      BY <2>1, <2>3, <1>5
    <3>2. i \in DOMAIN writing /\ writing'[i] = writing[i]
      BY <3>1, <1>1
    <3> QED BY <3>2, <2>1, <2>3 DEF McpInv, KnownSuccess
  <2> QED BY <2>2, <2>3
<1>9. SuccessIsLast'
  BY <1>6, <1>7 DEF SuccessIsLast
<1> QED BY <1>8, <1>9

\* Cancelled tasks, of attempts that are kept or deleted.
LEMMA CancelKeeps ==
  ASSUME McpInv, NEW S \in SUBSET Attempts, CancelTasks(S), UNCHANGED overruled,
         \A a \in Attempts : attemptRow'[a] = attemptRow[a] \/ (a \in S /\ attemptRow'[a] = "gone"),
         \A a \in Attempts : known'[a] = "none" \/ (known'[a] = known[a] /\ attemptRow'[a] = attemptRow[a])
  PROVE  EndedIsQuiet' /\ SuccessIsLast' /\ KnownSuccess'
<1>0. McpTypeOK
  BY DEF McpInv
<1>1. /\ \A a \in Attempts : a \in S => task'[a] = "none" /\ future'[a] = "none"
      /\ \A a \in Attempts : a \notin S => task'[a] = task[a] /\ future'[a] = future[a]
      /\ DOMAIN writing' = DOMAIN writing
      /\ \A i \in DOMAIN writing :
           /\ writing'[i].attempt = writing[i].attempt
           /\ writing'[i].status = writing[i].status
           /\ writing'[i].by = IF writing[i].attempt \in S /\ writing[i].by = "task"
                               THEN "nobody" ELSE writing[i].by
  BY <1>0, CancelMarks
<1>2. EndedIsQuiet'
  BY <1>1 DEF McpInv, EndedIsQuiet
<1>3. ASSUME NEW i \in DOMAIN writing', writing'[i].status = "succeeded",
             writing'[i].by # "nobody", writing'[i].attempt \notin overruled'
      PROVE  writing'[i].by = "task" /\ attemptRow'[writing'[i].attempt] = "succeeded"
  <2>1. i \in DOMAIN writing /\ writing[i].status = "succeeded" /\ writing[i].attempt \in Attempts
        /\ writing'[i].attempt = writing[i].attempt /\ writing[i].attempt \notin overruled
    BY <1>0, <1>1, <1>3, WritesUnderWay
  <2>2. writing[i].by # "nobody"
    BY <2>1, <1>1, <1>3
  <2>3. writing[i].by = "task" /\ attemptRow[writing[i].attempt] = "succeeded"
    BY <2>1, <2>2 DEF McpInv, SuccessIsLast
  <2>4. writing[i].attempt \notin S
    BY <2>1, <2>3, <1>1, <1>3
  <2> QED BY <2>1, <2>3, <2>4, <1>1
<1>4. ASSUME NEW i \in DOMAIN writing', NEW j \in DOMAIN writing', i < j,
             writing'[i].attempt = writing'[j].attempt,
             writing'[i].by # "nobody", writing'[i].attempt \notin overruled'
      PROVE  writing'[i].status # "succeeded"
  <2>1. writing[i].by # "nobody" /\ writing[i].attempt \notin overruled
        /\ writing[i].attempt = writing[j].attempt
    BY <1>1, <1>4
  <2> QED BY <2>1, <1>1, <1>4 DEF McpInv, SuccessIsLast
<1>5. SuccessIsLast'
  BY <1>3, <1>4 DEF SuccessIsLast
<1>6. \A i \in DOMAIN writing : writing[i].by = "nobody" => writing'[i].by = "nobody"
  BY <1>1
<1>7. KnownSuccess'
  BY <1>1, <1>6 DEF McpInv, KnownSuccess
<1> QED BY <1>2, <1>5, <1>7

\* The oldest write is answered; behind a success of its attempt there is none.
LEMMA AnswerKeeps ==
  ASSUME McpInv, WriteAnswered
  PROVE  /\ McpTypeOK' /\ EndedIsQuiet' /\ SuccessIsLast' /\ KnownSuccess'
         /\ \A a \in Attempts \ overruled : known[a] = "succeeded" => known'[a] = "succeeded"
<1>0. McpTypeOK
  BY DEF McpInv
<1> DEFINE w == writing[1]
<1>1. /\ writing \in Seq(Write) /\ Len(writing) \in Nat /\ Len(writing) > 0
      /\ DOMAIN writing = 1..Len(writing) /\ 1 \in DOMAIN writing
  BY <1>0, WritesUnderWay, EmptySeq DEF WriteAnswered
<1>2. /\ Head(writing) = w /\ Tail(writing) \in Seq(Write)
      /\ DOMAIN Tail(writing) = 1..(Len(writing) - 1)
      /\ \A i \in 1..(Len(writing) - 1) :
           Tail(writing)[i] = writing[i + 1] /\ i + 1 \in DOMAIN writing /\ 1 < i + 1 /\ i \in Nat
  BY <1>1, HeadTailProperties DEF WriteAnswered
<1>3. w.attempt \in Attempts /\ w.status \in AttemptStatus /\ w.by \in {"task", "callback", "request", "nobody"}
  BY <1>0, <1>1, WritesUnderWay
<1>4. /\ known' = IF w.by = "nobody" THEN known ELSE [known EXCEPT ![w.attempt] = w.status]
      /\ task' = IF task[w.attempt] = "ending" /\ w.by = "task"
                 THEN [task EXCEPT ![w.attempt] = "none"] ELSE task
      /\ writing' = Tail(writing)
      /\ UNCHANGED <<startedOn, serverVars, attemptRow, future, callbacks, overruled>>
  BY <1>2 DEF WriteAnswered
<1>5. /\ known \in [Attempts -> AttemptStatus] /\ task \in [Attempts -> TaskAt]
      /\ future \in [Attempts -> {"none", "pending", "set"}]
  BY <1>0 DEF McpTypeOK
<1> HIDE DEF w
<1>6. known' \in [Attempts -> AttemptStatus] /\ task' \in [Attempts -> TaskAt]
  BY <1>3, <1>4, <1>5 DEF TaskAt
<1>7. McpTypeOK'
  BY <1>0, <1>2, <1>4, <1>6 DEF McpTypeOK, serverVars, Write
<1>8. EndedIsQuiet'
  BY <1>3, <1>4, <1>5 DEF McpInv, EndedIsQuiet
<1>9. DOMAIN writing' = 1..(Len(writing) - 1)
      /\ \A i \in DOMAIN writing' : /\ writing'[i] = writing[i + 1] /\ i + 1 \in DOMAIN writing
                                    /\ 1 < i + 1 /\ i \in Nat
  BY <1>2, <1>4
<1>10. SuccessIsLast'
  <2>1. \A i, j \in DOMAIN writing' : i < j => i + 1 < j + 1
    BY <1>9
  <2>2. \A i \in DOMAIN writing' :
          writing'[i].status = "succeeded" /\ writing'[i].by # "nobody" /\ writing'[i].attempt \notin overruled
            => writing'[i].by = "task" /\ attemptRow[writing'[i].attempt] = "succeeded"
    BY <1>9 DEF McpInv, SuccessIsLast
  <2>3. ASSUME NEW i \in DOMAIN writing', NEW j \in DOMAIN writing', i < j,
               writing'[i].attempt = writing'[j].attempt,
               writing'[i].by # "nobody", writing'[i].attempt \notin overruled
        PROVE  writing'[i].status # "succeeded"
    <3>1. i + 1 < j + 1 /\ i + 1 \in DOMAIN writing /\ j + 1 \in DOMAIN writing
          /\ writing'[i] = writing[i + 1] /\ writing'[j] = writing[j + 1]
      BY <2>1, <2>3, <1>9
    <3> QED BY <3>1, <2>3 DEF McpInv, SuccessIsLast
  <2> QED BY <2>2, <2>3, <1>4 DEF SuccessIsLast
<1>11. \A a \in Attempts \ overruled : known[a] = "succeeded" /\ a = w.attempt => w.by = "nobody"
  BY <1>1 DEF McpInv, KnownSuccess, w
<1>12. KnownSuccess'
  <2> SUFFICES ASSUME NEW a \in Attempts, a \notin overruled, known'[a] = "succeeded"
               PROVE  /\ attemptRow[a] = "succeeded"
                      /\ \A i \in DOMAIN writing' : writing'[i].attempt = a => writing'[i].by = "nobody"
    BY <1>4 DEF KnownSuccess
  <2>1. CASE known[a] = "succeeded"
    BY <2>1, <1>9 DEF McpInv, KnownSuccess
  <2>2. CASE known[a] # "succeeded"
    <3>1. a = w.attempt /\ w.status = "succeeded" /\ w.by # "nobody"
      BY <2>2, <1>3, <1>4, <1>5
    <3>2. attemptRow[a] = "succeeded"
      BY <3>1, <1>1, <1>3 DEF McpInv, SuccessIsLast, w
    <3>3. ASSUME NEW i \in DOMAIN writing' PROVE writing'[i].attempt # a
      BY <3>1, <1>1, <1>9 DEF McpInv, SuccessIsLast, w
    <3> QED BY <3>2, <3>3
  <2> QED BY <2>1, <2>2
<1>13. \A a \in Attempts \ overruled : known[a] = "succeeded" => known'[a] = "succeeded"
  BY <1>3, <1>4, <1>5, <1>11
<1> QED BY <1>7, <1>8, <1>10, <1>12, <1>13

-----------------------------------------------------------------------------

\* The record of the server and the bounds keep their types.
LEMMA ServerTypes ==
  ASSUME McpInv, [McpNext]_mcpVars
  PROVE  /\ server' \in {"none", "on", "off"} /\ serverRow' \in {"none", "on", "off"}
         /\ serverState' \in {"none", "disabled", "checking", "needs_auth", "ready"}
         /\ tokens' \in BOOLEAN /\ probing' \in BOOLEAN /\ deleting' \in BOOLEAN
         /\ startedOn' \in [Attempts -> {"none", "on", "off"}] /\ overruled' \subseteq Attempts
         /\ edits' \in 0..MaxEdits /\ callbacks' \in 0..MaxCallbacks
<1>0. McpTypeOK
  BY DEF McpInv
<1>1. TRUE \in BOOLEAN /\ FALSE \in BOOLEAN /\ tokens \in BOOLEAN /\ probing \in BOOLEAN
      /\ deleting \in BOOLEAN
  BY <1>0, Zenon DEF McpTypeOK
<1>2. tokens' \in {tokens, TRUE, FALSE} /\ probing' \in {probing, TRUE, FALSE}
      /\ deleting' \in {deleting, TRUE, FALSE}
  BY DEF McpNext, mcpVars, ConfigureServer, RefreshServer, ProbeEnds, DisableServer, DeleteServer,
         DeleteServerRow, DeleteCredential, WriteAnswered, McpRestart, StartAttempt, Redirect,
         AwaitCallback, CreateAttempt, RequestOn, Callback, ErrorCallback, PutStatus, Exchange,
         Discovered, StoreTokens, Succeed, AttemptFails, FailureStored, DeleteAttempt, serverVars
<1>3. tokens' \in BOOLEAN /\ probing' \in BOOLEAN /\ deleting' \in BOOLEAN
  BY <1>1, <1>2, Zenon
<1>4. edits' \in 0..MaxEdits /\ callbacks' \in 0..MaxCallbacks
  <2>1. edits' = edits \/ (edits < MaxEdits /\ edits' = edits + 1)
    BY DEF McpNext, mcpVars, ConfigureServer, RefreshServer, ProbeEnds, DisableServer, DeleteServer,
           DeleteServerRow, DeleteCredential, WriteAnswered, McpRestart, StartAttempt, Redirect,
           AwaitCallback, CreateAttempt, RequestOn, Callback, ErrorCallback, PutStatus, Exchange,
           Discovered, StoreTokens, Succeed, AttemptFails, FailureStored, DeleteAttempt, serverVars, Edit
  <2>2. callbacks' = callbacks \/ (callbacks < MaxCallbacks /\ callbacks' = callbacks + 1)
    BY DEF McpNext, mcpVars, ConfigureServer, RefreshServer, ProbeEnds, DisableServer, DeleteServer,
           DeleteServerRow, DeleteCredential, WriteAnswered, McpRestart, StartAttempt, Redirect,
           AwaitCallback, CreateAttempt, RequestOn, Callback, ErrorCallback, PutStatus, Exchange,
           Discovered, StoreTokens, Succeed, AttemptFails, FailureStored, DeleteAttempt, attemptVars
  <2> QED BY <2>1, <2>2, <1>0, McpAuthAssumption DEF McpTypeOK
<1>5. startedOn' \in [Attempts -> {"none", "on", "off"}]
  <2>1. \/ startedOn' = startedOn
        \/ \E a \in Attempts : startedOn' = [startedOn EXCEPT ![a] = server]
    BY DEF McpNext, mcpVars, ConfigureServer, RefreshServer, ProbeEnds, DisableServer, DeleteServer,
           DeleteServerRow, DeleteCredential, WriteAnswered, McpRestart, StartAttempt, Redirect,
           AwaitCallback, CreateAttempt, Callback, ErrorCallback, PutStatus, Exchange, Discovered,
           Succeed, AttemptFails, FailureStored, DeleteAttempt, attemptVars
  <2> QED BY <2>1, <1>0 DEF McpTypeOK
<1>6. server' \in {"none", "on", "off"} /\ serverRow' \in {"none", "on", "off"}
  <2>1. server' \in {server, serverRow, "none", "on", "off"}
    BY DEF McpNext, mcpVars, ConfigureServer, RefreshServer, ProbeEnds, DisableServer, DeleteServer,
           DeleteServerRow, DeleteCredential, WriteAnswered, McpRestart, StartAttempt, Redirect,
           AwaitCallback, CreateAttempt, Callback, ErrorCallback, PutStatus, Exchange, Discovered,
           Succeed, AttemptFails, FailureStored, DeleteAttempt, serverVars
  <2>2. \/ serverRow' \in {server, serverRow, "none", "on", "off"}
        \/ \E a \in Attempts : serverRow' = startedOn[a]
    BY DEF McpNext, mcpVars, ConfigureServer, RefreshServer, ProbeEnds, DisableServer, DeleteServer,
           DeleteServerRow, DeleteCredential, WriteAnswered, McpRestart, StartAttempt, Redirect,
           AwaitCallback, CreateAttempt, Callback, ErrorCallback, PutStatus, Exchange, Discovered,
           Succeed, AttemptFails, FailureStored, DeleteAttempt, serverVars
  <2> QED BY <2>1, <2>2, <1>0 DEF McpTypeOK
<1>7. serverState' \in {"none", "disabled", "checking", "needs_auth", "ready"}
  BY <1>0
     DEF McpNext, mcpVars, ConfigureServer, RefreshServer, ProbeEnds, DisableServer, DeleteServer,
         DeleteServerRow, DeleteCredential, WriteAnswered, McpRestart, StartAttempt, Redirect,
         AwaitCallback, CreateAttempt, RequestOn, Callback, ErrorCallback, PutStatus, Exchange,
         Discovered, StoreTokens, Succeed, AttemptFails, FailureStored, DeleteAttempt, serverVars, McpTypeOK
<1>8. overruled' \subseteq Attempts
  <2>1. \/ overruled' = overruled
        \/ \E a \in Attempts : overruled' = overruled \cup {a}
    BY DEF McpNext, mcpVars, ConfigureServer, RefreshServer, ProbeEnds, DisableServer, DeleteServer,
           DeleteServerRow, DeleteCredential, WriteAnswered, McpRestart, StartAttempt, Redirect,
           AwaitCallback, CreateAttempt, RequestOn, Callback, ErrorCallback, PutStatus, Exchange,
           Discovered, Succeed, AttemptFails, FailureStored, DeleteAttempt, attemptVars
  <2> QED BY <2>1, <1>0 DEF McpTypeOK
<1> QED BY <1>3, <1>4, <1>5, <1>6, <1>7, <1>8

\* The types of what is kept of the attempts.
AttemptTypes ==
  /\ known \in [Attempts -> AttemptStatus]
  /\ attemptRow \in [Attempts -> AttemptStatus \cup {"gone"}]
  /\ future \in [Attempts -> {"none", "pending", "set"}] /\ task \in [Attempts -> TaskAt]
  /\ writing \in Seq(Write)

\* Successes are never taken back, but by a deletion or a request's own status.
SuccessStays ==
  \A a \in Attempts \ overruled' :
                      /\ known[a] = "succeeded" => known'[a] \in {"succeeded", "none"}
                      /\ attemptRow[a] = "succeeded" => attemptRow'[a] \in {"succeeded", "gone"}

\* What every step does to the attempts.
AttemptStep == AttemptTypes' /\ EndedIsQuiet' /\ SuccessIsLast' /\ KnownSuccess' /\ SuccessStays

\* A step in which an attempt that has not succeeded, or one that is overruled, writes.
LEMMA UpdateStep ==
  ASSUME McpInv, NEW a \in Attempts, NEW state \in AttemptStatus \ {"none"},
         NEW by \in {"task", "callback", "request"}, Update(a, state, by),
         overruled \subseteq overruled',
         a \in overruled' \/ (attemptRow[a] # "succeeded" /\ (state = "succeeded" => by = "task")),
         UNCHANGED known
  PROVE  /\ known' \in [Attempts -> AttemptStatus]
         /\ attemptRow' \in [Attempts -> AttemptStatus \cup {"gone"}] /\ writing' \in Seq(Write)
         /\ attemptRow'[a] = state /\ \A b \in Attempts : b # a => attemptRow'[b] = attemptRow[b]
         /\ SuccessIsLast' /\ KnownSuccess' /\ SuccessStays
<1>0. McpTypeOK
  BY DEF McpInv
<1>1. known' \in [Attempts -> AttemptStatus]
  BY <1>0 DEF McpTypeOK
<1>2. /\ attemptRow' \in [Attempts -> AttemptStatus \cup {"gone"}] /\ writing' \in Seq(Write)
      /\ attemptRow'[a] = state /\ \A b \in Attempts : b # a => attemptRow'[b] = attemptRow[b]
  BY <1>0, UpdateAppends, Zenon
<1>3. SuccessIsLast' /\ KnownSuccess'
  BY UpdateKeeps
<1>4. SuccessStays
  BY <1>2 DEF SuccessStays
<1> QED BY <1>1, <1>2, <1>3, <1>4

\* A step that writes nothing.
LEMMA QuietStep ==
  ASSUME McpInv, UNCHANGED <<known, attemptRow, writing, overruled>>,
         future' \in [Attempts -> {"none", "pending", "set"}], task' \in [Attempts -> TaskAt],
         EndedIsQuiet'
  PROVE  AttemptStep
<1>1. AttemptTypes'
  BY DEF McpInv, McpTypeOK, AttemptTypes, Write
<1>2. SuccessStays
  BY DEF SuccessStays
<1> QED BY <1>1, <1>2, QuietMcp DEF AttemptStep

\* Every step keeps what a success promises: one case per action.
LEMMA AttemptsStep == McpInv /\ [McpNext]_mcpVars => AttemptStep
<1> SUFFICES ASSUME McpInv, [McpNext]_mcpVars PROVE AttemptStep
  OBVIOUS
<1>0. /\ McpTypeOK /\ EndedIsQuiet /\ KnownSuccess
      /\ known \in [Attempts -> AttemptStatus]
      /\ attemptRow \in [Attempts -> AttemptStatus \cup {"gone"}]
      /\ future \in [Attempts -> {"none", "pending", "set"}] /\ task \in [Attempts -> TaskAt]
  BY DEF McpInv, McpTypeOK
<1>1. CASE UNCHANGED attemptVars
  <2>1. UNCHANGED <<known, attemptRow, writing, future, task, overruled>>
    BY <1>1 DEF attemptVars
  <2> QED BY <2>1, <1>0, QuietStep DEF EndedIsQuiet
<1>2. CASE DeleteServer
  <2>1. CancelTasks({a \in Attempts : known[a] # "none"}) /\ UNCHANGED <<known, attemptRow, overruled>>
    BY <1>2 DEF DeleteServer
  <2>2. {a \in Attempts : known[a] # "none"} \in SUBSET Attempts
    OBVIOUS
  <2>3. EndedIsQuiet' /\ SuccessIsLast' /\ KnownSuccess'
    BY <2>1, <2>2, CancelKeeps
  <2>4. AttemptTypes'
    BY <1>0, <2>1, <2>2, CancelMarks DEF AttemptTypes
  <2> QED BY <2>1, <2>3, <2>4 DEF AttemptStep, SuccessStays
<1>3. CASE WriteAnswered
  <2>1. /\ McpTypeOK' /\ EndedIsQuiet' /\ SuccessIsLast' /\ KnownSuccess'
        /\ \A a \in Attempts \ overruled : known[a] = "succeeded" => known'[a] = "succeeded"
    BY <1>3, AnswerKeeps
  <2>2. attemptRow' = attemptRow /\ overruled' = overruled
    BY <1>3 DEF WriteAnswered
  <2> QED BY <2>1, <2>2 DEF AttemptStep, AttemptTypes, McpTypeOK, Write, SuccessStays
<1>4. CASE McpRestart
  <2>1. /\ known' = [a \in Attempts |-> IF attemptRow[a] = "gone" THEN "none" ELSE attemptRow[a]]
        /\ future' = [a \in Attempts |-> "none"] /\ task' = [a \in Attempts |-> "none"]
        /\ writing' = <<>> /\ attemptRow' = attemptRow /\ overruled' = overruled
    BY <1>4 DEF McpRestart
  <2>2. writing' \in Seq(Write) /\ DOMAIN writing' = {}
    BY <2>1, EmptySeq
  <2>3. AttemptTypes'
    BY <2>1, <2>2, <1>0 DEF AttemptTypes, AttemptStatus, TaskAt
  <2>4. EndedIsQuiet' /\ SuccessIsLast' /\ KnownSuccess'
    BY <2>1, <2>2 DEF EndedIsQuiet, SuccessIsLast, KnownSuccess
  <2>5. SuccessStays
    BY <2>1, <1>0 DEF SuccessStays, KnownSuccess
  <2> QED BY <2>3, <2>4, <2>5 DEF AttemptStep
<1>5. ASSUME NEW a \in Attempts, StartAttempt(a) PROVE AttemptStep
  <2>1. /\ attemptRow[a] = "none" /\ attemptRow' = [attemptRow EXCEPT ![a] = "waiting"]
        /\ known' = [known EXCEPT ![a] = "waiting"] /\ future' = [future EXCEPT ![a] = "pending"]
        /\ task' = [task EXCEPT ![a] = "discovering"] /\ writing' = writing /\ overruled' = overruled
    BY <1>5 DEF StartAttempt
  <2>2. AttemptTypes'
    BY <2>1, <1>0 DEF AttemptTypes, AttemptStatus, TaskAt, McpTypeOK, Write
  <2>3. EndedIsQuiet'
    BY <2>1, <1>0 DEF EndedIsQuiet
  <2>4. SuccessIsLast'
    BY <2>1, <1>0, WritesUnderWay DEF McpInv, SuccessIsLast
  <2>5. KnownSuccess' /\ SuccessStays
    BY <2>1, <1>0 DEF KnownSuccess, SuccessStays
  <2> QED BY <2>2, <2>3, <2>4, <2>5 DEF AttemptStep
<1>6. ASSUME NEW a \in Attempts, Redirect(a) PROVE AttemptStep
  <2>1. /\ task[a] = "discovering" /\ Update(a, "waiting", "task") /\ UNCHANGED <<known, future, overruled>>
        /\ task' = [task EXCEPT ![a] = "asking"]
    BY <1>6 DEF Redirect
  <2>2. (a \notin overruled => attemptRow[a] # "succeeded")
    BY <2>1, <1>0 DEF EndedIsQuiet
  <2>3. "waiting" \in AttemptStatus \ {"none"}
    BY DEF AttemptStatus
  <2>4. /\ known' \in [Attempts -> AttemptStatus]
        /\ attemptRow' \in [Attempts -> AttemptStatus \cup {"gone"}] /\ writing' \in Seq(Write)
        /\ attemptRow'[a] = "waiting" /\ \A b \in Attempts : b # a => attemptRow'[b] = attemptRow[b]
        /\ SuccessIsLast' /\ KnownSuccess' /\ SuccessStays
    BY <2>1, <2>2, <2>3, UpdateStep
  <2>5. AttemptTypes'
    BY <2>1, <2>4, <1>0 DEF AttemptTypes, TaskAt
  <2>6. EndedIsQuiet'
    BY <2>1, <2>4, <1>0 DEF EndedIsQuiet
  <2> QED BY <2>4, <2>5, <2>6 DEF AttemptStep
<1>7. ASSUME NEW a \in Attempts, AwaitCallback(a) PROVE AttemptStep
  <2>1. task[a] = "asking" /\ task' = [task EXCEPT ![a] = "waiting"]
        /\ UNCHANGED <<known, attemptRow, writing, future, overruled>>
    BY <1>7 DEF AwaitCallback
  <2>2. task' \in [Attempts -> TaskAt] /\ EndedIsQuiet'
    BY <2>1, <1>0 DEF TaskAt, EndedIsQuiet
  <2> QED BY <2>1, <2>2, <1>0, QuietStep
<1>8. ASSUME NEW a \in Attempts, Callback(a) PROVE AttemptStep
  <2>1. /\ future[a] # "none" /\ Update(a, "exchanging", "callback") /\ UNCHANGED <<known, task, overruled>>
        /\ future' = [future EXCEPT ![a] = "set"]
    BY <1>8 DEF Callback
  <2>2. (a \notin overruled => attemptRow[a] # "succeeded")
    BY <2>1, <1>0 DEF EndedIsQuiet
  <2>3. "exchanging" \in AttemptStatus \ {"none"}
    BY DEF AttemptStatus
  <2>4. /\ known' \in [Attempts -> AttemptStatus]
        /\ attemptRow' \in [Attempts -> AttemptStatus \cup {"gone"}] /\ writing' \in Seq(Write)
        /\ attemptRow'[a] = "exchanging" /\ \A b \in Attempts : b # a => attemptRow'[b] = attemptRow[b]
        /\ SuccessIsLast' /\ KnownSuccess' /\ SuccessStays
    BY <2>1, <2>2, <2>3, UpdateStep
  <2>5. AttemptTypes'
    BY <2>1, <2>4, <1>0 DEF AttemptTypes
  <2>6. EndedIsQuiet'
    BY <2>1, <2>4, <1>0 DEF EndedIsQuiet
  <2> QED BY <2>4, <2>5, <2>6 DEF AttemptStep
<1>9. ASSUME NEW a \in Attempts, Exchange(a) PROVE AttemptStep
  <2>1. task[a] = "waiting" /\ task' = [task EXCEPT ![a] = "exchanging"]
        /\ UNCHANGED <<known, attemptRow, writing, future, overruled>>
    BY <1>9 DEF Exchange
  <2>2. task' \in [Attempts -> TaskAt] /\ EndedIsQuiet'
    BY <2>1, <1>0 DEF TaskAt, EndedIsQuiet
  <2> QED BY <2>1, <2>2, <1>0, QuietStep
<1>10. ASSUME NEW a \in Attempts, Discovered(a) PROVE AttemptStep
  <2>1. task[a] \in {"exchanging", "discovering"} /\ task' = [task EXCEPT ![a] = "saved"]
        /\ future' = [future EXCEPT ![a] = "none"] /\ UNCHANGED <<known, attemptRow, writing, overruled>>
    BY <1>10 DEF Discovered, DropCallback, StoreTokens
  <2>2. task' \in [Attempts -> TaskAt] /\ future' \in [Attempts -> {"none", "pending", "set"}]
        /\ EndedIsQuiet'
    BY <2>1, <1>0 DEF TaskAt, EndedIsQuiet
  <2> QED BY <2>1, <2>2, <1>0, QuietStep
<1>11. ASSUME NEW a \in Attempts, Succeed(a) PROVE AttemptStep
  <2>0. task[a] = "saved" /\ UNCHANGED <<known, future, overruled>>
    BY <1>11 DEF Succeed
  <2>1. CASE known[a] = "none"
    <3>1. task' = [task EXCEPT ![a] = "none"] /\ UNCHANGED <<attemptRow, writing>>
      BY <2>1, <1>11 DEF Succeed
    <3>2. task' \in [Attempts -> TaskAt] /\ EndedIsQuiet'
      BY <2>0, <3>1, <1>0 DEF TaskAt, EndedIsQuiet
    <3> QED BY <2>0, <3>1, <3>2, <1>0, QuietStep
  <2>2. CASE known[a] # "none"
    <3>1. Update(a, "succeeded", "task") /\ task' = [task EXCEPT ![a] = "ending"]
      BY <2>2, <1>11 DEF Succeed
    <3>2. (a \notin overruled => attemptRow[a] # "succeeded") /\ future[a] = "none"
      BY <2>0, <1>0 DEF EndedIsQuiet
    <3>3. "succeeded" \in AttemptStatus \ {"none"}
      BY DEF AttemptStatus
    <3>4. /\ known' \in [Attempts -> AttemptStatus]
          /\ attemptRow' \in [Attempts -> AttemptStatus \cup {"gone"}] /\ writing' \in Seq(Write)
          /\ attemptRow'[a] = "succeeded" /\ \A b \in Attempts : b # a => attemptRow'[b] = attemptRow[b]
          /\ SuccessIsLast' /\ KnownSuccess' /\ SuccessStays
      BY <2>0, <3>1, <3>2, <3>3, UpdateStep
    <3>5. AttemptTypes'
      BY <2>0, <3>1, <3>4, <1>0 DEF AttemptTypes, TaskAt
    <3>6. EndedIsQuiet'
      BY <2>0, <3>1, <3>2, <3>4, <1>0 DEF EndedIsQuiet
    <3> QED BY <3>4, <3>5, <3>6 DEF AttemptStep
  <2> QED BY <2>1, <2>2
<1>12. ASSUME NEW a \in Attempts, AttemptFails(a) PROVE AttemptStep
  <2>0. /\ task[a] \in {"discovering", "waiting", "exchanging"} /\ UNCHANGED <<known, future, overruled>>
        /\ task' = [task EXCEPT ![a] = "failed"]
    BY <1>12 DEF AttemptFails, StoreTokens
  <2>1. CASE known[a] = "none"
    <3>1. UNCHANGED <<attemptRow, writing>>
      BY <2>1, <1>12 DEF AttemptFails, StoreTokens
    <3>2. task' \in [Attempts -> TaskAt] /\ EndedIsQuiet'
      BY <2>0, <3>1, <1>0 DEF TaskAt, EndedIsQuiet
    <3> QED BY <2>0, <3>1, <3>2, <1>0, QuietStep
  <2>2. CASE known[a] # "none"
    <3>1. Update(a, "failed", "task")
      BY <2>2, <1>12 DEF AttemptFails, StoreTokens
    <3>2. (a \notin overruled => attemptRow[a] # "succeeded")
      BY <2>0, <1>0 DEF EndedIsQuiet
    <3>3. "failed" \in AttemptStatus \ {"none"}
      BY DEF AttemptStatus
    <3>4. /\ known' \in [Attempts -> AttemptStatus]
          /\ attemptRow' \in [Attempts -> AttemptStatus \cup {"gone"}] /\ writing' \in Seq(Write)
          /\ attemptRow'[a] = "failed" /\ \A b \in Attempts : b # a => attemptRow'[b] = attemptRow[b]
          /\ SuccessIsLast' /\ KnownSuccess' /\ SuccessStays
      BY <2>0, <3>1, <3>2, <3>3, UpdateStep
    <3>5. AttemptTypes'
      BY <2>0, <3>4, <1>0 DEF AttemptTypes, TaskAt
    <3>6. EndedIsQuiet'
      BY <2>0, <3>2, <3>4, <1>0 DEF EndedIsQuiet
    <3> QED BY <3>4, <3>5, <3>6 DEF AttemptStep
  <2> QED BY <2>1, <2>2
<1>13. ASSUME NEW a \in Attempts, FailureStored(a) PROVE AttemptStep
  <2>1. task[a] = "failed" /\ task' = [task EXCEPT ![a] = "none"]
        /\ future' = [future EXCEPT ![a] = "none"] /\ UNCHANGED <<known, attemptRow, writing, overruled>>
    BY <1>13 DEF FailureStored
  <2>2. task' \in [Attempts -> TaskAt] /\ future' \in [Attempts -> {"none", "pending", "set"}]
        /\ EndedIsQuiet'
    BY <2>1, <1>0 DEF TaskAt, EndedIsQuiet
  <2> QED BY <2>1, <2>2, <1>0, QuietStep
<1>14. ASSUME NEW a \in Attempts, DeleteAttempt(a) PROVE AttemptStep
  <2>1. CancelTasks({a}) /\ known' = [known EXCEPT ![a] = "none"]
        /\ attemptRow' = [attemptRow EXCEPT ![a] = "gone"] /\ {a} \in SUBSET Attempts
        /\ overruled' = overruled
    BY <1>14 DEF DeleteAttempt
  <2>2. /\ \A b \in Attempts : attemptRow'[b] = attemptRow[b] \/ (b \in {a} /\ attemptRow'[b] = "gone")
        /\ \A b \in Attempts : known'[b] = "none" \/ (known'[b] = known[b] /\ attemptRow'[b] = attemptRow[b])
    BY <2>1, <1>0
  <2>3. EndedIsQuiet' /\ SuccessIsLast' /\ KnownSuccess'
    BY <2>1, <2>2, CancelKeeps
  <2>4. /\ task' \in [Attempts -> TaskAt] /\ future' \in [Attempts -> {"none", "pending", "set"}]
        /\ writing' \in Seq(Write)
    BY <1>0, <2>1, CancelMarks
  <2>5. AttemptTypes'
    BY <2>1, <2>4, <1>0 DEF AttemptTypes, AttemptStatus
  <2>6. SuccessStays
    BY <2>1, <1>0 DEF SuccessStays
  <2> QED BY <2>3, <2>5, <2>6 DEF AttemptStep
<1>15. CASE ConfigureServer \/ RefreshServer \/ ProbeEnds \/ DisableServer \/ DeleteServerRow
            \/ DeleteCredential
  <2>1. CASE ConfigureServer
    BY <2>1, <1>1 DEF ConfigureServer
  <2>2. CASE RefreshServer
    BY <2>2, <1>1 DEF RefreshServer
  <2>3. CASE ProbeEnds
    BY <2>3, <1>1 DEF ProbeEnds
  <2>4. CASE DisableServer
    BY <2>4, <1>1 DEF DisableServer
  <2>5. CASE DeleteServerRow
    BY <2>5, <1>1 DEF DeleteServerRow
  <2>6. CASE DeleteCredential
    BY <2>6, <1>1 DEF DeleteCredential
  <2> QED BY <2>1, <2>2, <2>3, <2>4, <2>5, <2>6, <1>15
<1>16. CASE UNCHANGED mcpVars
  <2>1. UNCHANGED attemptVars
    BY <1>16 DEF mcpVars, attemptVars
  <2> QED BY <2>1, <1>1
<1>17. ASSUME NEW a \in Attempts, CreateAttempt(a) PROVE AttemptStep
  <2>1. /\ attemptRow[a] = "none" /\ attemptRow' = [attemptRow EXCEPT ![a] = "waiting"]
        /\ known' = [known EXCEPT ![a] = "waiting"] /\ UNCHANGED <<future, task, writing, overruled>>
    BY <1>17 DEF CreateAttempt
  <2>2. AttemptTypes'
    BY <2>1, <1>0 DEF AttemptTypes, AttemptStatus, TaskAt, McpTypeOK, Write
  <2>3. EndedIsQuiet'
    BY <2>1, <1>0 DEF EndedIsQuiet
  <2>4. SuccessIsLast'
    BY <2>1, <1>0, WritesUnderWay DEF McpInv, SuccessIsLast
  <2>5. KnownSuccess' /\ SuccessStays
    BY <2>1, <1>0 DEF KnownSuccess, SuccessStays
  <2> QED BY <2>2, <2>3, <2>4, <2>5 DEF AttemptStep
<1>18. ASSUME NEW a \in Attempts, ErrorCallback(a) PROVE AttemptStep
  <2>1. /\ Update(a, "failed", "request") /\ UNCHANGED <<known, task, future>>
        /\ overruled' = IF attemptRow[a] = "succeeded" THEN overruled \cup {a} ELSE overruled
    BY <1>18 DEF ErrorCallback
  <2>2. overruled \subseteq overruled' /\ (a \in overruled' \/ attemptRow[a] # "succeeded")
    BY <2>1
  <2>3. "failed" \in AttemptStatus \ {"none"}
    BY DEF AttemptStatus
  <2>4. /\ known' \in [Attempts -> AttemptStatus]
        /\ attemptRow' \in [Attempts -> AttemptStatus \cup {"gone"}] /\ writing' \in Seq(Write)
        /\ attemptRow'[a] = "failed" /\ \A b \in Attempts : b # a => attemptRow'[b] = attemptRow[b]
        /\ SuccessIsLast' /\ KnownSuccess' /\ SuccessStays
    BY <2>1, <2>2, <2>3, UpdateStep
  <2>5. AttemptTypes'
    BY <2>1, <2>4, <1>0 DEF AttemptTypes
  <2>6. EndedIsQuiet'
    BY <2>1, <2>2, <2>4, <1>0 DEF EndedIsQuiet
  <2> QED BY <2>4, <2>5, <2>6 DEF AttemptStep
<1>19. ASSUME NEW a \in Attempts, PutStatus(a) PROVE AttemptStep
  <2>1. PICK state \in {"waiting", "exchanging", "succeeded", "failed"} : Update(a, state, "request")
    BY <1>19 DEF PutStatus
  <2>2. overruled' = overruled \cup {a} /\ UNCHANGED <<known, task, future>>
    BY <1>19 DEF PutStatus
  <2>3. state \in AttemptStatus \ {"none"}
    BY DEF AttemptStatus
  <2>4. /\ known' \in [Attempts -> AttemptStatus]
        /\ attemptRow' \in [Attempts -> AttemptStatus \cup {"gone"}] /\ writing' \in Seq(Write)
        /\ attemptRow'[a] = state /\ \A b \in Attempts : b # a => attemptRow'[b] = attemptRow[b]
        /\ SuccessIsLast' /\ KnownSuccess' /\ SuccessStays
    BY <2>1, <2>2, <2>3, UpdateStep
  <2>5. AttemptTypes'
    BY <2>2, <2>4, <1>0 DEF AttemptTypes
  <2>6. EndedIsQuiet'
    BY <2>2, <2>4, <1>0 DEF EndedIsQuiet
  <2> QED BY <2>4, <2>5, <2>6 DEF AttemptStep
<1> QED BY <1>2, <1>3, <1>4, <1>5, <1>6, <1>7, <1>8, <1>9, <1>10, <1>11, <1>12, <1>13, <1>14,
           <1>15, <1>16, <1>17, <1>18, <1>19 DEF McpNext

\* Every step keeps the invariant.
LEMMA McpInvStep == McpInv /\ [McpNext]_mcpVars => McpInv'
<1> SUFFICES ASSUME McpInv, [McpNext]_mcpVars PROVE McpInv'
  OBVIOUS
<1>1. AttemptStep
  BY AttemptsStep
<1>2. McpTypeOK'
  <2>1. AttemptTypes'
    BY <1>1 DEF AttemptStep
  <2> QED BY <2>1, ServerTypes DEF McpTypeOK, AttemptTypes, Write
<1> QED BY <1>1, <1>2 DEF McpInv, AttemptStep

\* The invariant holds in every state: a success is written last and known only from its row.
THEOREM McpInvariant == McpSpec => []McpInv
BY McpInitInv, McpInvStep, PTL DEF McpSpec

\* A success that the task of an attempt has reported stays in memory and in the row until
\* the attempt is deleted or a request gives it a status of its own - a PUT, or a callback
\* with ?error= behind the success - however many attempts there are, the browser repeats the
\* callback and requests and restarts fall between a write and its answer
\* (runtime/mcp_oauth.py, app/service.py:910-924, 1104-1115).
THEOREM SucceededIsFinalAlways == McpSpec => SucceededIsFinal
<1>1. McpInv /\ [McpNext]_mcpVars => SuccessStays
  BY AttemptsStep DEF AttemptStep
<1>2. SuccessStays =>
        [\A a \in Attempts \ overruled' :
                             /\ known[a] = "succeeded" => known'[a] \in {"succeeded", "none"}
                             /\ attemptRow[a] = "succeeded" => attemptRow'[a] \in {"succeeded", "gone"}]_mcpVars
  BY DEF SuccessStays
<1> QED BY <1>1, <1>2, McpInvariant, PTL DEF McpSpec, SucceededIsFinal

-----------------------------------------------------------------------------
(* Catalog                                                                 *)

\* The records that a request, a row or the memory may hold.
MaybeRecord == Records \cup {NoRecord}

CatalogTypes ==
  /\ CatalogTypeOK
  /\ integrationStep.record \in MaybeRecord /\ integrationStep.enabled \in BOOLEAN
  /\ [name |-> integrationRow.name, config |-> integrationRow.config] \in MaybeRecord
  /\ integrationRow.enabled \in BOOLEAN
  /\ DOMAIN integrationRow = {"name", "config", "enabled"}
  /\ DOMAIN integrationStep = {"step", "record", "enabled"}

\* What a request on a skill has done so far, and that without one a restart finds the skill.
SkillsWhole ==
  \A id \in SkillIds :
    /\ skills[id] = NoSkill \/ skills[id].source # "none"
    /\ skillRows[id] = NoSkill \/ skillRows[id].source # "none"
    /\ skillSteps[id] \in {"put", "clear"} => skills[id] # NoSkill
    /\ skillSteps[id] = "clear" => skillRows[id] = skills[id]
    /\ skillSteps[id] = "delete" => skills[id] = NoSkill
    /\ skillSteps[id] = "none" /\ id \notin customs => LoadedSkill(id).body = skills[id].body

\* One instance of the record's name, or none.
Only(rec, enabled) == [n \in Labels |-> IF enabled /\ rec.name = n THEN rec.config ELSE 0]

\* What a request on the integration has done so far: memory holds its record, and the
\* instances are those that its row will tell.
IntegrationWhole ==
  /\ integrationRow.enabled =>
       [name |-> integrationRow.name, config |-> integrationRow.config] \in Records
  /\ integrationStep.step = "none" => integrationStep = NoStep
  /\ integrationStep.step # "none" =>
       integrationStep.record = configuredAs /\ configuredAs \in Records
  /\ ~torn =>
       /\ integrationStep.step = "none" =>
            /\ instances = LoadedInstances
            /\ integrationRow.enabled =>
                 configuredAs \in Records /\ configuredAs.name = integrationRow.name
       /\ integrationStep.step = "closing" =>
            integrationStep.enabled /\ instances = Only(configuredAs, FALSE)
       /\ integrationStep.step = "disabling" => instances = Only(configuredAs, FALSE)
       /\ integrationStep.step = "checking" =>
            integrationStep.enabled /\ instances = Only(configuredAs, TRUE)
       /\ integrationStep.step = "put" =>
            instances = Only(configuredAs, integrationStep.enabled)

CatalogInv == CatalogTypes /\ SkillsWhole /\ IntegrationWhole

-----------------------------------------------------------------------------

SkillType == [source : {"none", "builtin", "custom"}, body : {0} \cup Bodies]

\* The skill that is not there has a type.
LEMMA NoSkillType == NoSkill \in SkillType /\ NoSkill.body = 0 /\ NoSkill.source = "none"
BY DEF NoSkill, SkillType

\* A skill written by a request has a type and its own body and source.
LEMMA SkillIsSkill ==
  ASSUME NEW source \in {"builtin", "custom"}, NEW b \in {0} \cup Bodies
  PROVE  /\ Skill(source, b) \in SkillType /\ Skill(source, b).body = b
         /\ Skill(source, b).source = source /\ Skill(source, b) # NoSkill
BY DEF Skill, SkillType, NoSkill

\* A skill that a restart builds has a type.
LEMMA LoadedType ==
  ASSUME CatalogTypeOK, NEW id \in SkillIds
  PROVE  /\ LoadedSkill(id) \in SkillType
         /\ skillRows[id] = NoSkill \/ skillRows[id].source # "none" =>
              LoadedSkill(id) = NoSkill \/ LoadedSkill(id).source # "none"
<1>1. skillRows[id] \in SkillType
  BY DEF CatalogTypeOK, SkillType
<1>2. skillRows[id].body \in {0} \cup Bodies /\ 1 \in {0} \cup Bodies
  BY <1>1 DEF SkillType, Bodies
<1>3. /\ Skill("builtin", skillRows[id].body) \in SkillType
      /\ Skill("builtin", skillRows[id].body).source = "builtin"
      /\ Skill("builtin", 1) \in SkillType /\ Skill("builtin", 1).source = "builtin"
  BY <1>2, SkillIsSkill
<1> QED BY <1>1, <1>3, NoSkillType DEF LoadedSkill

\* The variables of the skills keep their types.
SkillTypes ==
  /\ skills \in [SkillIds -> SkillType] /\ skillRows \in [SkillIds -> SkillType]
  /\ tombstones \subseteq SkillIds /\ customs \subseteq Builtins
  /\ skillSteps \in [SkillIds -> {"none", "put", "clear", "delete"}]
  /\ packaged \subseteq SkillIds /\ packages \subseteq SkillIds

\* What the invariant says of one skill.
SkillWhole(id) ==
  /\ skills[id] = NoSkill \/ skills[id].source # "none"
  /\ skillRows[id] = NoSkill \/ skillRows[id].source # "none"
  /\ skillSteps[id] \in {"put", "clear"} => skills[id] # NoSkill
  /\ skillSteps[id] = "clear" => skillRows[id] = skills[id]
  /\ skillSteps[id] = "delete" => skills[id] = NoSkill
  /\ skillSteps[id] = "none" /\ id \notin customs => LoadedSkill(id).body = skills[id].body

\* A step on one skill leaves the others whole.
LEMMA OneSkill ==
  ASSUME SkillsWhole, NEW id \in SkillIds, SkillWhole(id)',
         \A o \in SkillIds : o # id =>
           /\ skills'[o] = skills[o] /\ skillRows'[o] = skillRows[o] /\ skillSteps'[o] = skillSteps[o]
           /\ (o \in tombstones' <=> o \in tombstones) /\ (o \in customs' <=> o \in customs)
  PROVE  SkillsWhole'
<1> SUFFICES ASSUME NEW o \in SkillIds PROVE SkillWhole(o)'
  BY DEF SkillsWhole, SkillWhole
<1>1. CASE o # id
  <2>1. /\ skills'[o] = skills[o] /\ skillRows'[o] = skillRows[o] /\ skillSteps'[o] = skillSteps[o]
        /\ (o \in tombstones' <=> o \in tombstones) /\ (o \in customs' <=> o \in customs)
    BY <1>1
  <2>2. LoadedSkill(o)' = LoadedSkill(o)
    BY <2>1 DEF LoadedSkill
  <2> QED BY <2>1, <2>2 DEF SkillsWhole, SkillWhole
<1> QED BY <1>1

\* A step that leaves the skills alone keeps what is said of them.
LEMMA SkillsKept ==
  ASSUME CatalogInv, UNCHANGED skillCatalogVars
  PROVE  SkillTypes' /\ SkillsWhole'
BY DEF CatalogInv, CatalogTypes, CatalogTypeOK, SkillTypes, SkillType, SkillsWhole, LoadedSkill,
       skillCatalogVars

\* Every step keeps the skills whole: one case per action on a skill.
LEMMA SkillsStep ==
  ASSUME CatalogInv, [CatalogNext]_catalogVars
  PROVE  SkillTypes' /\ SkillsWhole'
<1>0. CatalogTypeOK /\ SkillTypes /\ SkillsWhole /\ \A id \in SkillIds : SkillWhole(id)
  BY DEF CatalogInv, CatalogTypes, CatalogTypeOK, SkillTypes, SkillType, SkillsWhole, SkillWhole
<1> USE DEF SkillTypes
<1>1. CASE UNCHANGED skillCatalogVars
  BY <1>1, SkillsKept
<1>2. ASSUME NEW builds \in BOOLEAN, CatalogRestart(builds) PROVE SkillTypes' /\ SkillsWhole'
  <2>1. /\ skills' = [id \in SkillIds |-> LoadedSkill(id)]
        /\ skillRows' = [id \in SkillIds |->
                          IF LoadedSkill(id) # NoSkill THEN LoadedSkill(id) ELSE skillRows[id]]
        /\ skillSteps' = [id \in SkillIds |-> "none"]
        /\ packages' = packaged /\ customs' = {} /\ tombstones' = tombstones /\ packaged' = packaged
    BY <1>2 DEF CatalogRestart
  <2>2. \A id \in SkillIds : LoadedSkill(id) \in SkillType
    BY <1>0, LoadedType
  <2>3. SkillTypes'
    BY <2>1, <2>2, <1>0
  <2>4. ASSUME NEW id \in SkillIds PROVE SkillWhole(id)'
    <3>1. /\ skills'[id] = LoadedSkill(id) /\ skillSteps'[id] = "none"
          /\ skillRows'[id] = IF LoadedSkill(id) # NoSkill THEN LoadedSkill(id) ELSE skillRows[id]
      BY <2>1
    <3>2. /\ skillRows[id] = NoSkill \/ skillRows[id].source # "none"
          /\ LoadedSkill(id) = NoSkill \/ LoadedSkill(id).source # "none"
      BY <1>0, LoadedType DEF SkillWhole
    <3>3. LoadedSkill(id)'.body = LoadedSkill(id).body
      <4>1. CASE id \notin Builtins
        BY <4>1, <3>1, <3>2 DEF LoadedSkill
      <4>2. CASE id \in Builtins /\ LoadedSkill(id) # NoSkill
        <5>1. skillRows'[id] = LoadedSkill(id) /\ skillRows'[id] # NoSkill
          BY <4>2, <3>1
        <5>2. LoadedSkill(id)' = Skill("builtin", skillRows'[id].body)
          BY <4>2, <5>1 DEF LoadedSkill
        <5> QED BY <5>1, <5>2 DEF Skill
      <4>3. CASE id \in Builtins /\ LoadedSkill(id) = NoSkill
        <5>1. skillRows'[id] = skillRows[id] /\ tombstones' = tombstones
          BY <4>3, <3>1, <2>1
        <5> QED BY <4>3, <5>1 DEF LoadedSkill
      <4> QED BY <4>1, <4>2, <4>3
    <3> QED BY <3>1, <3>2, <3>3 DEF SkillWhole
  <2> QED BY <2>3, <2>4 DEF SkillsWhole, SkillWhole
<1>3. ASSUME NEW id \in SkillIds, CreateSkill(id) PROVE SkillTypes' /\ SkillsWhole'
  <2>1. /\ skills' = [skills EXCEPT ![id] = Skill("custom", 2)]
        /\ skillSteps' = [skillSteps EXCEPT ![id] = "put"]
        /\ UNCHANGED <<skillRows, tombstones, packaged, packages, customs>>
    BY <1>3 DEF CreateSkill
  <2>2. Skill("custom", 2) \in SkillType /\ Skill("custom", 2).source = "custom" /\ Skill("custom", 2) # NoSkill
    BY SkillIsSkill DEF Bodies
  <2>3. SkillTypes'
    BY <2>1, <2>2, <1>0
  <2>4. SkillWhole(id)'
    BY <2>1, <2>2, <1>0 DEF SkillWhole
  <2> QED BY <2>1, <2>3, <2>4, <1>0, OneSkill
<1>4. ASSUME NEW id \in SkillIds, NEW b \in Bodies, PutSkill(id, b) PROVE SkillTypes' /\ SkillsWhole'
  <2>1. /\ skills[id] # NoSkill /\ skills' = [skills EXCEPT ![id].body = b]
        /\ skillSteps' = [skillSteps EXCEPT ![id] = "put"]
        /\ UNCHANGED <<skillRows, tombstones, packaged, packages, customs>>
    BY <1>4 DEF PutSkill
  <2>2. skills[id] \in SkillType /\ skills[id].source # "none"
    BY <2>1, <1>0 DEF SkillWhole
  <2>3. /\ skills'[id] = [skills[id] EXCEPT !.body = b]
        /\ \A o \in SkillIds : o # id => skills'[o] = skills[o]
    BY <2>1, <1>0
  <2>4. skills'[id] \in SkillType /\ skills'[id].source = skills[id].source
    BY <2>2, <2>3 DEF SkillType
  <2>5. SkillTypes'
    BY <2>1, <2>3, <2>4, <1>0
  <2>6. SkillWhole(id)'
    BY <2>1, <2>2, <2>4, <1>0, NoSkillType DEF SkillWhole
  <2> QED BY <2>1, <2>3, <2>5, <2>6, <1>0, OneSkill
<1>5. ASSUME NEW id \in SkillIds, StoreSkill(id) PROVE SkillTypes' /\ SkillsWhole'
  <2>1. /\ skillSteps[id] = "put" /\ skillRows' = [skillRows EXCEPT ![id] = skills[id]]
        /\ skillSteps' = [skillSteps EXCEPT ![id] = "clear"]
        /\ UNCHANGED <<skills, tombstones, packaged, packages, customs>>
    BY <1>5 DEF StoreSkill
  <2>2. SkillTypes'
    BY <2>1, <1>0
  <2>3. SkillWhole(id)'
    BY <2>1, <1>0 DEF SkillWhole
  <2> QED BY <2>1, <2>2, <2>3, <1>0, OneSkill
<1>6. ASSUME NEW id \in SkillIds, ClearTombstone(id) PROVE SkillTypes' /\ SkillsWhole'
  <2>1. /\ skillSteps[id] = "clear" /\ tombstones' = tombstones \ {id}
        /\ skillSteps' = [skillSteps EXCEPT ![id] = "none"]
        /\ UNCHANGED <<skills, skillRows, packaged, packages, customs>>
    BY <1>6 DEF ClearTombstone
  <2>2. SkillTypes'
    BY <2>1, <1>0
  <2>3. skillRows'[id] = skills'[id] /\ skillRows'[id] # NoSkill
    BY <2>1, <1>0 DEF SkillWhole
  <2>4. LoadedSkill(id)'.body = skills'[id].body
    BY <2>3 DEF LoadedSkill, Skill
  <2>5. SkillWhole(id)'
    BY <2>1, <2>4, <1>0 DEF SkillWhole
  <2> QED BY <2>1, <2>2, <2>5, <1>0, OneSkill
<1>7. ASSUME NEW id \in SkillIds, NEW source \in {"builtin", "custom", "any"}, DeleteSkill(id, source)
      PROVE  SkillTypes' /\ SkillsWhole'
  <2>1. /\ skills' = [skills EXCEPT ![id] = NoSkill]
        /\ customs' = IF skills[id].source = "custom" /\ id \in Builtins
                      THEN customs \cup {id} ELSE customs \ {id}
        /\ skillSteps' = [skillSteps EXCEPT ![id] = "delete"]
        /\ UNCHANGED <<skillRows, tombstones, packaged, packages>>
    BY <1>7 DEF DeleteSkill
  <2>2. SkillTypes'
    BY <2>1, <1>0, NoSkillType
  <2>3. SkillWhole(id)'
    BY <2>1, <1>0 DEF SkillWhole
  <2> QED BY <2>1, <2>2, <2>3, <1>0, OneSkill
<1>8. ASSUME NEW id \in SkillIds, DeleteSkillRow(id) PROVE SkillTypes' /\ SkillsWhole'
  <2>1. /\ skillSteps[id] = "delete" /\ skillRows' = [skillRows EXCEPT ![id] = NoSkill]
        /\ tombstones' = (IF id \in Builtins /\ id \notin customs
                          THEN tombstones \cup {id} ELSE tombstones \ {id})
        /\ skillSteps' = [skillSteps EXCEPT ![id] = "none"]
        /\ UNCHANGED <<skills, packaged, packages, customs>>
    BY <1>8 DEF DeleteSkillRow, Tombstone
  <2>2. SkillTypes'
    BY <2>1, <1>0, NoSkillType
  <2>3. skills[id] = NoSkill /\ skillRows'[id] = NoSkill
    BY <2>1, <1>0 DEF SkillWhole
  <2>4. id \notin customs => LoadedSkill(id)' = NoSkill
    BY <2>1, <2>3 DEF LoadedSkill
  <2>5. SkillWhole(id)'
    BY <2>1, <2>3, <2>4, <1>0 DEF SkillWhole
  <2> QED BY <2>1, <2>2, <2>5, <1>0, OneSkill
<1>9. ASSUME NEW id \in SkillIds, PackageCommand(id) PROVE SkillTypes' /\ SkillsWhole'
  <2>1. /\ packaged' = (IF id \in packaged THEN packaged \ {id} ELSE packaged \cup {id})
        /\ UNCHANGED <<skills, skillRows, tombstones, skillSteps, packages, customs>>
    BY <1>9 DEF PackageCommand
  <2> QED BY <2>1, <1>0 DEF SkillsWhole, LoadedSkill
<1>10. CASE RefreshPackages
  <2>1. /\ packages' = packaged
        /\ UNCHANGED <<skills, skillRows, tombstones, skillSteps, packaged, customs>>
    BY <1>10 DEF RefreshPackages
  <2> QED BY <2>1, <1>0 DEF SkillsWhole, LoadedSkill
<1>11. CASE \/ \E rec \in Records : Configure(rec)
            \/ Enable \/ EnableFails \/ Disable
            \/ InstanceReplaced \/ HealthChecked \/ RequestRaises \/ PutIntegration \/ Disabled
  <2>1. UNCHANGED skillCatalogVars
    BY <1>11 DEF Configure, Enable, EnableFails, Disable, InstanceReplaced, HealthChecked,
                 RequestRaises, PutIntegration, Disabled, IntegrationRequest
  <2> QED BY <2>1, <1>1
<1>12. CASE UNCHANGED catalogVars
  BY <1>12, <1>1 DEF catalogVars
<1> QED BY <1>2, <1>3, <1>4, <1>5, <1>6, <1>7, <1>8, <1>9, <1>10, <1>11, <1>12 DEF CatalogNext

-----------------------------------------------------------------------------

\* The variables of the integration keep their types.
IntegrationTypes ==
  /\ configuredAs \in MaybeRecord /\ instances \in [Labels -> 0..2]
  /\ integrationStep.step \in {"none", "closing", "checking", "put", "disabling"}
  /\ integrationStep.record \in MaybeRecord /\ integrationStep.enabled \in BOOLEAN
  /\ DOMAIN integrationStep = {"step", "record", "enabled"}
  /\ integrationRow.name \in Labels \cup {"none"}
  /\ [name |-> integrationRow.name, config |-> integrationRow.config] \in MaybeRecord
  /\ integrationRow.enabled \in BOOLEAN
  /\ DOMAIN integrationRow = {"name", "config", "enabled"}
  /\ torn \in BOOLEAN

\* The parts of a record, and that none is the record that is not there.
LEMMA RecordParts ==
  /\ \A rec \in Records : /\ rec # NoRecord /\ rec.name \in Labels /\ rec.config \in {1, 2}
                          /\ rec = [name |-> rec.name, config |-> rec.config]
  /\ NoRecord \in MaybeRecord /\ NoRecord = [name |-> "none", config |-> 0]
  /\ Default \in Records
  /\ \A rec \in MaybeRecord : rec.name \in Labels \cup {"none"}
BY CatalogAssumption DEF Records, NoRecord, MaybeRecord, Default

\* The instances of one record.
LEMMA OnlyType ==
  ASSUME NEW rec \in Records
  PROVE  /\ \A e \in BOOLEAN : Only(rec, e) \in [Labels -> 0..2]
         /\ Only(rec, FALSE) = [n \in Labels |-> 0]
         /\ Only(rec, TRUE) = [n \in Labels |-> IF rec.name = n THEN rec.config ELSE 0]
<1>1. rec.config \in 0..2
  BY RecordParts
<1> QED BY <1>1 DEF Only

\* The fields of a request and of a row.
LEMMA Fields ==
  ASSUME NEW step, NEW rec, NEW e
  PROVE  /\ Request(step, rec, e).step = step /\ Request(step, rec, e).record = rec
         /\ Request(step, rec, e).enabled = e
         /\ DOMAIN Request(step, rec, e) = {"step", "record", "enabled"}
         /\ RowOf(rec, e).name = rec.name /\ RowOf(rec, e).config = rec.config
         /\ RowOf(rec, e).enabled = e /\ DOMAIN RowOf(rec, e) = {"name", "config", "enabled"}
         /\ NoStep.step = "none" /\ NoStep.record = NoRecord /\ NoStep.enabled = FALSE
         /\ DOMAIN NoStep = {"step", "record", "enabled"}
BY DEF Request, RowOf, NoStep

\* Where a restart finds one instance or none.
LEMMA LoadedIs ==
  ASSUME IntegrationTypes
  PROVE  /\ ~integrationRow.enabled => LoadedInstances = [n \in Labels |-> 0]
         /\ integrationRow.enabled =>
              LoadedInstances = [n \in Labels |-> IF integrationRow.name = n
                                                  THEN integrationRow.config ELSE 0]
BY DEF LoadedInstances

\* Without a request, and unless something went wrong, only the recorded name has an instance.
LEMMA OnlyRecorded ==
  ASSUME IntegrationTypes, IntegrationWhole, ~torn, integrationStep.step = "none"
  PROVE  /\ \A n \in Labels : instances[n] # 0 => configuredAs \in Records /\ configuredAs.name = n
<1> SUFFICES ASSUME NEW n \in Labels, instances[n] # 0
             PROVE  configuredAs \in Records /\ configuredAs.name = n
  OBVIOUS
<1>1. instances = LoadedInstances
  BY DEF IntegrationWhole
<1>2. integrationRow.enabled
  BY <1>1, LoadedIs
<1>3. integrationRow.name = n
  BY <1>1, <1>2, LoadedIs
<1> QED BY <1>2, <1>3 DEF IntegrationWhole

\* A request that begins.
LEMMA RequestBegins ==
  ASSUME IntegrationTypes, IntegrationWhole, IntegrationRequest
  PROVE  /\ integrationStep.step = "none" /\ integrationStep = NoStep
         /\ UNCHANGED skillCatalogVars
BY DEF IntegrationRequest, NoStep

\* Configuring an integration, which must be idle.
LEMMA ConfigureKeeps ==
  ASSUME IntegrationTypes, IntegrationWhole, NEW rec \in Records, Configure(rec)
  PROVE  IntegrationTypes' /\ IntegrationWhole'
<1>0. integrationStep.step = "none"
  BY RequestBegins DEF Configure
<1>1. /\ configuredAs' = rec
      /\ integrationStep' = Request(IF Running(rec.name) THEN "closing" ELSE "put",
                                    rec, Running(rec.name))
      /\ instances' = [instances EXCEPT ![rec.name] = 0]
      /\ torn' = (torn \/ (/\ configuredAs # NoRecord /\ rec.name # configuredAs.name
                           /\ Running(configuredAs.name)))
      /\ integrationRow' = integrationRow
  BY DEF Configure
<1>2. Running(rec.name) \in BOOLEAN /\ torn' \in BOOLEAN
  BY <1>1, Zenon DEF Running, IntegrationTypes
<1>3. /\ integrationStep'.step = (IF Running(rec.name) THEN "closing" ELSE "put")
      /\ integrationStep'.record = rec /\ integrationStep'.enabled = Running(rec.name)
      /\ DOMAIN integrationStep' = {"step", "record", "enabled"}
  BY <1>1 DEF Request, NoStep
<1>4. rec.name \in Labels /\ rec \in MaybeRecord
  BY RecordParts DEF MaybeRecord
<1>5. instances' \in [Labels -> 0..2]
  BY <1>1, <1>4 DEF IntegrationTypes
<1>6. IntegrationTypes'
  <2>1. integrationStep'.enabled \in BOOLEAN
    BY <1>2, <1>3, Zenon
  <2>2. integrationStep'.step \in {"none", "closing", "checking", "put", "disabling"}
        /\ integrationStep'.record \in MaybeRecord /\ configuredAs' \in MaybeRecord
    BY <1>1, <1>3, <1>4
  <2> QED BY <2>1, <2>2, <1>1, <1>2, <1>3, <1>5, Zenon DEF IntegrationTypes
<1>7. ~torn' => instances' = Only(rec, FALSE)
  <2> SUFFICES ASSUME ~torn' PROVE instances' = [n \in Labels |-> 0]
    BY OnlyType
  <2>1. ~torn /\ ~(configuredAs # NoRecord /\ rec.name # configuredAs.name /\ Running(configuredAs.name))
    BY <1>1
  <2>2. ASSUME NEW n \in Labels, n # rec.name PROVE instances[n] = 0
    <3>1. instances[n] # 0 => configuredAs \in Records /\ configuredAs.name = n
      BY <1>0, <2>1, OnlyRecorded
    <3>2. configuredAs \in Records => configuredAs # NoRecord
      BY RecordParts
    <3> QED BY <2>1, <2>2, <3>1, <3>2 DEF Running
  <2> QED BY <2>2, <1>1, <1>4 DEF IntegrationTypes
<1>8. ~torn' /\ ~Running(rec.name) => instances' = Only(rec, integrationStep'.enabled)
  <2> SUFFICES ASSUME ~torn', ~Running(rec.name) PROVE instances' = Only(rec, integrationStep'.enabled)
    OBVIOUS
  <2>1. integrationStep'.enabled = FALSE
    BY <1>2, <1>3, Zenon
  <2> QED BY <2>1, <1>7
<1>9. IntegrationWhole'
  BY <1>1, <1>3, <1>7, <1>8 DEF IntegrationWhole
<1> QED BY <1>6, <1>9

\* The default, or the record there is, is what Enable and EnableFails take.
Enabling == IF configuredAs = NoRecord THEN Default ELSE configuredAs

\* What is enabled is a record, and no other name has an instance before.
LEMMA EnablingIsRecord ==
  ASSUME IntegrationTypes, IntegrationWhole, integrationStep.step = "none"
  PROVE  /\ Enabling \in Records /\ Enabling \in MaybeRecord /\ Enabling.name \in Labels
         /\ Enabling.config \in 0..2
         /\ ~torn => \A n \in Labels : n # Enabling.name => instances[n] = 0
<1>1. Enabling \in Records
  BY RecordParts DEF Enabling, IntegrationTypes, MaybeRecord
<1>2. Enabling \in MaybeRecord /\ Enabling.name \in Labels /\ Enabling.config \in 0..2
  BY <1>1, RecordParts DEF MaybeRecord
<1>3. ASSUME ~torn, NEW n \in Labels, n # Enabling.name PROVE instances[n] = 0
  <2>1. instances[n] # 0 => configuredAs \in Records /\ configuredAs.name = n
    BY <1>3, OnlyRecorded
  <2>2. configuredAs \in Records => Enabling = configuredAs
    BY RecordParts DEF Enabling
  <2> QED BY <1>3, <2>1, <2>2
<1> QED BY <1>1, <1>2, <1>3

\* The beginning of enabling.
LEMMA EnableIntegration ==
  ASSUME IntegrationTypes, IntegrationWhole, Enable
  PROVE  IntegrationTypes' /\ IntegrationWhole'
<1>0. integrationStep.step = "none"
  BY RequestBegins DEF Enable
<1> DEFINE rec == Enabling
<1>1. /\ configuredAs' = rec /\ instances' = [instances EXCEPT ![rec.name] = rec.config]
      /\ integrationStep' = Request("checking", rec, TRUE)
      /\ UNCHANGED <<integrationRow, torn>>
  BY DEF Enable, Enabling
<1>2. /\ rec \in Records /\ rec \in MaybeRecord /\ rec.name \in Labels /\ rec.config \in 0..2
      /\ ~torn => \A n \in Labels : n # rec.name => instances[n] = 0
  BY <1>0, EnablingIsRecord
<1> HIDE DEF rec
<1>3. /\ integrationStep'.step = "checking" /\ integrationStep'.record = rec
      /\ integrationStep'.enabled = TRUE /\ DOMAIN integrationStep' = {"step", "record", "enabled"}
  BY <1>1 DEF Request, NoStep
<1>4. instances' \in [Labels -> 0..2]
  BY <1>1, <1>2 DEF IntegrationTypes
<1>5. IntegrationTypes'
  <2>1. integrationStep'.enabled \in BOOLEAN
    BY <1>3, Zenon
  <2>2. integrationStep'.step \in {"none", "closing", "checking", "put", "disabling"}
        /\ integrationStep'.record \in MaybeRecord /\ configuredAs' \in MaybeRecord
    BY <1>1, <1>2, <1>3
  <2> QED BY <2>1, <2>2, <1>1, <1>3, <1>4, Zenon DEF IntegrationTypes
<1>6. ~torn => instances' = Only(rec, TRUE)
  <2> SUFFICES ASSUME ~torn
               PROVE  instances' = [n \in Labels |-> IF rec.name = n THEN rec.config ELSE 0]
    BY <1>2, OnlyType
  <2>1. \A n \in Labels : instances'[n] = IF rec.name = n THEN rec.config ELSE 0
    BY <1>1, <1>2 DEF IntegrationTypes
  <2> QED BY <2>1, <1>4
<1>7. IntegrationWhole'
  BY <1>1, <1>2, <1>3, <1>6 DEF IntegrationWhole
<1> QED BY <1>5, <1>7

\* Enabling whose construction raises.
LEMMA EnableFailing ==
  ASSUME IntegrationTypes, IntegrationWhole, EnableFails
  PROVE  IntegrationTypes' /\ IntegrationWhole'
<1>0. integrationStep.step = "none"
  BY RequestBegins DEF EnableFails
<1> DEFINE rec == Enabling
<1>1. /\ configuredAs' = rec /\ integrationStep' = Request("put", rec, FALSE)
      /\ torn' = (torn \/ Running(rec.name)) /\ UNCHANGED <<instances, integrationRow>>
  BY DEF EnableFails, Enabling
<1>2. /\ rec \in Records /\ rec \in MaybeRecord /\ rec.name \in Labels /\ rec.config \in 0..2
      /\ ~torn => \A n \in Labels : n # rec.name => instances[n] = 0
  BY <1>0, EnablingIsRecord
<1> HIDE DEF rec
<1>3. /\ integrationStep'.step = "put" /\ integrationStep'.record = rec
      /\ integrationStep'.enabled = FALSE /\ DOMAIN integrationStep' = {"step", "record", "enabled"}
  BY <1>1 DEF Request, NoStep
<1>4. torn' \in BOOLEAN
  BY <1>1, Zenon DEF Running, IntegrationTypes
<1>5. IntegrationTypes'
  <2>1. integrationStep'.enabled \in BOOLEAN
    BY <1>3, Zenon
  <2>2. integrationStep'.step \in {"none", "closing", "checking", "put", "disabling"}
        /\ integrationStep'.record \in MaybeRecord /\ configuredAs' \in MaybeRecord
    BY <1>1, <1>2, <1>3
  <2> QED BY <2>1, <2>2, <1>1, <1>3, <1>4, Zenon DEF IntegrationTypes
<1>6. ~torn' => instances' = Only(rec, FALSE)
  <2> SUFFICES ASSUME ~torn' PROVE instances' = [n \in Labels |-> 0]
    BY <1>2, OnlyType
  <2>1. ~torn /\ instances[rec.name] = 0
    BY <1>1 DEF Running
  <2> QED BY <2>1, <1>1, <1>2 DEF IntegrationTypes
<1>7. IntegrationWhole'
  <2>1. ~torn' => instances' = Only(rec, integrationStep'.enabled)
    BY <1>3, <1>6
  <2> QED BY <2>1, <1>1, <1>2, <1>3 DEF IntegrationWhole
<1> QED BY <1>5, <1>7

\* The beginning of disabling.
LEMMA DisableIntegration ==
  ASSUME IntegrationTypes, IntegrationWhole, Disable
  PROVE  IntegrationTypes' /\ IntegrationWhole'
<1>0. integrationStep.step = "none"
  BY RequestBegins DEF Disable
<1>1. /\ configuredAs # NoRecord /\ instances' = [instances EXCEPT ![configuredAs.name] = 0]
      /\ integrationStep' = Request("disabling", configuredAs, FALSE)
      /\ UNCHANGED <<configuredAs, integrationRow, torn>>
  BY DEF Disable
<1>2. configuredAs \in Records /\ configuredAs.name \in Labels
  BY <1>1, RecordParts DEF IntegrationTypes, MaybeRecord
<1>3. /\ integrationStep'.step = "disabling" /\ integrationStep'.record = configuredAs
      /\ integrationStep'.enabled = FALSE /\ DOMAIN integrationStep' = {"step", "record", "enabled"}
  BY <1>1 DEF Request, NoStep
<1>4. instances' \in [Labels -> 0..2]
  BY <1>1, <1>2 DEF IntegrationTypes
<1>5. IntegrationTypes'
  <2>1. integrationStep'.enabled \in BOOLEAN
    BY <1>3, Zenon
  <2>2. integrationStep'.step \in {"none", "closing", "checking", "put", "disabling"}
        /\ integrationStep'.record \in MaybeRecord
    BY <1>3, <1>2 DEF MaybeRecord
  <2> QED BY <2>1, <2>2, <1>1, <1>3, <1>4, Zenon DEF IntegrationTypes
<1>6. ~torn => instances' = Only(configuredAs, FALSE)
  <2> SUFFICES ASSUME ~torn PROVE instances' = [n \in Labels |-> 0]
    BY <1>2, OnlyType
  <2>1. \A n \in Labels : n # configuredAs.name => instances[n] = 0
    BY <1>0, OnlyRecorded
  <2> QED BY <2>1, <1>1, <1>2 DEF IntegrationTypes
<1>7. IntegrationWhole'
  BY <1>1, <1>2, <1>3, <1>6 DEF IntegrationWhole
<1> QED BY <1>5, <1>7

\* The old instance closed, the new one takes its place.
LEMMA ReplacedKeeps ==
  ASSUME IntegrationTypes, IntegrationWhole, InstanceReplaced
  PROVE  IntegrationTypes' /\ IntegrationWhole'
<1> DEFINE rec == integrationStep.record
<1>1. /\ integrationStep.step = "closing"
      /\ instances' = [instances EXCEPT ![rec.name] = rec.config]
      /\ integrationStep' = [integrationStep EXCEPT !.step = "checking"]
      /\ UNCHANGED <<configuredAs, integrationRow, torn>>
  BY DEF InstanceReplaced
<1>2. rec = configuredAs /\ configuredAs \in Records /\ rec.name \in Labels /\ rec.config \in 0..2
  BY <1>1, RecordParts DEF IntegrationWhole
<1>3. /\ integrationStep'.step = "checking" /\ integrationStep'.record = rec
      /\ integrationStep'.enabled = integrationStep.enabled
      /\ DOMAIN integrationStep' = {"step", "record", "enabled"}
  BY <1>1 DEF IntegrationTypes
<1> HIDE DEF rec
<1>4. instances' \in [Labels -> 0..2]
  BY <1>1, <1>2 DEF IntegrationTypes
<1>5. IntegrationTypes'
  BY <1>1, <1>2, <1>3, <1>4 DEF IntegrationTypes
<1>6. ~torn => instances' = Only(rec, TRUE)
  <2> SUFFICES ASSUME ~torn
               PROVE  instances' = [n \in Labels |-> IF rec.name = n THEN rec.config ELSE 0]
    BY <1>2, OnlyType
  <2>1. instances = [n \in Labels |-> 0]
    BY <1>1, <1>2, OnlyType DEF IntegrationWhole
  <2>2. \A n \in Labels : instances'[n] = IF rec.name = n THEN rec.config ELSE 0
    BY <2>1, <1>1, <1>2 DEF IntegrationTypes
  <2> QED BY <2>2, <1>4
<1>7. IntegrationWhole'
  BY <1>1, <1>2, <1>3, <1>6 DEF IntegrationWhole
<1> QED BY <1>5, <1>7

\* The health check answered.
LEMMA CheckedKeeps ==
  ASSUME IntegrationTypes, IntegrationWhole, HealthChecked
  PROVE  IntegrationTypes' /\ IntegrationWhole'
<1>1. /\ integrationStep.step = "checking"
      /\ integrationStep' = [integrationStep EXCEPT !.step = "put"]
      /\ UNCHANGED <<configuredAs, instances, integrationRow, torn>>
  BY DEF HealthChecked
<1>2. /\ integrationStep'.step = "put" /\ integrationStep'.record = integrationStep.record
      /\ integrationStep'.enabled = integrationStep.enabled
      /\ DOMAIN integrationStep' = {"step", "record", "enabled"}
  BY <1>1 DEF IntegrationTypes
<1>3. IntegrationTypes'
  BY <1>1, <1>2 DEF IntegrationTypes
<1>4. ~torn => instances = Only(configuredAs, integrationStep.enabled)
  <2>1. ~torn => instances = Only(configuredAs, TRUE) /\ integrationStep.enabled
    BY <1>1 DEF IntegrationWhole
  <2>2. integrationStep.enabled => integrationStep.enabled = TRUE
    BY Zenon DEF IntegrationTypes
  <2> QED BY <2>1, <2>2, Zenon
<1>5. IntegrationWhole'
  BY <1>1, <1>2, <1>4 DEF IntegrationWhole
<1> QED BY <1>3, <1>5

\* A request that raises between two steps leaves the catalog torn.
LEMMA RaiseKeeps ==
  ASSUME IntegrationTypes, IntegrationWhole, RequestRaises
  PROVE  IntegrationTypes' /\ IntegrationWhole'
<1>1. integrationStep' = NoStep /\ torn' = TRUE /\ UNCHANGED <<configuredAs, instances, integrationRow>>
  BY DEF RequestRaises
<1>2. /\ integrationStep'.step = "none" /\ integrationStep'.record = NoRecord
      /\ integrationStep'.enabled = FALSE /\ DOMAIN integrationStep' = {"step", "record", "enabled"}
  BY <1>1 DEF Request, NoStep
<1>3. torn' \in BOOLEAN /\ integrationStep'.enabled \in BOOLEAN
  BY <1>1, <1>2, Zenon
<1>4. IntegrationTypes'
  BY <1>1, <1>2, <1>3, RecordParts DEF IntegrationTypes
<1>5. IntegrationWhole'
  BY <1>1, <1>2 DEF IntegrationWhole
<1> QED BY <1>4, <1>5

\* The row written, the request ends.
LEMMA PutKeeps ==
  ASSUME IntegrationTypes, IntegrationWhole, PutIntegration
  PROVE  IntegrationTypes' /\ IntegrationWhole'
<1>1. /\ integrationStep.step = "put"
      /\ integrationRow' = RowOf(integrationStep.record, integrationStep.enabled)
      /\ integrationStep' = NoStep /\ UNCHANGED <<configuredAs, instances, torn>>
  BY DEF PutIntegration
<1>2. integrationStep.record = configuredAs /\ configuredAs \in Records
  BY <1>1 DEF IntegrationWhole
<1>3. /\ integrationStep'.step = "none" /\ integrationStep'.record = NoRecord
      /\ integrationStep'.enabled = FALSE /\ DOMAIN integrationStep' = {"step", "record", "enabled"}
  BY <1>1 DEF Request, NoStep
<1>4. /\ integrationRow'.name = configuredAs.name /\ integrationRow'.config = configuredAs.config
      /\ integrationRow'.enabled = integrationStep.enabled
      /\ DOMAIN integrationRow' = {"name", "config", "enabled"}
  BY <1>1, <1>2 DEF RowOf
<1>5. IntegrationTypes'
  <2>1. integrationStep'.enabled \in BOOLEAN /\ integrationRow'.enabled \in BOOLEAN
    BY <1>3, <1>4, Zenon DEF IntegrationTypes
  <2>2. [name |-> integrationRow'.name, config |-> integrationRow'.config] \in MaybeRecord
        /\ integrationRow'.name \in Labels \cup {"none"}
    BY <1>2, <1>4, RecordParts DEF MaybeRecord
  <2>3. integrationStep'.step \in {"none", "closing", "checking", "put", "disabling"}
        /\ integrationStep'.record \in MaybeRecord
    BY <1>3, RecordParts
  <2> QED BY <2>1, <2>2, <2>3, <1>1, <1>3, <1>4, Zenon DEF IntegrationTypes
<1>6. ~torn => instances = LoadedInstances'
  BY <1>1, <1>4 DEF IntegrationWhole, LoadedInstances, Only
<1>7. [name |-> integrationRow'.name, config |-> integrationRow'.config] \in Records
  BY <1>2, <1>4, RecordParts
<1>8. IntegrationWhole'
  BY <1>1, <1>2, <1>3, <1>4, <1>6, <1>7 DEF IntegrationWhole
<1> QED BY <1>5, <1>8

\* The instance closed, disabling goes on to its row.
LEMMA DisabledKeeps ==
  ASSUME IntegrationTypes, IntegrationWhole, Disabled
  PROVE  IntegrationTypes' /\ IntegrationWhole'
<1>1. /\ integrationStep.step = "disabling"
      /\ integrationRow' = [integrationRow EXCEPT !.enabled = FALSE]
      /\ integrationStep' = NoStep /\ UNCHANGED <<configuredAs, instances, torn>>
  BY DEF Disabled
<1>2. /\ integrationStep'.step = "none" /\ integrationStep'.record = NoRecord
      /\ integrationStep'.enabled = FALSE /\ DOMAIN integrationStep' = {"step", "record", "enabled"}
  BY <1>1 DEF Request, NoStep
<1>3. /\ integrationRow'.name = integrationRow.name /\ integrationRow'.config = integrationRow.config
      /\ integrationRow'.enabled = FALSE /\ DOMAIN integrationRow' = {"name", "config", "enabled"}
  BY <1>1 DEF IntegrationTypes
<1>4. IntegrationTypes'
  <2>1. integrationStep'.enabled \in BOOLEAN /\ integrationRow'.enabled \in BOOLEAN
    BY <1>2, <1>3, Zenon
  <2> QED BY <2>1, <1>1, <1>2, <1>3, RecordParts DEF IntegrationTypes
<1>5. ~torn => instances = LoadedInstances'
  <2>1. configuredAs \in Records
    BY <1>1 DEF IntegrationWhole
  <2>2. ~torn => instances = [n \in Labels |-> 0]
    BY <1>1, <2>1, OnlyType DEF IntegrationWhole
  <2>3. LoadedInstances' = [n \in Labels |-> 0]
    BY <1>3 DEF LoadedInstances
  <2> QED BY <2>2, <2>3
<1>6. IntegrationWhole'
  BY <1>1, <1>2, <1>3, <1>5 DEF IntegrationWhole
<1> QED BY <1>4, <1>6

\* A restart rebuilds memory from the row.
LEMMA RestartWhole ==
  ASSUME IntegrationTypes, IntegrationWhole, NEW builds \in BOOLEAN, CatalogRestart(builds)
  PROVE  IntegrationTypes' /\ IntegrationWhole'
<1> DEFINE rec == [name |-> integrationRow.name, config |-> integrationRow.config]
<1>1. /\ configuredAs' = rec
      /\ instances' = IF builds THEN LoadedInstances ELSE [n \in Labels |-> 0]
      /\ integrationRow' = [integrationRow EXCEPT !.enabled = @ /\ builds]
      /\ integrationStep' = NoStep /\ torn' = FALSE
  BY DEF CatalogRestart
<1>2. /\ integrationStep'.step = "none" /\ integrationStep'.record = NoRecord
      /\ integrationStep'.enabled = FALSE /\ DOMAIN integrationStep' = {"step", "record", "enabled"}
  BY <1>1 DEF Request, NoStep
<1>3. /\ integrationRow'.name = integrationRow.name /\ integrationRow'.config = integrationRow.config
      /\ DOMAIN integrationRow' = {"name", "config", "enabled"}
  BY <1>1 DEF IntegrationTypes
<1>4. integrationRow'.enabled = (integrationRow.enabled /\ builds)
  BY <1>1 DEF IntegrationTypes
<1>5. integrationRow'.enabled \in BOOLEAN /\ integrationStep'.enabled \in BOOLEAN /\ torn' \in BOOLEAN
  BY <1>1, <1>2, <1>4, Zenon
<1>6. LoadedInstances \in [Labels -> 0..2]
  <2>1. rec \in MaybeRecord
    BY DEF IntegrationTypes
  <2>2. integrationRow.config \in 0..2
    BY <2>1, RecordParts DEF MaybeRecord
  <2> QED BY <2>2 DEF LoadedInstances
<1>7. IntegrationTypes'
  <2>1. configuredAs' \in MaybeRecord /\ instances' \in [Labels -> 0..2]
    BY <1>1, <1>6 DEF IntegrationTypes
  <2> QED BY <2>1, <1>2, <1>3, <1>5, RecordParts DEF IntegrationTypes
<1>8. instances' = LoadedInstances'
  BY <1>1, <1>3, <1>4 DEF LoadedInstances
<1>9. integrationRow'.enabled => configuredAs' \in Records /\ configuredAs'.name = integrationRow'.name
  <2> SUFFICES ASSUME integrationRow.enabled PROVE rec \in Records
    BY <1>1, <1>3, <1>4
  <2> QED BY DEF IntegrationWhole
<1>10. IntegrationWhole'
  BY <1>1, <1>2, <1>8, <1>9 DEF IntegrationWhole
<1> QED BY <1>7, <1>10

\* Steps on the skills leave the integration alone.
LEMMA IntegrationKept ==
  ASSUME IntegrationTypes, IntegrationWhole, UNCHANGED integrationVars
  PROVE  IntegrationTypes' /\ IntegrationWhole'
<1>1. UNCHANGED <<configuredAs, instances, integrationRow, integrationStep, torn>>
  BY DEF integrationVars
<1>2. IntegrationTypes'
  BY <1>1 DEF IntegrationTypes
<1>3. IntegrationWhole'
  BY <1>1 DEF IntegrationWhole, LoadedInstances
<1> QED BY <1>2, <1>3

\* Every step keeps the integration whole: one case per action on it.
LEMMA IntegrationStep ==
  ASSUME IntegrationTypes, IntegrationWhole, [CatalogNext]_catalogVars
  PROVE  IntegrationTypes' /\ IntegrationWhole'
<1>1. CASE UNCHANGED integrationVars
  BY <1>1, IntegrationKept
<1>2. CASE \E builds \in BOOLEAN : CatalogRestart(builds)
  BY <1>2, RestartWhole
<1>3. CASE \E rec \in Records : Configure(rec)
  BY <1>3, ConfigureKeeps
<1>4. CASE Enable \/ EnableFails \/ Disable
  BY <1>4, EnableIntegration, EnableFailing, DisableIntegration
<1>5. CASE InstanceReplaced \/ HealthChecked \/ RequestRaises \/ PutIntegration \/ Disabled
  BY <1>5, ReplacedKeeps, CheckedKeeps, RaiseKeeps, PutKeeps, DisabledKeeps
<1>6. CASE \E id \in SkillIds :
             \/ CreateSkill(id) \/ StoreSkill(id) \/ ClearTombstone(id)
             \/ \E b \in Bodies : PutSkill(id, b)
             \/ \E source \in {"builtin", "custom", "any"} : DeleteSkill(id, source)
             \/ DeleteSkillRow(id) \/ PackageCommand(id)
  <2>1. UNCHANGED integrationVars
    BY <1>6 DEF CreateSkill, StoreSkill, ClearTombstone, PutSkill, DeleteSkill, DeleteSkillRow,
                PackageCommand, SkillRequest
  <2> QED BY <2>1, <1>1
<1>7. CASE RefreshPackages
  BY <1>7, <1>1 DEF RefreshPackages
<1>8. CASE UNCHANGED catalogVars
  BY <1>8, <1>1 DEF catalogVars
<1> QED BY <1>2, <1>3, <1>4, <1>5, <1>6, <1>7, <1>8 DEF CatalogNext

-----------------------------------------------------------------------------

\* The types of the two catalogs and of the bound are the types.
LEMMA CatalogParts ==
  CatalogTypes <=> SkillTypes /\ IntegrationTypes /\ catalogEdits \in 0..MaxCatalogEdits
<1>1. CatalogTypes => SkillTypes
  BY DEF CatalogTypes, CatalogTypeOK, SkillTypes, SkillType
<1>2. CatalogTypes => IntegrationTypes /\ catalogEdits \in 0..MaxCatalogEdits
  BY DEF CatalogTypes, CatalogTypeOK, IntegrationTypes, MaybeRecord
<1>3. ASSUME SkillTypes, IntegrationTypes, catalogEdits \in 0..MaxCatalogEdits PROVE CatalogTypes
  <2>1. CatalogTypeOK
    BY <1>3 DEF CatalogTypeOK, SkillTypes, SkillType, IntegrationTypes, MaybeRecord
  <2> QED BY <2>1, <1>3 DEF CatalogTypes, IntegrationTypes
<1> QED BY <1>1, <1>2, <1>3

\* The initial state satisfies the invariant.
LEMMA CatalogInitInv == CatalogInit => CatalogInv
<1> SUFFICES ASSUME CatalogInit PROVE CatalogInv
  OBVIOUS
<1> DEFINE first(id) == IF id \in Builtins THEN Skill("builtin", 1) ELSE NoSkill
<1>1. /\ skillRows = [id \in SkillIds |-> first(id)] /\ skills = skillRows
      /\ tombstones = {} /\ customs = {} /\ skillSteps = [id \in SkillIds |-> "none"]
      /\ packaged \in SUBSET SkillIds /\ packages = packaged
  BY DEF CatalogInit
<1>2. Skill("builtin", 1) \in SkillType /\ Skill("builtin", 1).source = "builtin"
  BY SkillIsSkill DEF Bodies
<1>3. SkillTypes
  BY <1>1, <1>2, NoSkillType DEF SkillTypes
<1>4. ASSUME NEW id \in SkillIds PROVE SkillWhole(id)
  <2>1. skills[id] = first(id) /\ skillRows[id] = first(id) /\ skillSteps[id] = "none"
    BY <1>1
  <2>2. LoadedSkill(id).body = first(id).body
    BY <2>1, <1>1 DEF LoadedSkill, Skill, NoSkill
  <2> QED BY <2>1, <2>2, <1>2 DEF SkillWhole
<1>5. /\ configuredAs = NoRecord /\ instances = [n \in Labels |-> 0]
      /\ integrationRow = NoIntegration /\ integrationStep = NoStep /\ torn = FALSE
      /\ catalogEdits = 0
  BY DEF CatalogInit
<1>6. /\ integrationStep.step = "none" /\ integrationStep.record = NoRecord
      /\ integrationStep.enabled = FALSE /\ DOMAIN integrationStep = {"step", "record", "enabled"}
      /\ integrationRow.name = "none" /\ integrationRow.config = 0 /\ integrationRow.enabled = FALSE
      /\ DOMAIN integrationRow = {"name", "config", "enabled"}
  BY <1>5 DEF NoStep, NoIntegration, RowOf, NoRecord
<1>7. torn \in BOOLEAN /\ integrationStep.enabled \in BOOLEAN /\ integrationRow.enabled \in BOOLEAN
  BY <1>5, <1>6, Zenon
<1>8. IntegrationTypes
  BY <1>5, <1>6, <1>7, RecordParts DEF IntegrationTypes
<1>9. IntegrationWhole
  BY <1>5, <1>6 DEF IntegrationWhole, LoadedInstances
<1>10. catalogEdits \in 0..MaxCatalogEdits
  BY <1>5, CatalogAssumption
<1>11. CatalogTypes /\ SkillsWhole
  BY <1>3, <1>4, <1>8, <1>10, CatalogParts DEF SkillsWhole, SkillWhole
<1> QED BY <1>9, <1>11 DEF CatalogInv

\* Every step keeps the invariant.
LEMMA CatalogInvStep == CatalogInv /\ [CatalogNext]_catalogVars => CatalogInv'
<1> SUFFICES ASSUME CatalogInv, [CatalogNext]_catalogVars PROVE CatalogInv'
  OBVIOUS
<1>1. IntegrationTypes /\ IntegrationWhole /\ catalogEdits \in 0..MaxCatalogEdits
  BY CatalogParts DEF CatalogInv
<1>2. SkillTypes' /\ SkillsWhole'
  BY SkillsStep
<1>3. IntegrationTypes' /\ IntegrationWhole'
  BY <1>1, IntegrationStep
<1>4. catalogEdits' \in 0..MaxCatalogEdits
  <2>1. catalogEdits' = catalogEdits \/ (catalogEdits < MaxCatalogEdits /\ catalogEdits' = catalogEdits + 1)
    BY DEF CatalogNext, catalogVars, CatalogEdit, SkillRequest, IntegrationRequest, CatalogRestart,
           CreateSkill, PutSkill, StoreSkill, ClearTombstone, DeleteSkill, DeleteSkillRow,
           PackageCommand, RefreshPackages, Configure, Enable, EnableFails, Disable,
           InstanceReplaced, HealthChecked, RequestRaises, PutIntegration, Disabled
  <2> QED BY <2>1, <1>1, CatalogAssumption
<1>5. CatalogTypes'
  BY <1>2, <1>3, <1>4, CatalogParts DEF CatalogTypes, CatalogTypeOK, SkillTypes, SkillType,
     IntegrationTypes, MaybeRecord
<1> QED BY <1>2, <1>3, <1>5 DEF CatalogInv

\* The invariant holds in every state of every behaviour of the two catalogs.
THEOREM CatalogInvariant == CatalogSpec => []CatalogInv
BY CatalogInitInv, CatalogInvStep, PTL DEF CatalogSpec

\* Whatever requests on skills and the integration do in memory and, behind an await, in the
\* tables, a restart without one under way changes nothing (_load_application_state).
THEOREM RestartKeepsCatalogAlways == CatalogSpec => []RestartKeepsCatalog
<1>1. CatalogInv => RestartKeepsCatalog
  <2> SUFFICES ASSUME CatalogInv PROVE RestartKeepsCatalog
    OBVIOUS
  <2>1. \A id \in SkillIds \ customs :
          skillSteps[id] = "none" => LoadedSkill(id).body = skills[id].body
    BY DEF CatalogInv, SkillsWhole
  <2>2. integrationStep = NoStep /\ ~torn => LoadedInstances = instances
    BY DEF CatalogInv, IntegrationWhole, NoStep
  <2> QED BY <2>1, <2>2 DEF RestartKeepsCatalog
<1> QED BY <1>1, CatalogInvariant, PTL

=============================================================================
