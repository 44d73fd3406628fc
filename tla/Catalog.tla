------------------------------- MODULE Catalog -------------------------------
(***************************************************************************)
(* Two catalogs that the daemon keeps in memory and in tables: the skills  *)
(* (runtime/skills.py, create_skill ... delete_skill of app/service.py)    *)
(* and the integrations (configure_integration ... disable_integration).   *)
(* Handlers change the memory first and the tables behind an await;        *)
(* _load_application_state builds the memory from the tables again, and    *)
(* puts back the skills that come with the program.                        *)
(*                                                                         *)
(* A skill, and the integration, is changed by one request at a time.  The *)
(* skill packages are directories that another program installs.           *)
(***************************************************************************)
EXTENDS Naturals

CONSTANTS
  SkillIds,    \* ids of skills
  Builtins,    \* those with a directory in builtin_skills
  Labels,      \* names an integration can be given; its type is one of them
  DefaultName, \* integration_type
  MaxCatalogEdits \* bound: requests and restarts

ASSUME CatalogAssumption ==
  Builtins \subseteq SkillIds /\ DefaultName \in Labels /\ MaxCatalogEdits \in Nat

VARIABLES
  skills,      \* runtime.skills: id -> [source, body] or NoSkill
  skillRows,   \* app_skills
  tombstones,  \* app_skill_tombstones
  skillSteps,  \* what is left of the request on the skill: "none", "put", "clear" or "delete"
  packaged,    \* the directories of ~/.agents/skills
  packages,    \* runtime.package_skills
  customs,     \* ids of built-in skills deleted as custom ones since the start
  configuredAs, \* integration_records: [name, config] or NoRecord
  instances,   \* runtime.integrations: name -> config, 0 for none
  integrationRow, \* app_integrations: [name, config, enabled] or NoRow
  integrationStep, \* the request on the integration: its step and what it has read
  torn,        \* a request has raised, or a running instance was renamed
  catalogEdits  \* bound: requests and restarts so far

skillCatalogVars == <<skills, skillRows, tombstones, skillSteps, packaged, packages, customs>>
integrationVars == <<configuredAs, instances, integrationRow, integrationStep, torn>>
catalogVars == <<skillCatalogVars, integrationVars, catalogEdits>>

NoSkill == [source |-> "none", body |-> 0]
Skill(source, body) == [source |-> source, body |-> body]
Default == [name |-> DefaultName, config |-> 1]
NoRecord == [name |-> "none", config |-> 0]
RowOf(rec, enabled) == [name |-> rec.name, config |-> rec.config, enabled |-> enabled]
NoIntegration == RowOf(NoRecord, FALSE)
NoStep == [step |-> "none", record |-> NoRecord, enabled |-> FALSE]
Request(step, rec, enabled) == [step |-> step, record |-> rec, enabled |-> enabled]

Bodies == {1, 2}  \* as shipped, and edited
Records == [name : Labels, config : {1, 2}]

CatalogEdit == catalogEdits < MaxCatalogEdits /\ catalogEdits' = catalogEdits + 1

CatalogTypeOK ==
  /\ skills \in [SkillIds -> [source : {"none", "builtin", "custom"}, body : {0} \cup Bodies]]
  /\ skillRows \in [SkillIds -> [source : {"none", "builtin", "custom"}, body : {0} \cup Bodies]]
  /\ tombstones \subseteq SkillIds /\ customs \subseteq Builtins
  /\ skillSteps \in [SkillIds -> {"none", "put", "clear", "delete"}]
  /\ packaged \subseteq SkillIds /\ packages \subseteq SkillIds
  /\ configuredAs \in Records \cup {NoRecord}
  /\ instances \in [Labels -> 0..2]
  /\ integrationRow.name \in Labels \cup {"none"}
  /\ integrationStep.step \in {"none", "closing", "checking", "put", "disabling"}
  /\ torn \in BOOLEAN /\ catalogEdits \in 0..MaxCatalogEdits

-----------------------------------------------------------------------------
(* _load_application_state.                                                *)

\* A built-in skill without a row comes back unless its deletion left a tombstone; a row with
\* the id of a built-in skill is one, whoever wrote it.
LoadedSkill(id) ==
  IF id \in Builtins
  THEN IF skillRows[id] # NoSkill THEN Skill("builtin", skillRows[id].body)
       ELSE IF id \in tombstones THEN NoSkill ELSE Skill("builtin", 1)
  ELSE skillRows[id]

LoadedInstances ==
  [n \in Labels |-> IF integrationRow.enabled /\ integrationRow.name = n
                    THEN integrationRow.config ELSE 0]

CatalogInit ==
  /\ skillRows = [id \in SkillIds |-> IF id \in Builtins THEN Skill("builtin", 1) ELSE NoSkill]
  /\ skills = skillRows /\ tombstones = {} /\ customs = {}
  /\ skillSteps = [id \in SkillIds |-> "none"]
  /\ packaged \in SUBSET SkillIds /\ packages = packaged
  /\ configuredAs = NoRecord /\ instances = [n \in Labels |-> 0]
  /\ integrationRow = NoIntegration /\ integrationStep = NoStep /\ torn = FALSE
  /\ catalogEdits = 0

\* The daemon dies between any two steps and starts again; an integration that cannot be built
\* is marked as disabled.
CatalogRestart(builds) ==
  /\ CatalogEdit
  /\ skills' = [id \in SkillIds |-> LoadedSkill(id)]
  /\ skillRows' = [id \in SkillIds |->
                   IF LoadedSkill(id) # NoSkill THEN LoadedSkill(id) ELSE skillRows[id]]
  /\ skillSteps' = [id \in SkillIds |-> "none"]
  /\ packages' = packaged /\ customs' = {}
  /\ configuredAs' = [name |-> integrationRow.name, config |-> integrationRow.config]
  /\ instances' = IF builds THEN LoadedInstances ELSE [n \in Labels |-> 0]
  /\ integrationRow' = [integrationRow EXCEPT !.enabled = @ /\ builds]
  /\ integrationStep' = NoStep /\ torn' = FALSE
  /\ UNCHANGED <<tombstones, packaged>>

-----------------------------------------------------------------------------
(* Skills.                                                                 *)

SkillRequest(id) == CatalogEdit /\ skillSteps[id] = "none" /\ UNCHANGED integrationVars

\* resolve_catalog: the ids of the managed skills and of the packages; one that is both is a
\* conflict and of no use.
InCatalog(id) == skills[id] # NoSkill \/ id \in packages

\* create_skill: the catalog has no skill of the id.
CreateSkill(id) ==
  /\ SkillRequest(id)
  /\ ~InCatalog(id)
  /\ skills' = [skills EXCEPT ![id] = Skill("custom", 2)]
  /\ skillSteps' = [skillSteps EXCEPT ![id] = "put"]
  /\ UNCHANGED <<skillRows, tombstones, packaged, packages, customs>>

\* put_skill keeps the source.
PutSkill(id, body) ==
  /\ SkillRequest(id)
  /\ skills[id] # NoSkill
  /\ skills' = [skills EXCEPT ![id].body = body]
  /\ skillSteps' = [skillSteps EXCEPT ![id] = "put"]
  /\ UNCHANGED <<skillRows, tombstones, packaged, packages, customs>>

StoreSkill(id) ==
  /\ skillSteps[id] = "put"
  /\ skillRows' = [skillRows EXCEPT ![id] = skills[id]]
  /\ skillSteps' = [skillSteps EXCEPT ![id] = "clear"]
  /\ UNCHANGED <<skills, tombstones, packaged, packages, customs, integrationVars, catalogEdits>>

ClearTombstone(id) ==
  /\ skillSteps[id] = "clear"
  /\ tombstones' = tombstones \ {id}
  /\ skillSteps' = [skillSteps EXCEPT ![id] = "none"]
  /\ UNCHANGED <<skills, skillRows, packaged, packages, customs, integrationVars, catalogEdits>>

\* delete_skill of a managed skill: an id that is a package too needs its source.
DeleteSkill(id, source) ==
  /\ SkillRequest(id)
  /\ skills[id] # NoSkill
  /\ source = skills[id].source \/ (source = "any" /\ id \notin packages)
  /\ skills' = [skills EXCEPT ![id] = NoSkill]
  /\ customs' = IF skills[id].source = "custom" /\ id \in Builtins
                 THEN customs \cup {id} ELSE customs \ {id}
  /\ skillSteps' = [skillSteps EXCEPT ![id] = "delete"]
  /\ UNCHANGED <<skillRows, tombstones, packaged, packages>>

\* mistake: the row is deleted and nothing remembers it.
ForgetsDeleted(id) == UNCHANGED tombstones

\* A built-in skill leaves a tombstone, a custom one takes it away.
Tombstone(id) ==
  tombstones' = IF id \in Builtins /\ id \notin customs
                THEN tombstones \cup {id} ELSE tombstones \ {id}

\* The transaction of delete_skill.
DeleteSkillRow(id) ==
  /\ skillSteps[id] = "delete"
  /\ skillRows' = [skillRows EXCEPT ![id] = NoSkill]
  /\ Tombstone(id)
  /\ skillSteps' = [skillSteps EXCEPT ![id] = "none"]
  /\ UNCHANGED <<skills, packaged, packages, customs, integrationVars, catalogEdits>>

\* run_package_command: npx adds or removes directories, and a command that fails raises.
PackageCommand(id) ==
  /\ CatalogEdit
  /\ packaged' = IF id \in packaged THEN packaged \ {id} ELSE packaged \cup {id}
  /\ UNCHANGED <<skills, skillRows, tombstones, skillSteps, packages, customs, integrationVars>>

\* refresh_package_skills; a discovery that fails leaves the list as it is.
RefreshPackages ==
  /\ packages' = packaged
  /\ UNCHANGED <<skills, skillRows, tombstones, skillSteps, packaged, customs, integrationVars,
                 catalogEdits>>

-----------------------------------------------------------------------------
(* The integration.                                                        *)

IntegrationRequest == CatalogEdit /\ integrationStep = NoStep /\ UNCHANGED skillCatalogVars

Running(name) == instances[name] # 0

\* configure_integration: an instance of the record's name is replaced by a new one.
Configure(rec) ==
  /\ IntegrationRequest
  /\ configuredAs' = rec
  /\ integrationStep' = Request(IF Running(rec.name) THEN "closing" ELSE "put",
                               rec, Running(rec.name))
  /\ instances' = [instances EXCEPT ![rec.name] = 0]
  /\ torn' = (torn \/ (/\ configuredAs # NoRecord /\ rec.name # configuredAs.name
                      /\ Running(configuredAs.name)))
  /\ UNCHANGED integrationRow

\* The instance is closed; the new one has its health checked.
InstanceReplaced ==
  /\ integrationStep.step = "closing"
  /\ instances' = [instances EXCEPT ![integrationStep.record.name] = integrationStep.record.config]
  /\ integrationStep' = [integrationStep EXCEPT !.step = "checking"]
  /\ UNCHANGED <<skillCatalogVars, configuredAs, integrationRow, torn, catalogEdits>>

\* enable_configured_integration: the record, or a default one.
Enable ==
  LET rec == IF configuredAs = NoRecord THEN Default ELSE configuredAs IN
  /\ IntegrationRequest
  /\ configuredAs' = rec
  /\ instances' = [instances EXCEPT ![rec.name] = rec.config]
  /\ integrationStep' = Request("checking", rec, TRUE)
  /\ UNCHANGED <<integrationRow, torn>>

HealthChecked ==
  /\ integrationStep.step = "checking"
  /\ integrationStep' = [integrationStep EXCEPT !.step = "put"]
  /\ UNCHANGED <<skillCatalogVars, configuredAs, instances, integrationRow, torn, catalogEdits>>

\* The new instance cannot be built: the row says disabled, a running one of the name stays.
EnableFails ==
  LET rec == IF configuredAs = NoRecord THEN Default ELSE configuredAs IN
  /\ IntegrationRequest
  /\ configuredAs' = rec
  /\ integrationStep' = Request("put", rec, FALSE)
  /\ torn' = (torn \/ Running(rec.name))
  /\ UNCHANGED <<instances, integrationRow>>

\* close, the new instance or its health check raises: the request ends in front of
\* put_integration.
RequestRaises ==
  /\ integrationStep.step \in {"closing", "checking"}
  /\ integrationStep' = NoStep /\ torn' = TRUE
  /\ UNCHANGED <<skillCatalogVars, configuredAs, instances, integrationRow, catalogEdits>>

PutIntegration ==
  /\ integrationStep.step = "put"
  /\ integrationRow' = RowOf(integrationStep.record, integrationStep.enabled)
  /\ integrationStep' = NoStep
  /\ UNCHANGED <<skillCatalogVars, configuredAs, instances, torn, catalogEdits>>

\* disable_integration: the instance is popped, closed, and the row says so.
Disable ==
  /\ IntegrationRequest
  /\ configuredAs # NoRecord
  /\ instances' = [instances EXCEPT ![configuredAs.name] = 0]
  /\ integrationStep' = Request("disabling", configuredAs, FALSE)
  /\ UNCHANGED <<configuredAs, integrationRow, torn>>

\* set_integration_enabled changes a row that is there.
Disabled ==
  /\ integrationStep.step = "disabling"
  /\ integrationRow' = [integrationRow EXCEPT !.enabled = FALSE]
  /\ integrationStep' = NoStep
  /\ UNCHANGED <<skillCatalogVars, configuredAs, instances, torn, catalogEdits>>

CatalogNext ==
  \/ \E builds \in BOOLEAN : CatalogRestart(builds)
  \/ \E id \in SkillIds :
       \/ CreateSkill(id) \/ StoreSkill(id) \/ ClearTombstone(id)
       \/ \E body \in Bodies : PutSkill(id, body)
       \/ \E source \in {"builtin", "custom", "any"} : DeleteSkill(id, source)
       \/ DeleteSkillRow(id) \/ PackageCommand(id)
  \/ RefreshPackages
  \/ \E rec \in Records : Configure(rec)
  \/ Enable \/ EnableFails \/ Disable
  \/ InstanceReplaced \/ HealthChecked \/ RequestRaises \/ PutIntegration \/ Disabled

CatalogSpec == CatalogInit /\ [][CatalogNext]_catalogVars

-----------------------------------------------------------------------------

\* When no request is under way a restart changes nothing: it finds every skill with the body
\* it had, what was deleted stays deleted, built-in skills too, and the integration runs with
\* the configuration it ran with, or not at all.  Not so for a built-in skill that was deleted,
\* created anew and deleted again, nor for an integration that was renamed while it ran, or
\* of which a request has raised or an instance could not be built.
RestartKeepsCatalog ==
  /\ \A id \in SkillIds \ customs :
       skillSteps[id] = "none" => LoadedSkill(id).body = skills[id].body
  /\ integrationStep = NoStep /\ ~torn => LoadedInstances = instances
=============================================================================
