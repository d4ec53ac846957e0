---------------------------- MODULE Registration ----------------------------
(***************************************************************************)
(* What the server knows about the agent's identity: the asset it is       *)
(* registered as and the token it has launched.  Both live in three        *)
(* places, the environment, agent-state.json (state.ts) and the memoised   *)
(* configuration (config.ts), and change when the toolkit's register-agent *)
(* and launch-token call back (tool-host-context.ts) after the agent's     *)
(* wallet was funded (funding.ts).  The owner of the asset is looked up    *)
(* and cached by resolveOwner (owner-resolution.ts).                       *)
(*                                                                         *)
(* AgentIdentity is what the tools that act on the asset rely on; this     *)
(* module implements it.                                                   *)
(***************************************************************************)
EXTENDS Naturals

CONSTANTS
  Asset,      \* addresses register-agent may mint
  Mint,       \* addresses launch-token may mint
  Job,        \* calls of register-agent and launch-token that may be under way
  Mode,       \* AGENT_MODE
  Bootstrap,  \* whether BOOTSTRAP_WALLET is set
  None,       \* undefined, null
  NoConfig,   \* config.ts's _config before the first getConfig: no process
  Malformed   \* a file JSON.parse refuses

ASSUME ConstantsAssumption ==
  /\ Mode \in {"public", "autonomous"}
  /\ Bootstrap \in BOOLEAN
  /\ None \notin Asset \cup Mint
  /\ NoConfig \notin Asset \cup {None}

Field == {"asset", "mint"}
Identity == [asset : Asset \cup {None}, mint : Mint \cup {None}]

\* The two are no identities: model values of their own.
ASSUME NoIdentity == {NoConfig, Malformed} \cap Identity = {}

VARIABLES
  env,         \* AGENT_ASSET_ADDRESS and AGENT_TOKEN_MINT in the environment
  file,        \* the same fields of agent-state.json
  config,      \* the same fields of _config
  minted,      \* external: the assets on chain
  funded,      \* external: the agent's keypair holds what it needs to register
  job,         \* job[j]: where a registration or a launch is, and what it has minted
  ownerCache,  \* the asset whose owner ownerCache holds
  lookups,     \* the keys of inflightLookups
  told,        \* history: <<asset asked for, asset whose owner was the answer>>
  edited       \* history: someone has edited the file since the process began

identity == <<env, file, config, edited>>
owners   == <<ownerCache, lookups, told>>
vars  == <<identity, minted, funded, job, owners>>

Stage == {"idle", "funding", "topup", "minting", "minted", "launching"}

TypeOK ==
  /\ env \in Identity
  /\ file \in Identity \cup {Malformed}
  /\ config \in Identity \cup {NoConfig}
  /\ minted \subseteq Asset
  /\ funded \in BOOLEAN
  /\ job \in [Job -> [stage : Stage, asset : Asset \cup {None}]]
  /\ ownerCache \in Asset \cup {None}
  /\ lookups \subseteq Asset
  /\ told \subseteq Asset \X Asset
  /\ edited \in BOOLEAN

NoIdentityYet == [asset |-> None, mint |-> None]
Idle == [stage |-> "idle", asset |-> None]
Up == config # NoConfig

Init ==
  /\ env \in Identity
  /\ file \in Identity
  /\ config = NoConfig
  /\ minted = ({env.asset, file.asset} \ {None})
  /\ funded = FALSE
  /\ job = [j \in Job |-> Idle]
  /\ ownerCache = None
  /\ lookups = {}
  /\ told = {}
  /\ edited = FALSE

-----------------------------------------------------------------------------
(***************************************************************************)
(* state.ts and config.ts.                                                 *)
(***************************************************************************)

\* A file that is missing or malformed counts as empty.
GetState == IF file = Malformed THEN NoIdentityYet ELSE file

\* getConfig: the environment first, then the file.
Resolved == [f \in Field |-> IF env[f] # None THEN env[f] ELSE GetState[f]]

\* FAULT: fields the process has already are not brought up to date.
ConfigFromKept(state) == [f \in Field |-> IF config[f] # None THEN config[f] ELSE state[f]]

\* FAULT: fields the file lacks are taken over as well.
ConfigFromWhole(state) == [f \in Field |-> state[f]]

\* updateConfigFromState: what the file has replaces what the process had.
ConfigFrom(state) == [f \in Field |-> IF state[f] # None THEN state[f] ELSE config[f]]

\* The gate that stops an autonomous agent nobody could reach.
MayStart(c) == Mode = "autonomous" => c.asset # None \/ Bootstrap

Boot ==
  /\ ~Up
  /\ MayStart(Resolved)
  /\ config' = Resolved
  /\ edited' = FALSE
  /\ UNCHANGED <<env, file, minted, funded, job, owners>>

\* The process ends; what is on disk and on chain stays.
Crash ==
  /\ Up
  /\ config' = NoConfig
  /\ job' = [j \in Job |-> Idle]
  /\ ownerCache' = None
  /\ lookups' = {}
  /\ UNCHANGED <<env, file, edited, minted, funded, told>>

\* While the process is down the operator may change the environment, for one
\* to the line printRegistrationBanner asks for.
EditEnv(e) ==
  /\ ~Up
  /\ e \in Identity
  /\ e.asset \in minted \cup {None}
  /\ env' = e
  /\ UNCHANGED <<file, config, edited, minted, funded, job, owners>>

\* The file is edited, spoiled, or lost with the container's disk.
EditFile(f) ==
  /\ f \in Identity \cup {Malformed}
  /\ f # Malformed => f.asset \in minted \cup {None}
  /\ file' = f
  /\ edited' = Up
  /\ UNCHANGED <<env, config, minted, funded, job, owners>>

\* Any other write of state.ts (journal, goals, pause) writes back what it read.
OtherWrite ==
  /\ Up
  /\ file' = GetState
  /\ UNCHANGED <<env, config, edited, minted, funded, job, owners>>

-----------------------------------------------------------------------------
(***************************************************************************)
(* register-agent and launch-token: external tools with the callbacks of   *)
(* buildToolHostContext.                                                   *)
(***************************************************************************)

At(j, stage) == job[j].stage = stage
Goto(j, stage) == job' = [job EXCEPT ![j] = [stage |-> stage, asset |-> None]]

\* A turn whose context says the agent is not registered.
StartRegister(j) ==
  /\ Up /\ At(j, "idle")
  /\ config.asset = None
  /\ Goto(j, "funding")
  /\ UNCHANGED <<identity, minted, funded, owners>>

\* ensureAgentFunded: enough, or a request to the connected wallet, or an error.
EnsureAgentFunded(j) ==
  /\ At(j, "funding")
  /\ Goto(j, IF funded THEN "minting" ELSE IF Mode = "public" THEN "topup" ELSE "idle")
  /\ UNCHANGED <<identity, minted, funded, owners>>

\* The wallet may pay or not, and answer, refuse or let the approval time out.
\* After an answer the agent goes on, whether or not the balance has appeared.
TopUpAnswered(j) ==
  /\ At(j, "topup")
  /\ \E paid \in BOOLEAN : funded' = (funded \/ paid)
  /\ Goto(j, "minting") \/ Goto(j, "idle")
  /\ UNCHANGED <<identity, minted, owners>>

Mints(j) ==
  /\ At(j, "minting")
  /\ funded
  /\ \E a \in Asset \ minted :
       /\ minted' = minted \cup {a}
       /\ job' = [job EXCEPT ![j] = [stage |-> "minted", asset |-> a]]
  /\ funded' \in BOOLEAN
  /\ UNCHANGED <<identity, owners>>

MintFails(j) ==
  /\ At(j, "minting")
  /\ Goto(j, "idle")
  /\ UNCHANGED <<identity, minted, funded, owners>>

OnAssetRegistered(j) ==
  /\ At(j, "minted")
  /\ file' = [GetState EXCEPT !.asset = job[j].asset]
  /\ config' = ConfigFrom(file')
  /\ ownerCache' = None
  /\ Goto(j, "idle")
  /\ UNCHANGED <<env, edited, minted, funded, lookups, told>>

\* One token per agent.
StartLaunch(j) ==
  /\ Up /\ At(j, "idle")
  /\ config.asset # None
  /\ config.mint = None
  /\ Goto(j, "launching")
  /\ UNCHANGED <<identity, minted, funded, owners>>

LaunchFails(j) ==
  /\ At(j, "launching")
  /\ Goto(j, "idle")
  /\ UNCHANGED <<identity, minted, funded, owners>>

OnTokenLaunched(j) ==
  /\ At(j, "launching")
  /\ \E m \in Mint : file' = [GetState EXCEPT !.mint = m]
  /\ config' = ConfigFrom(file')
  /\ Goto(j, "idle")
  /\ UNCHANGED <<env, edited, minted, funded, owners>>

-----------------------------------------------------------------------------
(***************************************************************************)
(* resolveOwner, which sign-ins and administration call with the           *)
(* configured asset.  Transfers of the asset are the Handshake module's.   *)
(***************************************************************************)

CachedFor(a) == ownerCache = a

\* Without an asset the answer is BOOTSTRAP_WALLET, and nothing is kept.
ResolveOwner ==
  /\ Up
  /\ config.asset # None
  /\ IF CachedFor(config.asset)
       THEN /\ told' = told \cup {<<config.asset, ownerCache>>}
            /\ UNCHANGED lookups
       ELSE /\ lookups' = lookups \cup {config.asset}
            /\ UNCHANGED told
  /\ UNCHANGED <<identity, minted, funded, job, ownerCache>>

LookupReturns(a) ==
  /\ a \in lookups
  /\ lookups' = lookups \ {a}
  /\ ownerCache' = a
  /\ told' = told \cup {<<a, a>>}
  /\ UNCHANGED <<identity, minted, funded, job>>

LookupFails(a) ==
  /\ a \in lookups
  /\ lookups' = lookups \ {a}
  /\ UNCHANGED <<identity, minted, funded, job, ownerCache, told>>

CacheExpires ==
  /\ ownerCache' = None
  /\ UNCHANGED <<identity, minted, funded, job, lookups, told>>

-----------------------------------------------------------------------------

Next ==
  \/ Boot
  \/ Crash
  \/ \E e \in Identity : EditEnv(e)
  \/ \E f \in Identity \cup {Malformed} : EditFile(f)
  \/ OtherWrite
  \/ \E j \in Job :
       \/ StartRegister(j) \/ EnsureAgentFunded(j) \/ TopUpAnswered(j)
       \/ Mints(j) \/ MintFails(j) \/ OnAssetRegistered(j)
       \/ StartLaunch(j) \/ LaunchFails(j) \/ OnTokenLaunched(j)
  \/ ResolveOwner
  \/ \E a \in Asset : LookupReturns(a) \/ LookupFails(a)
  \/ CacheExpires

Spec == Init /\ [][Next]_vars

-----------------------------------------------------------------------------
(***************************************************************************)
(* Properties.                                                             *)
(***************************************************************************)

\* As long as nobody else touches the file, a field the environment leaves open
\* is in memory what it is on disk, so that a restart changes nothing, after any
\* order of registrations, launches and crashes.
ConfigFollowsFile ==
  Up /\ ~edited => \A f \in Field : env[f] = None => config[f] = GetState[f]

\* resolveOwner answers with the owner of the asset it was asked for, although
\* the configured asset changes while lookups are in flight and not every change
\* clears the cache.
OwnerOfAsset == \A answer \in told : answer[1] = answer[2]

\* A registration or launch under way belongs to a running process, and holds an
\* asset exactly when it has minted one.
JobsServed ==
  \A j \in Job :
    /\ job[j].stage # "idle" => Up
    /\ job[j].asset # None <=> job[j].stage = "minted"

RegistrationInv ==
  TypeOK /\ ConfigFollowsFile /\ OwnerOfAsset /\ JobsServed

\* What the tools see of all this: the configured asset comes with the process,
\* changes to another one, and is never lost while the process runs.
Agent ==
  INSTANCE AgentIdentity
    WITH Down <- NoConfig, registered <- IF Up THEN config.asset ELSE NoConfig

ImplementsIdentity == Agent!IdentitySpec

-----------------------------------------------------------------------------
(***************************************************************************)
(* What the documentation says and the code does not do.                   *)
(***************************************************************************)

\* docs/SPEC.md:203-204: "Resolution order (for both fields): 1. .env value
\* (operator override, always wins)".  updateConfigFromState replaces both
\* fields by those of the file: launching a token, in a process whose environment
\* names another asset than an older agent-state.json, turns it into the agent of
\* the file.
EnvWins == Up => \A f \in Field : env[f] # None => config[f] = env[f]
=============================================================================
