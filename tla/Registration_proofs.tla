------------------------- MODULE Registration_proofs -------------------------
(***************************************************************************)
(* Proofs about Registration, for any assets, tokens and calls under way.  *)
(* RegistrationInv is inductive as it stands: a write of the file takes    *)
(* the field it does not change from the file, and what the file leaves    *)
(* open the process had left open too.  The refinement of AgentIdentity    *)
(* then needs only that a job that has minted holds an asset.              *)
(***************************************************************************)
EXTENDS Registration, TLAPS

LEMMA GetStateType == ASSUME TypeOK PROVE GetState \in Identity
BY DEF GetState, TypeOK, NoIdentityYet, Identity

LEMMA ResolvedType == ASSUME TypeOK PROVE Resolved \in Identity
<1>1. Resolved.asset \in Asset \cup {None} /\ Resolved.mint \in Mint \cup {None}
  BY GetStateType DEF Resolved, Field, TypeOK, Identity
<1>2. Resolved = [asset |-> Resolved.asset, mint |-> Resolved.mint]
  BY DEF Resolved, Field
<1>3. QED
  BY <1>1, <1>2 DEF Identity

LEMMA InitInv == ASSUME Init PROVE RegistrationInv
<1>1. TypeOK
  BY DEF Init, TypeOK, Identity, Idle, Stage
<1>2. ConfigFollowsFile /\ OwnerOfAsset /\ JobsServed
  BY DEF Init, Up, Idle, ConfigFollowsFile, OwnerOfAsset, JobsServed
<1>3. QED
  BY <1>1, <1>2 DEF RegistrationInv

\* A process starts: it takes from the file what the environment leaves open.
LEMMA BootInv == ASSUME RegistrationInv, Boot PROVE RegistrationInv'
<1>1. GetState \in Identity /\ GetState' = GetState
  BY GetStateType DEF RegistrationInv, Boot, GetState
<1>2. /\ config' = Resolved
      /\ UNCHANGED <<env, file, minted, funded, job, ownerCache, lookups, told>>
      /\ edited' = FALSE /\ ~Up
  BY DEF Boot, owners
<1>3. Resolved \in Identity
  BY ResolvedType DEF RegistrationInv
<1>4. TypeOK'
  BY <1>2, <1>3 DEF RegistrationInv, TypeOK
<1>5. ConfigFollowsFile'
  BY <1>1, <1>2 DEF ConfigFollowsFile, Resolved
<1>6. OwnerOfAsset' /\ JobsServed'
  BY <1>2 DEF RegistrationInv, OwnerOfAsset, JobsServed
<1>7. QED
  BY <1>4, <1>5, <1>6 DEF RegistrationInv

LEMMA CrashInv == ASSUME RegistrationInv, Crash PROVE RegistrationInv'
<1>1. TypeOK'
  BY DEF Crash, Idle, Stage, RegistrationInv, TypeOK
<1>2. ConfigFollowsFile' /\ OwnerOfAsset' /\ JobsServed'
  BY DEF Crash, Idle, Up, RegistrationInv, ConfigFollowsFile, OwnerOfAsset, JobsServed
<1>3. QED
  BY <1>1, <1>2 DEF RegistrationInv

\* What the operator edits, the invariant leaves alone until the next start; other
\* writes of state.ts keep both fields.
LEMMA EditInv ==
  ASSUME RegistrationInv,
         (\E e \in Identity : EditEnv(e)) \/ (\E f \in Identity \cup {Malformed} : EditFile(f))
           \/ OtherWrite
  PROVE  RegistrationInv'
<1>1. GetState \in Identity /\ (OtherWrite => GetState' = GetState)
  BY GetStateType, NoIdentity DEF RegistrationInv, OtherWrite, GetState
<1>2. TypeOK'
  BY <1>1 DEF EditEnv, EditFile, OtherWrite, Up, owners, RegistrationInv, TypeOK
<1>3. ConfigFollowsFile'
  BY <1>1 DEF EditEnv, EditFile, OtherWrite, Up, RegistrationInv, ConfigFollowsFile
<1>4. OwnerOfAsset' /\ JobsServed'
  BY DEF EditEnv, EditFile, OtherWrite, Up, owners, RegistrationInv, OwnerOfAsset, JobsServed
<1>5. QED
  BY <1>2, <1>3, <1>4 DEF RegistrationInv

\* A field of the state file is written: s is the new content.
LEMMA WriteStateInv ==
  ASSUME RegistrationInv, Up, NEW s \in Identity,
         \A f \in Field : s[f] = None => GetState[f] = None,
         file' = s, config' = ConfigFrom(s), UNCHANGED <<env, edited>>
  PROVE  /\ config' \in Identity /\ Up'
         /\ ConfigFollowsFile'
<1>1. config \in Identity /\ GetState' = s
  BY NoIdentity DEF RegistrationInv, TypeOK, Up, GetState
<1>2. config' \in Identity
  <2>1. ConfigFrom(s).asset \in Asset \cup {None} /\ ConfigFrom(s).mint \in Mint \cup {None}
    BY <1>1 DEF ConfigFrom, Field, Identity
  <2>2. ConfigFrom(s) = [asset |-> ConfigFrom(s).asset, mint |-> ConfigFrom(s).mint]
    BY DEF ConfigFrom, Field
  <2>3. QED
    BY <2>1, <2>2 DEF Identity
<1>3. Up'
  BY <1>2, NoIdentity DEF Up
<1>4. ConfigFollowsFile'
  <2>1. SUFFICES ASSUME ~edited, NEW f \in Field, env[f] = None
                 PROVE  config'[f] = s[f]
    BY <1>1 DEF ConfigFollowsFile
  <2>2. config[f] = GetState[f]
    BY <2>1 DEF RegistrationInv, ConfigFollowsFile
  <2>3. QED
    BY <2>2 DEF ConfigFrom
<1>5. QED
  BY <1>2, <1>3, <1>4

LEMMA RegisteredInv ==
  ASSUME RegistrationInv, NEW j \in Job, OnAssetRegistered(j)
  PROVE  /\ RegistrationInv' /\ Up /\ Up'
         /\ config'.asset \in Asset
<1> DEFINE s == [GetState EXCEPT !.asset = job[j].asset]
<1>1. Up /\ job[j].asset \in Asset
  BY DEF OnAssetRegistered, At, RegistrationInv, TypeOK, JobsServed
<1>2. /\ s \in Identity /\ s.asset = job[j].asset
      /\ \A f \in Field : s[f] = None => GetState[f] = None
  BY <1>1, GetStateType, ConstantsAssumption DEF RegistrationInv, Identity, Field
<1>3. file' = s /\ config' = ConfigFrom(s) /\ UNCHANGED <<env, edited>>
  BY DEF OnAssetRegistered
<1>4. config' \in Identity /\ Up' /\ ConfigFollowsFile'
  BY <1>1, <1>2, <1>3, WriteStateInv
<1>5. TypeOK'
  BY <1>2, <1>3, <1>4 DEF OnAssetRegistered, Goto, Stage, RegistrationInv, TypeOK
<1>6. OwnerOfAsset' /\ JobsServed'
  BY <1>4 DEF OnAssetRegistered, Goto, RegistrationInv, TypeOK, OwnerOfAsset, JobsServed
<1>7. config'.asset \in Asset
  BY <1>1, <1>2, <1>3, ConstantsAssumption DEF ConfigFrom, Field
<1>8. QED
  BY <1>1, <1>4, <1>5, <1>6, <1>7 DEF RegistrationInv

LEMMA LaunchedInv ==
  ASSUME RegistrationInv, NEW j \in Job, OnTokenLaunched(j)
  PROVE  /\ RegistrationInv' /\ Up /\ Up'
         /\ config'.asset \in Asset \/ config'.asset = config.asset
<1>1. PICK m \in Mint : file' = [GetState EXCEPT !.mint = m]
  BY DEF OnTokenLaunched
<1> DEFINE s == [GetState EXCEPT !.mint = m]
<1>2. Up
  BY DEF OnTokenLaunched, At, RegistrationInv, JobsServed
<1>3. /\ s \in Identity /\ s.asset \in Asset \cup {None}
      /\ \A f \in Field : s[f] = None => GetState[f] = None
  BY GetStateType, ConstantsAssumption DEF RegistrationInv, Identity, Field
<1>4. file' = s /\ config' = ConfigFrom(s) /\ UNCHANGED <<env, edited>>
  BY <1>1 DEF OnTokenLaunched
<1>5. config' \in Identity /\ Up' /\ ConfigFollowsFile'
  BY <1>2, <1>3, <1>4, WriteStateInv
<1>6. TypeOK'
  BY <1>3, <1>4, <1>5 DEF OnTokenLaunched, Goto, Stage, owners, RegistrationInv, TypeOK
<1>7. OwnerOfAsset' /\ JobsServed'
  BY <1>5 DEF OnTokenLaunched, At, Goto, owners, RegistrationInv, TypeOK, OwnerOfAsset, JobsServed
<1>8. config'.asset \in Asset \/ config'.asset = config.asset
  BY <1>3, <1>4 DEF ConfigFrom, Field
<1>9. QED
  BY <1>2, <1>5, <1>6, <1>7, <1>8 DEF RegistrationInv

\* The steps of a job that leave file, environment and configuration alone.
LEMMA JobInv ==
  ASSUME RegistrationInv, NEW j \in Job,
         \/ StartRegister(j) \/ EnsureAgentFunded(j) \/ TopUpAnswered(j)
         \/ Mints(j) \/ MintFails(j) \/ StartLaunch(j) \/ LaunchFails(j)
  PROVE  RegistrationInv' /\ UNCHANGED config
<1>1. PICK to \in [stage : Stage, asset : Asset \cup {None}] :
        /\ job' = [job EXCEPT ![j] = to]
        /\ to.stage # "idle" => Up
        /\ to.asset # None <=> to.stage = "minted"
  BY ConstantsAssumption
    DEF StartRegister, EnsureAgentFunded, TopUpAnswered, Mints, MintFails, StartLaunch,
        LaunchFails, Goto, At, Stage, RegistrationInv, JobsServed
<1>2. /\ minted' \subseteq Asset /\ funded' \in BOOLEAN
      /\ UNCHANGED <<env, file, config, edited, ownerCache, lookups, told>>
  BY DEF StartRegister, EnsureAgentFunded, TopUpAnswered, Mints, MintFails, StartLaunch,
         LaunchFails, identity, owners, RegistrationInv, TypeOK
<1>3. TypeOK'
  BY <1>1, <1>2 DEF RegistrationInv, TypeOK
<1>4. ConfigFollowsFile' /\ OwnerOfAsset'
  BY <1>2 DEF RegistrationInv, Up, GetState, ConfigFollowsFile, OwnerOfAsset
<1>5. JobsServed'
  BY <1>1, <1>2 DEF RegistrationInv, TypeOK, Up, JobsServed
<1>6. QED
  BY <1>2, <1>3, <1>4, <1>5 DEF RegistrationInv

LEMMA OwnerInv ==
  ASSUME RegistrationInv,
         \/ ResolveOwner \/ CacheExpires
         \/ \E a \in Asset : LookupReturns(a) \/ LookupFails(a)
  PROVE  RegistrationInv' /\ UNCHANGED config
<1>1. UNCHANGED <<env, file, config, edited, minted, funded, job>>
  BY DEF ResolveOwner, CacheExpires, LookupReturns, LookupFails, identity
<1>2. /\ ownerCache' \in Asset \cup {None} /\ lookups' \subseteq Asset
      /\ told' \subseteq Asset \X Asset
      /\ OwnerOfAsset'
  <2>1. CASE ResolveOwner
    <3>1. config.asset \in Asset
      BY <2>1 DEF ResolveOwner, Up, RegistrationInv, TypeOK, Identity
    <3>2. QED
      BY <2>1, <3>1 DEF ResolveOwner, CachedFor, RegistrationInv, TypeOK, OwnerOfAsset
  <2>2. CASE CacheExpires
    BY <2>2 DEF CacheExpires, RegistrationInv, TypeOK, OwnerOfAsset
  <2>3. ASSUME NEW a \in Asset, LookupReturns(a) \/ LookupFails(a)
        PROVE  /\ ownerCache' \in Asset \cup {None} /\ lookups' \subseteq Asset
               /\ told' \subseteq Asset \X Asset
               /\ OwnerOfAsset'
    BY <2>3 DEF LookupReturns, LookupFails, RegistrationInv, TypeOK, OwnerOfAsset
  <2>4. QED
    BY <2>1, <2>2, <2>3
<1>3. TypeOK'
  BY <1>1, <1>2 DEF RegistrationInv, TypeOK
<1>4. ConfigFollowsFile' /\ JobsServed'
  BY <1>1 DEF RegistrationInv, Up, GetState, ConfigFollowsFile, JobsServed
<1>5. QED
  BY <1>1, <1>2, <1>3, <1>4 DEF RegistrationInv

LEMMA StutterInv ==
  ASSUME RegistrationInv, UNCHANGED vars
  PROVE  RegistrationInv'
BY DEF vars, identity, owners, RegistrationInv, TypeOK, Up, GetState, ConfigFollowsFile,
       OwnerOfAsset, JobsServed

LEMMA StepInv == ASSUME RegistrationInv, [Next]_vars PROVE RegistrationInv'
BY BootInv, CrashInv, EditInv, RegisteredInv, LaunchedInv, JobInv, OwnerInv, StutterInv
  DEF Next

\* In any order of registrations, launches, lookups, edits and crashes: the
\* configuration is what a restart would make of the file, and an owner is told
\* for the asset that was asked about.
THEOREM IdentityKept == Spec => []RegistrationInv
<1>1. Init => RegistrationInv
  BY InitInv
<1>2. RegistrationInv /\ [Next]_vars => RegistrationInv'
  BY StepInv
<1>3. QED
  BY <1>1, <1>2, PTL DEF Spec

-----------------------------------------------------------------------------

Registered == IF Up THEN config.asset ELSE NoConfig

LEMMA RegisteredType ==
  ASSUME RegistrationInv
  PROVE  /\ Up => Registered \in Asset \cup {None}
         /\ Up <=> Registered # NoConfig
BY ConstantsAssumption DEF Registered, Up, RegistrationInv, TypeOK, Identity

LEMMA StepRefines ==
  ASSUME RegistrationInv, RegistrationInv', [Next]_vars
  PROVE  \/ Agent!Start \/ Agent!Register \/ Agent!End
         \/ UNCHANGED Registered
<1>1. CASE Boot
  <2>1. ~Up /\ Registered' = config'.asset /\ config'.asset \in Asset \cup {None}
    BY <1>1, NoIdentity, ResolvedType DEF Boot, Up, Registered, RegistrationInv, Identity
  <2>2. QED
    BY <2>1 DEF Agent!Start, Registered
<1>2. CASE Crash
  BY <1>2, RegisteredType DEF Crash, Up, Registered, Agent!End
<1>3. CASE \E j \in Job : OnAssetRegistered(j)
  BY <1>3, RegisteredInv, RegisteredType DEF Registered, Agent!Register
<1>4. CASE \E j \in Job : OnTokenLaunched(j)
  BY <1>4, LaunchedInv, RegisteredType DEF Registered, Agent!Register
<1>5. CASE UNCHANGED config
  BY <1>5 DEF Up, Registered
<1>6. QED
  BY <1>1, <1>2, <1>3, <1>4, <1>5, JobInv, OwnerInv
    DEF Next, EditEnv, EditFile, OtherWrite, vars, identity

\* The tools that act on the registered asset may think of it as AgentIdentity:
\* it comes with the process, changes to another, and is never lost meanwhile.
THEOREM Refinement == Spec => ImplementsIdentity
<1>1. Init => Agent!IdentityInit
  BY DEF Init, Up, Agent!IdentityInit
<1>2. RegistrationInv /\ RegistrationInv' /\ [Next]_vars
        => [Agent!Start \/ Agent!Register \/ Agent!End]_Registered
  BY StepRefines
<1>3. QED
  BY <1>1, <1>2, IdentityKept, PTL
    DEF Spec, ImplementsIdentity, Agent!IdentitySpec, Registered
=============================================================================
