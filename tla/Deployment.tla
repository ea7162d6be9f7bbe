----------------------------- MODULE Deployment -----------------------------
(***************************************************************************)
(* The scripts that put the protocol on a network.  scripts/deploy/run.ts   *)
(* creates every contract, initialises and wires them with one transaction  *)
(* per call, keeps what it created in a ".partial" record, and writes the   *)
(* registry the server starts from only at the end; scripts/deploy/         *)
(* finalize.ts repeats the calls on a record it is given; scripts/deploy/   *)
(* liquidity-vault.ts adds the vault to a registry.  A call is retried, and *)
(* its answer may be lost although it landed.                               *)
(*                                                                          *)
(* The chain is the set of calls that took effect: the arguments of a call  *)
(* are fixed by the scripts, so the call stands for its effect.             *)
(***************************************************************************)
EXTENDS Naturals, Sequences, SequencesExt

CONSTANTS
  Circuits,       \* the circuits of the manifest, in its order
  CollateralToken,\* COLLATERAL_TOKEN_CONTRACT is configured
  VaultOperators, \* the runs of the vault script
  Attempts,       \* how often a call is tried (4 in both scripts)
  MaxFaults,      \* bound: attempts that fail or whose answer is lost
  MaxDeploys      \* bound: deployments started

ASSUME DeploymentAssumption ==
  /\ Circuits \in Seq(STRING) /\ "withdraw" \in ToSet(Circuits)
  /\ CollateralToken \in BOOLEAN
  /\ Attempts \in Nat \ {0}

VARIABLES
  chain,     \* calls that took effect on the contracts of the last deployment
  script,    \* the script that runs: "none", "deploy" or "finalize"
  at,        \* the call it is at
  tries,     \* attempts of that call that failed
  record,    \* the file of contract ids: "none", "partial" or "registry"
  finalized, \* finalize printed that it is done
  smoke,     \* deploy runs the smoke proof (no --no-smoke)
  vault,     \* the registry's liquidity vault, or "none"
  vaultRun,  \* where each run of the vault script is
  owned,     \* vaults whose upgrade authority is set
  checkpoint,\* the vault script's ".vault.partial" exists
  deploys, faults

callVars == <<chain, script, at, tries, record, finalized, faults>>
vaultRunVars == <<vault, vaultRun, owned, checkpoint>>
deploymentVars == <<callVars, vaultRunVars, smoke, deploys>>

-----------------------------------------------------------------------------
(* The calls.                                                               *)

Call(on, does, with) == [on |-> on, does |-> does, with |-> with]

Create(name)      == Call(name, "create", "")
Start(name)       == Call(name, "init", "")
Authority(name)   == Call(name, "set_upgrade_authority", "")
ReadAuthority(name) == Call(name, "upgrade_authority", "")
Writer(on, name)  == Call(on, "set_writer", name)
Verifier(circuit) == circuit \o " verifier"
Register(circuit) == Call("governance", "set_verifier", Verifier(circuit))
AddRouted         == Call("risc0-router", "add_verifier", "risc0-emergency-stop")
Updater           == Call("market", "set_funding_updater", "funding-settlement")
FeesTo            == Call("shielded-pool", "configure_fee_destinations", "")
ReadFeesTo        == Call("shielded-pool", "fee_destinations", "")
FeeToken          == Call("batch-settlement", "configure_fee_token", "")
SmokeProof        == Call(Verifier("withdraw"), "verify_and_record", "")

OnlyIf(b, calls) == IF b THEN calls ELSE <<>>

\* manifest.ts: the contracts that are deployed under their own name, in the
\* order of the manifest.
DeployableContracts ==
  << "governance", "proof-ledger", "price-oracle", "position-state",
     "shielded-pool", "intent-registry", "conditional-order", "market",
     "funding-settlement", "batch-settlement", "liquidation",
     "position-close", "disclosure-verifier" >>

Created(names) == [i \in DOMAIN names |-> Create(names[i])]

RiscZeroStack ==
  Created(<<"risc0-groth16-verifier", "risc0-emergency-stop", "risc0-router">>)
    \o <<AddRouted>>

Contracts ==
  Created(DeployableContracts) \o Created([i \in DOMAIN Circuits |-> Verifier(Circuits[i])])

Owned(name) == <<Authority(name), ReadAuthority(name)>>

Foundations ==
  <<Start("governance")>> \o Owned("governance")
    \o <<Start("proof-ledger"), Start("price-oracle")>> \o Owned("price-oracle")

\* Circuit by circuit: its verifier is initialised, then registered.
Verifiers ==
  [i \in 1..2 * Len(Circuits) |->
     LET circuit == Circuits[(i + 1) \div 2]
     IN  IF i % 2 = 1 THEN Start(Verifier(circuit)) ELSE Register(circuit)]

StateWriters ==
  << Writer("position-state", "batch-settlement"),
     Writer("shielded-pool", "batch-settlement"),
     Writer("position-state", "liquidation"),
     Writer("position-state", "position-close") >>

\* run.ts:510-648  initProofConsumers
ProofConsumers ==
  <<Start("shielded-pool")>> \o OnlyIf(CollateralToken, <<FeesTo>>)
    \o << Start("market"), Start("funding-settlement"), Start("position-state"),
          Start("batch-settlement"), Start("intent-registry") >>
    \o OnlyIf(CollateralToken, <<FeeToken>>)
    \o <<Start("liquidation"), Start("conditional-order"), Start("position-close")>>
    \o StateWriters \o <<Updater, Start("disclosure-verifier")>>

\* run.ts:289-452  deploy: what it calls, in its order.
DeployCalls(proves) ==
  RiscZeroStack \o Contracts \o Foundations \o Verifiers \o ProofConsumers
    \o Owned("intent-registry") \o OnlyIf(proves, <<SmokeProof>>)

\* run.ts:147-232  the initializations of commandPlan.
PlannedStarts ==
  <<Start("intent-registry")>> \o Owned("intent-registry")
    \o << Start("shielded-pool"), Start("market"), Start("funding-settlement"),
          Start("position-state"), Start("batch-settlement"), Start("liquidation"),
          Start("conditional-order"), Start("position-close") >>

\* run.ts:233-287  the contracts made known to each other, the last of them
\* initialized after it, and the smoke proof.
PlannedWiring(proves) ==
  StateWriters \o <<Updater, Start("disclosure-verifier")>>
    \o OnlyIf(CollateralToken, <<FeesTo, FeeToken>>)
    \o OnlyIf(proves, <<SmokeProof>>)

\* run.ts:66-287  commandPlan: what --dry-run prints.
PlannedCalls(proves) ==
  RiscZeroStack \o Contracts \o Foundations \o Verifiers
    \o PlannedStarts \o PlannedWiring(proves)

\* The dry run prints the calls a deployment makes, in an order of its own.
ASSUME PlanIsComplete ==
  \A proves \in BOOLEAN : ToSet(PlannedCalls(proves)) = ToSet(DeployCalls(proves))

\* finalize.ts:179-222  the end of finalize.
FinalizeWiring == <<Updater>> \o StateWriters \o <<SmokeProof>>

\* finalize.ts:34-222  the calls of finalize, the upgrade authorities not
\* among them.
FinalizeCalls ==
  <<Start("governance"), Start("proof-ledger"), Start("price-oracle")>>
    \o Verifiers \o <<Start("shielded-pool")>>
    \o OnlyIf(CollateralToken, <<ReadFeesTo, FeesTo>>)
    \o << Start("market"), Start("funding-settlement"), Start("position-state"),
          Start("intent-registry"), Start("batch-settlement") >>
    \o OnlyIf(CollateralToken, <<FeeToken>>)
    \o << Start("liquidation"), Start("conditional-order"), Start("position-close"),
          Start("disclosure-verifier") >>
    \o FinalizeWiring

Calls == IF script = "deploy" THEN DeployCalls(smoke) ELSE FinalizeCalls

-----------------------------------------------------------------------------
(* What the contracts make of a call.                                       *)

\* Calls a contract refuses the second time: "already initialized", "invalid
\* upgrade authority", "fee destinations already configured", a selector the
\* router has.
Once(call) ==
  \/ call.does \in {"init", "set_upgrade_authority", "add_verifier"}
  \/ call = FeesTo

\* What a call rests on: the contract it is sent to, its administrator, and
\* for a proof the verifier, the ledger and governance's entry.
Needs(call) ==
  ({Create(call.on)} \ {call})
    \cup (CASE call \in ToSet(StateWriters) \cup {Updater, FeesTo, FeeToken} ->
                {Start(call.on), Start("governance")}
           [] call.does \in {"set_verifier", "set_upgrade_authority"} -> {Start(call.on)}
           [] call.does = "upgrade_authority" -> {Authority(call.on)}
           [] call = SmokeProof ->
                {Start(call.on), Register("withdraw"), Start("proof-ledger"),
                 Start("governance")}
           [] OTHER -> {})

Refused(call) == (Once(call) /\ call \in chain) \/ ~(Needs(call) \subseteq chain)

\* A contract whose creation was not answered exists, but nobody has its id.
Effect(call, answered) ==
  IF call.does \in {"upgrade_authority", "fee_destinations"}
       \/ (call.does = "create" /\ ~answered)
  THEN chain ELSE chain \cup {call}

-----------------------------------------------------------------------------
(* deploy and finalize.                                                     *)

\* Variant of StartDeploy: the progress is kept in the registry's own file.
StartDeploy_InRegistry ==
  /\ script = "none" /\ record = "none" /\ deploys < MaxDeploys
  /\ script' = "deploy" /\ record' = "registry" /\ deploys' = deploys + 1
  /\ chain' = {} /\ at' = 1 /\ tries' = 0 /\ finalized' = FALSE
  /\ UNCHANGED <<faults, smoke, vaultRunVars>>

\* run.ts:289-300, 352-374  A deployment starts only where neither a registry
\* nor the record of an unfinished one is, and saves its record before the
\* first transaction.
StartDeploy ==
  /\ script = "none" /\ record = "none" /\ deploys < MaxDeploys
  /\ script' = "deploy" /\ record' = "partial" /\ deploys' = deploys + 1
  /\ chain' = {} /\ at' = 1 /\ tries' = 0 /\ finalized' = FALSE
  /\ UNCHANGED <<faults, smoke, vaultRunVars>>

\* finalize.ts:22-32, 226-230  finalize reads the record it is given.
StartFinalize ==
  /\ script = "none" /\ record # "none" /\ ~finalized
  /\ script' = "finalize" /\ at' = 1 /\ tries' = 0
  /\ UNCHANGED <<chain, record, finalized, faults, smoke, deploys, vaultRunVars>>

Sent ==
  /\ script # "none"
  /\ UNCHANGED <<script, record, finalized, smoke, deploys, vaultRunVars>>

NextCall == at' = at + 1 /\ tries' = 0

\* finalize.ts:274-299, 313-337  An init may fail for ever in finalize: the
\* script goes on.
Allowed(call) == script = "finalize" /\ call.does = "init"

\* run.ts:936-951  The call lands and is answered.
CallAnswered ==
  /\ Sent /\ at <= Len(Calls) /\ ~Refused(Calls[at])
  /\ chain' = Effect(Calls[at], TRUE)
  /\ NextCall
  /\ UNCHANGED faults

\* The attempt fails, or it lands and its answer is lost: it is tried again.
AttemptFails ==
  /\ Sent /\ at <= Len(Calls) /\ ~Refused(Calls[at])
  /\ faults < MaxFaults /\ faults' = faults + 1
  /\ tries < Attempts
  /\ tries' = tries + 1
  /\ \E lands \in BOOLEAN : chain' = IF lands THEN Effect(Calls[at], FALSE) ELSE chain
  /\ UNCHANGED at

Fails == tries = Attempts \/ Refused(Calls[at])

\* finalize.ts:315-337  "already initialized" ends the tries of an init, and
\* the last failure passes as well.
CallPassedOver ==
  /\ Sent /\ at <= Len(Calls)
  /\ \/ Allowed(Calls[at]) /\ Fails
     \/ script = "finalize" /\ Calls[at] = FeesTo /\ FeesTo \in chain
  /\ NextCall
  /\ UNCHANGED <<chain, faults>>

\* The script throws: its record stays as it is.
CallThrows ==
  /\ script # "none" /\ at <= Len(Calls) /\ Fails /\ ~Allowed(Calls[at])
  /\ ~(script = "finalize" /\ Calls[at] = FeesTo /\ FeesTo \in chain)
  /\ script' = "none"
  /\ UNCHANGED <<chain, at, tries, record, finalized, faults, smoke, deploys, vaultRunVars>>

\* The script is stopped between two calls.
ScriptStops ==
  /\ script # "none" /\ faults < MaxFaults /\ faults' = faults + 1
  /\ script' = "none"
  /\ UNCHANGED <<chain, at, tries, record, finalized, smoke, deploys, vaultRunVars>>

\* run.ts:437-452  After the last call the registry is written and the record
\* of progress removed.
DeployEnds ==
  /\ script = "deploy" /\ at > Len(Calls)
  /\ script' = "none" /\ record' = "registry"
  /\ UNCHANGED <<chain, at, tries, finalized, faults, smoke, deploys, vaultRunVars>>

\* finalize.ts:224  finalize prints that it is done; it writes no file.
FinalizeEnds ==
  /\ script = "finalize" /\ at > Len(Calls)
  /\ script' = "none" /\ finalized' = TRUE
  /\ UNCHANGED <<chain, at, tries, record, faults, smoke, deploys, vaultRunVars>>

\* run.ts:297-299  The operator puts the unfinished record away.
RecordRemoved ==
  /\ script = "none" /\ record = "partial" /\ deploys < MaxDeploys
  /\ record' = "none" /\ finalized' = FALSE
  /\ UNCHANGED <<chain, script, at, tries, faults, smoke, deploys, vaultRunVars>>

-----------------------------------------------------------------------------
(* liquidity-vault.ts: each run of the script creates a vault of its own.   *)

VaultStep(v, from, to) ==
  /\ vaultRun[v] = from /\ vaultRun' = [vaultRun EXCEPT ![v] = to]
  /\ UNCHANGED <<callVars, smoke, deploys>>

\* liquidity-vault.ts:46-79  Refused where a vault is registered or another
\* run left its checkpoint.
StartVault(v) ==
  /\ record = "registry" /\ vault = "none" /\ ~checkpoint
  /\ VaultStep(v, "idle", "create")
  /\ UNCHANGED <<vault, owned, checkpoint>>

\* liquidity-vault.ts:91-94
CreateVault(v) ==
  /\ VaultStep(v, "create", "own")
  /\ checkpoint' = TRUE
  /\ UNCHANGED <<vault, owned>>

\* liquidity-vault.ts:95-99  One attempt; whether a lost one landed or not,
\* the run ends there.
OwnVault(v) ==
  /\ \/ VaultStep(v, "own", "verify") /\ owned' = owned \cup {v}
     \/ VaultStep(v, "own", "failed") /\ owned' \in {owned, owned \cup {v}}
  /\ UNCHANGED <<vault, checkpoint>>

\* liquidity-vault.ts:101-116  What the vault answers is compared.
VerifyVault(v) ==
  /\ VaultStep(v, "verify", IF v \in owned THEN "read" ELSE "failed")
  /\ UNCHANGED <<vault, owned, checkpoint>>

\* A run fails at any of its commands.
VaultFails(v) ==
  /\ \E from \in {"create", "verify"} : VaultStep(v, from, "failed")
  /\ UNCHANGED <<vault, owned, checkpoint>>

\* liquidity-vault.ts:118-119  The registry is read again before it is
\* written.
ReadRegistry(v) ==
  /\ VaultStep(v, "read", IF vault = "none" THEN "write" ELSE "failed")
  /\ UNCHANGED <<vault, owned, checkpoint>>

\* liquidity-vault.ts:120-126
RegisterVault(v) ==
  /\ VaultStep(v, "write", "done")
  /\ vault' = v
  /\ checkpoint' = FALSE
  /\ UNCHANGED owned

\* The operator puts a checkpoint away.
CheckpointRemoved ==
  /\ checkpoint /\ checkpoint' = FALSE
  /\ \A v \in VaultOperators : vaultRun[v] \in {"idle", "failed", "done"}
  /\ UNCHANGED <<callVars, smoke, deploys, vault, vaultRun, owned>>

-----------------------------------------------------------------------------
DeploymentInit ==
  /\ chain = {} /\ script = "none" /\ at = 1 /\ tries = 0
  /\ record = "none" /\ finalized = FALSE
  /\ smoke \in BOOLEAN
  /\ vault = "none" /\ vaultRun = [v \in VaultOperators |-> "idle"]
  /\ owned = {} /\ checkpoint = FALSE
  /\ deploys = 0 /\ faults = 0

DeploymentNext ==
  \/ StartDeploy \/ StartFinalize
  \/ CallAnswered \/ AttemptFails \/ CallPassedOver \/ CallThrows
  \/ ScriptStops \/ DeployEnds \/ FinalizeEnds \/ RecordRemoved
  \/ CheckpointRemoved
  \/ \E v \in VaultOperators :
       \/ StartVault(v) \/ CreateVault(v) \/ OwnVault(v) \/ VerifyVault(v)
       \/ VaultFails(v) \/ ReadRegistry(v) \/ RegisterVault(v)

DeploymentSpec == DeploymentInit /\ [][DeploymentNext]_deploymentVars

-----------------------------------------------------------------------------
(* What the scripts promise.                                                *)

\* What the services need of the chain, from the contracts' side: every
\* contract initialised, the router and the registry of verifiers filled, the
\* three writers of the position tree and the one of the pool, the updater of
\* the funding index, the fees' accounts, and the upgrade authorities set.
Wired ==
  {Start(n) : n \in ToSet(DeployableContracts)}
    \cup {Start(Verifier(c)) : c \in ToSet(Circuits)}
    \cup {Register(c) : c \in ToSet(Circuits)}
    \cup {AddRouted, Updater} \cup ToSet(StateWriters)
    \cup {Authority(n) : n \in {"governance", "price-oracle", "intent-registry"}}
    \cup (IF CollateralToken THEN {FeesTo, FeeToken} ELSE {})

\* A registry the server can start from names contracts that are initialised
\* and wired, all of them, however many calls were repeated, failed after
\* they landed or stopped the script before; and the vault it names has its
\* upgrade authority (run.ts:437-452, liquidity-vault.ts:101-126).
RegistryIsWired ==
  /\ record = "registry" => Wired \subseteq chain
  /\ vault # "none" => vault \in owned

\* What finalize stands for when it says it is done, also on the record of a
\* deployment that stopped half way: the verifiers, writers, updater and fee
\* accounts are set, the contracts they are set on are initialised, and one
\* proof went through (finalize.ts:34-224).  Of the other contracts it may
\* have passed over the initialisation.
FinalizedIsWired ==
  finalized =>
    LET set == {c \in Wired : c.does \in {"set_verifier", "set_writer",
                 "set_funding_updater", "configure_fee_destinations",
                 "configure_fee_token"}}
    IN  set \cup {Start(c.on) : c \in set}
          \cup {Start("proof-ledger"), Start(Verifier("withdraw"))} \subseteq chain

\* A record an operator may trust names a protocol that works: a registry from
\* the deployment itself, or a record that finalize is done with.
DeployedIsWired == RegistryIsWired /\ FinalizedIsWired
=============================================================================
