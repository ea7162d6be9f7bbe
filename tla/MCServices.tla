----------------------------- MODULE MCServices -----------------------------
(***************************************************************************)
(* What stands beside trading, in small instances that share no state, so  *)
(* that a behaviour follows one of them ("part") while the others rest:    *)
(* the vault of two liquidity providers, an old and a new server that save *)
(* and restart, a deployment and its finalization with two vault           *)
(* operators, the keys of an account open in two browsers, proofs built by *)
(* the server and by a tool under one name, and the vault's history        *)
(* scanned by two processes.                                               *)
(***************************************************************************)
EXTENDS LiquidityVault, ProtocolSnapshots, Deployment,
        AccountKeys, ProofArtifacts, VaultHistory, TLC

CONSTANTS
    alice, bob,             \* the vault's owners
    old, new, o1, o2,       \* servers, and operations on their state
    t1, t2, a, b, q,        \* tabs of two browsers, and a position
    sx, sy, nm, srv, tool,  \* statements of one name, and the provers
    h1, h2                  \* scanners

\* A deletion fails, or is cut off in the middle.
MCDeletions == {{}, {"orders"}}

MCCircuits == <<"deposit-note", "withdraw", "batch-match">>

MCBrowserOf == t1 :> a @@ t2 :> b

MCNameOf == [s \in Statements |-> nm]

VARIABLE part

partVars == <<part, vaultVars, snapshotVars, deploymentVars, keyVars,
              artifactVars, historyVars>>

PartsInit ==
    /\ part \in {"vault", "snapshots", "deployment", "keys", "artifacts", "history"}
    /\ KeysInit /\ ArtifactsInit /\ HistoryInit
    /\ VaultInit /\ (part = "vault" \/ allocationLimit = 5000)
    /\ SnapshotsInit /\ (part = "snapshots" \/ (kind = "file" /\ document.format = "empty"))
    /\ DeploymentInit /\ (part = "deployment" \/ smoke)

PartsNext ==
    \/ part = "vault" /\ VaultNext
         /\ UNCHANGED <<part, snapshotVars, deploymentVars, keyVars, artifactVars, historyVars>>
    \/ part = "snapshots" /\ SnapshotsNext
         /\ UNCHANGED <<part, vaultVars, deploymentVars, keyVars, artifactVars, historyVars>>
    \/ part = "deployment" /\ DeploymentNext
         /\ UNCHANGED <<part, vaultVars, snapshotVars, keyVars, artifactVars, historyVars>>
    \/ part = "keys" /\ KeysNext
         /\ UNCHANGED <<part, vaultVars, snapshotVars, deploymentVars, artifactVars, historyVars>>
    \/ part = "artifacts" /\ ArtifactsNext
         /\ UNCHANGED <<part, vaultVars, snapshotVars, deploymentVars, keyVars, historyVars>>
    \/ part = "history" /\ HistoryNext
         /\ UNCHANGED <<part, vaultVars, snapshotVars, deploymentVars, keyVars, artifactVars>>

PartsSpec == PartsInit /\ [][PartsNext]_partVars
=============================================================================
