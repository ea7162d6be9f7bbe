----------------------------- MODULE ProofGate -----------------------------
(***************************************************************************)
(* Governance, the proof ledger and the verifier contracts: together they  *)
(* decide which statements the other contracts may act on.                 *)
(*                                                                         *)
(*  - contracts/governance names, for every circuit, the hash of the       *)
(*    approved verification key and the verifier contract that may record  *)
(*    proofs, and holds the protocol's pause switch;                       *)
(*  - contracts/proof-verifier (Noir) and contracts/risc0-proof-verifier   *)
(*    (RISC Zero) check a proof and record it in the ledger;               *)
(*  - contracts/proof-ledger keeps recorded proofs for ever.               *)
(*                                                                         *)
(* A statement stands for the tuple of public inputs that a proof binds by *)
(* their hash; the digests of different proofs of one statement are not    *)
(* told apart.  What the circuits accept is a constant (Provable).  Every  *)
(* contract call is one transaction, hence one action: a refused call      *)
(* changes nothing.                                                        *)
(***************************************************************************)

CONSTANTS
    Circuits,          \* circuit ids
    Verifiers,         \* deployed verifier contracts
    Risc0Verifiers,    \* those of them that check RISC Zero seals
    CircuitOf,         \* [Verifiers -> Circuits], fixed at init
    Authorities,       \* [Circuits -> contracts the administrator may appoint]
    Keys,              \* verification keys and guest images, named by their hash
    Provable,          \* [Circuits -> statements some proof exists for]
    InitialProofs,     \* [Circuits -> statements proved before the first step]
    NoKey,             \* "unknown verifier"
    Administration     \* the administrator's powers that an instance exercises:
                       \* a subset of {"pause", "verifiers", "writers", "setup",
                       \* "migration"}

ASSUME ProofGateAssumption ==
    /\ Risc0Verifiers \subseteq Verifiers
    /\ CircuitOf \in [Verifiers -> Circuits]
    /\ Authorities \in [Circuits -> SUBSET Verifiers]
    /\ NoKey \notin Keys
    /\ \A c \in Circuits : InitialProofs[c] \subseteq Provable[c]

VARIABLES
    paused,             \* governance: the pause switch
    verifier,           \* governance: circuit -> approved verifier hash
    verifierAuthority,  \* governance: circuit -> contract that may record
    vk,                 \* verifier contract -> key or image it checks with
    verifierHash,       \* verifier contract -> hash it records under
    proofs              \* ledger: circuit -> recorded proofs

gateVars == <<paused, verifier, verifierAuthority, vk, verifierHash, proofs>>

\* A ledger entry is a record [hash, stmt, key]: the code keys it by circuit,
\* hash and statement; key is history, the key or image that checked the proof.
GateTypeOK ==
    /\ paused \in BOOLEAN
    /\ verifier \in [Circuits -> Keys \cup {NoKey}]
    /\ verifierAuthority \in [Circuits -> Verifiers]
    /\ vk \in [Verifiers -> Keys]
    /\ verifierHash \in [Verifiers -> Keys]
    /\ proofs \in [Circuits -> SUBSET [hash : Keys, key : Keys,
                                      stmt : UNION {Provable[c] : c \in Circuits}]]

-----------------------------------------------------------------------------

\* Variant of ProofAccepted: the pause switch is not asked.
ProofAccepted_IgnoresPause(c, s) ==
    /\ verifier[c] # NoKey
    /\ \E p \in proofs[c] : p.hash = verifier[c] /\ p.stmt = s

\* proof_ledger.has_proof under the hash that governance approves now, behind
\* the pause switch: validate_proof, the same in every contract that acts on a
\* proof.
ProofAccepted(c, s) ==
    /\ ~paused
    /\ verifier[c] # NoKey
    /\ \E p \in proofs[c] : p.hash = verifier[c] /\ p.stmt = s

\* governance.set_paused, by the administrator.
SetPaused(b) ==
    /\ paused' = b
    /\ UNCHANGED <<verifier, verifierAuthority, vk, verifierHash, proofs>>

\* governance.set_verifier, by the administrator: hash and recording contract
\* are set together, and nothing ties either to the circuit.
SetVerifier(c, h, v) ==
    /\ verifier' = [verifier EXCEPT ![c] = h]
    /\ verifierAuthority' = [verifierAuthority EXCEPT ![c] = v]
    /\ UNCHANGED <<paused, vk, verifierHash, proofs>>

\* Variant of RotateVk: the key changes and the recorded hash does not.
RotateVk_KeepsHash(v, k) ==
    /\ v \notin Risc0Verifiers
    /\ vk' = [vk EXCEPT ![v] = k]
    /\ UNCHANGED <<paused, verifier, verifierAuthority, verifierHash, proofs>>

\* proof_verifier.rotate_vk, by the upgrade authority: the hash a Noir verifier
\* records under is always the hash of the key it checks with.
RotateVk(v, k) ==
    /\ v \notin Risc0Verifiers
    /\ vk' = [vk EXCEPT ![v] = k]
    /\ verifierHash' = [verifierHash EXCEPT ![v] = k]
    /\ UNCHANGED <<paused, verifier, verifierAuthority, proofs>>

\* risc0_proof_verifier.set_image_id, by the upgrade authority: the image is
\* replaced and the hash the contract records under stays what it was at init.
SetImageId(v, k) ==
    /\ v \in Risc0Verifiers
    /\ vk' = [vk EXCEPT ![v] = k]
    /\ UNCHANGED <<paused, verifier, verifierAuthority, verifierHash, proofs>>

\* verify_and_record of a verifier contract with the ledger's record: both
\* check the pause switch, the approved hash and the recording contract.
VerifyAndRecord(v, s) ==
    LET c == CircuitOf[v] IN
    /\ s \in Provable[c]
    /\ ~paused
    /\ verifier[c] = verifierHash[v]
    /\ verifierAuthority[c] = v
    /\ proofs' = [proofs EXCEPT ![c] =
                    @ \cup {[hash |-> verifierHash[v], stmt |-> s, key |-> vk[v]]}]
    /\ UNCHANGED <<paused, verifier, verifierAuthority, vk, verifierHash>>

\* The deployed protocol: every circuit has a verifier contract, and governance
\* names it and its hash.
GateInit ==
    /\ paused = FALSE
    /\ verifierHash \in [Verifiers -> Keys]
    /\ vk = verifierHash
    /\ verifierAuthority \in {f \in [Circuits -> Verifiers] :
                                \A c \in Circuits : f[c] \in Authorities[c] /\ CircuitOf[f[c]] = c}
    /\ verifier = [c \in Circuits |-> verifierHash[verifierAuthority[c]]]
    /\ proofs = [c \in Circuits |->
                    {[hash |-> verifier[c], stmt |-> s, key |-> verifier[c]] :
                        s \in InitialProofs[c]}]

GateNext ==
    \/ /\ "pause" \in Administration
       /\ \E b \in BOOLEAN : SetPaused(b)
    \/ /\ "verifiers" \in Administration
       /\ \/ \E c \in Circuits, h \in Keys : \E v \in Authorities[c] : SetVerifier(c, h, v)
          \/ \E v \in Verifiers, k \in Keys : RotateVk(v, k) \/ SetImageId(v, k)
    \/ \E v \in Verifiers : \E s \in Provable[CircuitOf[v]] : VerifyAndRecord(v, s)

-----------------------------------------------------------------------------

\* RotationRevokes: a statement that a Noir circuit's consumers would act on
\* was checked with the very key that governance approves now, whatever
\* rotations (of the key in the verifier contract, of the hash and the contract
\* in governance, in any order) lie between: a proof under a retired key counts
\* again only if that same key is approved again.
RotationRevokes ==
    \A c \in Circuits :
        (\A v \in Verifiers : CircuitOf[v] = c => v \notin Risc0Verifiers)
            => \A s \in Provable[c] :
                 ProofAccepted(c, s) =>
                    \E p \in proofs[c] : p.stmt = s /\ p.key = verifier[c]
=============================================================================
