--------------------------- MODULE ProofArtifacts ---------------------------
(***************************************************************************)
(* The files of a proof: packages/proof-system builds them with nargo and  *)
(* bb in a directory named after the request, ProverService registers them *)
(* under the key of their hashes, callers upload them and post records     *)
(* that rest on them.                                                      *)
(*                                                                         *)
(* The name of a request leaves some of its inputs out (the batches of an  *)
(* intent, the output notes of a close, the reward of a liquidation), so   *)
(* two requests may share a directory, and several processes share the     *)
(* root: the server, the tools, the local prover of a client.              *)
(*                                                                         *)
(* A file is the statement it proves, and a key is the statement too: the  *)
(* same inputs make the same bytes.  bb writes its files in one step.      *)
(***************************************************************************)
CONSTANTS
    Statements,  \* the public inputs of requests
    Names,       \* artifact names
    NameOf,      \* [Statements -> Names]
    Processes,   \* processes with a ProverService over the same root
    Server,      \* the one that takes uploads and records
    Absent       \* no file, no statement

ASSUME ArtifactsAssumption ==
    /\ NameOf \in [Statements -> Names]
    /\ Server \in Processes
    /\ Absent \notin Statements

VARIABLES
    toml,      \* target/provers/<name>.toml
    built,     \* target/bb/<name>: what the proof there proves
    uploaded,  \* .pnlx/client-proof-artifacts/<key>
    entries,   \* .pnlx/proof-artifacts.json.d/<key>: where the files are
    cache,     \* the artifacts map of the server's ProverService
    job,       \* the build of each process
    records,   \* records callers hold: what they claim, what their proof proves
    relay,     \* the request the server relays: its record, and where its files were
    accepted   \* history: the record accepted last, with what the chain verified for it

artifactVars == <<toml, built, uploaded, entries, cache, job, records, relay, accepted>>

MaybeStatement == Statements \cup {Absent}
Places == {"nowhere", "built", "uploaded"}
IdleJob == [step |-> "idle", statement |-> Absent]
NoRecord == [claims |-> Absent, proof |-> Absent]
NoRelay == [record |-> NoRecord, place |-> "nowhere"]

-----------------------------------------------------------------------------
(* buildProofArtifact, buildProofArtifactAsync                             *)

\* prepareProofArtifact: the inputs are written, the old proof is removed.
Prepare(p, s) ==
    /\ job[p] = IdleJob
    /\ toml' = [toml EXCEPT ![NameOf[s]] = s]
    /\ built' = [built EXCEPT ![NameOf[s]] = Absent]
    /\ job' = [job EXCEPT ![p] = [step |-> "prove", statement |-> s]]
    /\ UNCHANGED <<uploaded, entries, cache, records, relay, accepted>>

\* nargo execute and bb prove: of the inputs that are there by now.
Prove(p) ==
    /\ job[p].step = "prove"
    /\ LET name == NameOf[job[p].statement] IN
       built' = [built EXCEPT ![name] = toml[name]]
    /\ job' = [job EXCEPT ![p].step = "complete"]
    /\ UNCHANGED <<toml, uploaded, entries, cache, records, relay, accepted>>

\* artifacts.set and artifactRegistry.set: an entry is a file of its own, put in
\* place by a rename.
RegisterArtifact(p, key, place) ==
    /\ entries' = [entries EXCEPT ![key] = place]
    /\ cache' = IF p = Server THEN [cache EXCEPT ![key] = place] ELSE cache

\* bb verify, completeProofArtifact and bindArtifact: the hashes are those of the
\* files, whoever wrote them; the record keeps what was asked.  A directory that
\* another build has emptied fails the build.
Complete(p) ==
    /\ job[p].step = "complete"
    /\ LET s == job[p].statement
           proof == built[NameOf[s]]
       IN  IF proof = Absent
           THEN UNCHANGED <<entries, cache, records>>
           ELSE /\ RegisterArtifact(p, proof, "built")
                /\ records' = records \cup {[claims |-> s, proof |-> proof]}
    /\ job' = [job EXCEPT ![p] = IdleJob]
    /\ UNCHANGED <<toml, built, uploaded, relay, accepted>>

\* A process ends where it is; its files stay.
Restart(p) ==
    /\ job' = [job EXCEPT ![p] = IdleJob]
    /\ IF p = Server THEN cache' = [s \in Statements |-> "nowhere"] /\ relay' = NoRelay
                     ELSE UNCHANGED <<cache, relay>>
    /\ UNCHANGED <<toml, built, uploaded, entries, records, accepted>>

-----------------------------------------------------------------------------
(* ProverService of the server                                             *)

\* registerProofArtifact: the bytes are written under the key of the proof, then
\* compared with it; bytes of something else stay where they were written.
Upload(r, bytes) ==
    /\ uploaded' = [uploaded EXCEPT ![r.proof] = bytes]
    /\ IF bytes = r.proof
       THEN RegisterArtifact(Server, r.proof, "uploaded")
       ELSE UNCHANGED <<entries, cache>>
    /\ UNCHANGED <<toml, built, job, records, relay, accepted>>

\* artifactFor: the map of the process first, then the entry of the key.
Located(key) == IF cache[key] # "nowhere" THEN cache[key] ELSE entries[key]

FilesAt(place, key) ==
    CASE place = "built" -> built[NameOf[key]]
      [] place = "uploaded" -> uploaded[key]
      [] OTHER -> Absent

FilesOf(key) == FilesAt(Located(key), key)

\* Variant of IsBound: the statement of the record is not compared.
IsBound_AnyStatement(r) == FilesOf(r.proof) = r.proof

\* assertBoundProof: the public inputs of the record are the proof's, and the
\* files found under its key still have its hashes.
IsBound(r) == r.proof = r.claims /\ FilesOf(r.proof) = r.proof

\* A posted record is checked, and its files located for the relay.
PostProof(r) ==
    /\ relay = NoRelay
    /\ IsBound(r)
    /\ relay' = [record |-> r, place |-> Located(r.proof)]
    /\ UNCHANGED <<toml, built, uploaded, entries, cache, job, records, accepted>>

\* Variant of VerifierTakes: the hash of the public inputs is not compared.
VerifierTakes_AnyInputs(r, files) == files # Absent

\* verify_and_record hashes the bytes it gets and compares them with the record.
VerifierTakes(r, files) == files = r.proof

\* invokeProofVerifier names the files to the command that sends them, which
\* reads what is there by then; a refusal, or no files, ends the request.
RelayProof ==
    /\ relay # NoRelay
    /\ LET r == relay.record
           files == FilesAt(relay.place, r.proof)
       IN  accepted' = IF VerifierTakes(r, files) THEN [claims |-> r.claims, files |-> files]
                       ELSE accepted
    /\ relay' = NoRelay
    /\ UNCHANGED <<toml, built, uploaded, entries, cache, job, records>>

ArtifactsInit ==
    /\ toml = [n \in Names |-> Absent]
    /\ built = [n \in Names |-> Absent]
    /\ uploaded = [s \in Statements |-> Absent]
    /\ entries = [s \in Statements |-> "nowhere"]
    /\ cache = [s \in Statements |-> "nowhere"]
    /\ job = [p \in Processes |-> IdleJob]
    /\ records = {}
    /\ relay = NoRelay
    /\ accepted = [claims |-> Absent, files |-> Absent]

ArtifactsNext ==
    \/ \E p \in Processes, s \in Statements : Prepare(p, s)
    \/ \E p \in Processes : Prove(p) \/ Complete(p) \/ Restart(p)
    \/ \E r \in records, bytes \in Statements : Upload(r, bytes)
    \/ \E r \in records : PostProof(r)
    \/ RelayProof

ArtifactsSpec == ArtifactsInit /\ [][ArtifactsNext]_artifactVars

-----------------------------------------------------------------------------
(* Properties                                                              *)

ArtifactsTypeOK ==
    /\ toml \in [Names -> MaybeStatement]
    /\ built \in [Names -> MaybeStatement]
    /\ uploaded \in [Statements -> MaybeStatement]
    /\ entries \in [Statements -> Places]
    /\ cache \in [Statements -> Places]
    /\ job \in [Processes -> [step : {"idle", "prove", "complete"}, statement : MaybeStatement]]
    /\ records \subseteq [claims : Statements, proof : Statements]
    /\ relay \in [record : [claims : MaybeStatement, proof : MaybeStatement], place : Places]
    /\ accepted \in [claims : MaybeStatement, files : MaybeStatement]

\* However builds that share a directory overlap, whatever an upload has left
\* behind, and whatever happens to the files between the check and the relay: a
\* record is accepted only if the chain verified the statement it makes.
AcceptedIsProved == accepted.files = accepted.claims
=============================================================================
