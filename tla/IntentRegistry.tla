--------------------------- MODULE IntentRegistry ---------------------------
(***************************************************************************)
(* contracts/intent-registry: order intents, the operator's cancellations  *)
(* and the settler's consumption of them.                                  *)
(*                                                                         *)
(* An intent is its commitment.  Of its metadata only the commitment to    *)
(* the matching payload is read by another contract; batch and market id   *)
(* are left out.  The settler (batch-settlement) calls FillIntents once    *)
(* per settlement: it stands for the contract's loop of consume and        *)
(* rollover calls, which succeed or fail together.                         *)
(***************************************************************************)
EXTENDS Integers, Sequences, Functions

CONSTANTS
    Intents,     \* intent commitments
    Payloads,    \* commitments to matching payloads
    NoPayload,   \* the intent is not registered
    NoIntent,    \* the all-zero commitment: the fill leaves no residual
    MaxSequence  \* bound on the submission counter (the code: u64)

ASSUME IntentRegistryAssumption ==
    /\ NoPayload \notin Payloads
    /\ NoIntent \notin Intents
    /\ MaxSequence \in Nat

VARIABLES
    payloadOf,       \* intent -> its registered payload commitment
    cancelled,       \* the Cancelled flags: cancelled, consumed or rolled over
    sequence,        \* intent -> submission sequence, 0 when unset
    nextSequence     \* NextSubmissionSequence

registryVars == <<payloadOf, cancelled, sequence, nextSequence>>

RegistryTypeOK ==
    /\ payloadOf \in [Intents -> Payloads \cup {NoPayload}]
    /\ cancelled \subseteq Intents
    /\ sequence \in [Intents -> Nat]
    /\ nextSequence \in Nat

Registered(i) == payloadOf[i] # NoPayload
IsActive(i)   == Registered(i) /\ i \notin cancelled

-----------------------------------------------------------------------------

\* submit, by the operator: the intent takes the next place in the queue.
Submit(i, p) ==
    /\ ~Registered(i)
    /\ nextSequence < MaxSequence
    /\ payloadOf' = [payloadOf EXCEPT ![i] = p]
    /\ nextSequence' = nextSequence + 1
    /\ sequence' = [sequence EXCEPT ![i] = nextSequence + 1]
    /\ UNCHANGED cancelled

\* cancel, by the operator.
Cancel(i) ==
    /\ IsActive(i)
    /\ cancelled' = cancelled \cup {i}
    /\ UNCHANGED <<payloadOf, sequence, nextSequence>>

-----------------------------------------------------------------------------

\* What a batch does to one intent: residual is NoIntent when the fill is
\* complete, and margin and residualPayload are the residual's.
Fill == [intent : Intents, payload : Payloads, residual : Intents \cup {NoIntent},
         margin : Int, residualPayload : Payloads \cup {NoPayload}]

Filled(fills)    == {fills[k].intent : k \in DOMAIN fills}
WithResidual(fills) == {k \in DOMAIN fills : fills[k].residual # NoIntent}
Residuals(fills) == {fills[k].residual : k \in WithResidual(fills)}

\* The fill that leaves residual r.
SourceOf(fills, r) == CHOOSE k \in WithResidual(fills) : fills[k].residual = r

\* rollover panics when the residual is already registered, by an earlier call
\* of the same loop too.
ResidualsAreNew(fills) ==
    /\ \A k \in WithResidual(fills) : ~Registered(fills[k].residual)
    /\ \A j, k \in WithResidual(fills) :
          fills[j].residual = fills[k].residual => j = k

\* A residual keeps the place in the queue of the intent it continues.
InheritedSequence(fills, r) == sequence[fills[SourceOf(fills, r)].intent]

\* Variant of FillIntents: rollover leaves the source intent active.
FillIntents_SourceStaysActive(fills) ==
    /\ \A k \in DOMAIN fills : IsActive(fills[k].intent)
    /\ ResidualsAreNew(fills)
    /\ cancelled' = cancelled \cup
          {fills[k].intent : k \in DOMAIN fills \ WithResidual(fills)}
    /\ payloadOf' = [i \in Intents |->
          IF i \in Residuals(fills)
             THEN fills[SourceOf(fills, i)].residualPayload
             ELSE payloadOf[i]]
    /\ sequence' = [i \in Intents |->
          IF i \in Residuals(fills) THEN InheritedSequence(fills, i)
                                    ELSE sequence[i]]
    /\ UNCHANGED nextSequence

\* consume (complete fills) and rollover (fills that leave a residual).
FillIntents(fills) ==
    /\ \A k \in DOMAIN fills : IsActive(fills[k].intent)
    /\ ResidualsAreNew(fills)
    /\ cancelled' = cancelled \cup Filled(fills)
    /\ payloadOf' = [i \in Intents |->
          IF i \in Residuals(fills)
             THEN fills[SourceOf(fills, i)].residualPayload
             ELSE payloadOf[i]]
    /\ sequence' = [i \in Intents |->
          IF i \in Residuals(fills) THEN InheritedSequence(fills, i)
                                    ELSE sequence[i]]
    /\ UNCHANGED nextSequence

RegistryInit ==
    /\ payloadOf = [i \in Intents |-> NoPayload]
    /\ cancelled = {}
    /\ sequence = [i \in Intents |-> 0]
    /\ nextSequence = 0
=============================================================================
