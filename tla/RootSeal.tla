------------------------------ MODULE RootSeal ------------------------------
(***************************************************************************)
(* The part of a control root that its decoders see, and what it promises  *)
(* them (AtomicProtocol).  RootProtocol says how it comes about.           *)
(***************************************************************************)
EXTENDS Naturals, Sequences

CONSTANTS
    Version,       \* controller builds, of this or an earlier commit
    Rotation       \* rotation requests: [id, from, to]

VARIABLES
    seal,          \* .store-protocol.json: version, validated content, rotations
    source         \* the payload of the root

Protocol == INSTANCE AtomicProtocol WITH version <- seal.ver, validated <- seal.src

\* Whatever runs concurrently, drained or not, the root belongs to one version
\* at a time, only that version's commands write to it, and it passes to another
\* version in one step on exactly the content both decoders have replayed.
ImplementsAtomicProtocol == Protocol!Spec
=============================================================================
