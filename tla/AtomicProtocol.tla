--------------------------- MODULE AtomicProtocol ---------------------------
(***************************************************************************)
(* What a control root promises about decoders.  It is sealed to one       *)
(* version at a time; only that version writes to it; and it passes from   *)
(* one version to another in a single step, which records the content the  *)
(* new version has been validated against: all of it.                      *)
(***************************************************************************)
EXTENDS Naturals, Sequences

CONSTANTS Version, Rotation

VARIABLES
    version,      \* the version the root is sealed to, 0 for none
    source,       \* the writes so far, each by its version
    validated     \* the content the sealed version was validated against

vars == <<version, source, validated>>

Init ==
    /\ version = 0
    /\ source = <<>> /\ validated = <<>>

Adopt(v) ==
    /\ version = 0
    /\ version' = v /\ validated' = source
    /\ UNCHANGED source

Rotate(r) ==
    /\ version = r.from
    /\ version' = r.to /\ validated' = source
    /\ UNCHANGED source

Write ==
    /\ version # 0
    /\ source' = Append(source, version)
    /\ UNCHANGED <<version, validated>>

Next ==
    \/ Write
    \/ \E v \in Version : Adopt(v)
    \/ \E r \in Rotation : Rotate(r)

Spec == Init /\ [][Next]_vars
=============================================================================
