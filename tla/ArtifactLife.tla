---------------------------- MODULE ArtifactLife ----------------------------
(***************************************************************************)
(* What the backup store promises about an artifact, without calls, files  *)
(* or transactions: an id is used once; an artifact is listed only when    *)
(* its bytes are in their place and unlisted only when they are out of it; *)
(* while it is listed its bytes are somewhere; and one that is gone never  *)
(* comes back.                                                             *)
(***************************************************************************)
CONSTANTS Artifacts

VARIABLES
    life,   \* "unused", "pending", "listed" or "gone"
    bytes   \* where the bytes are: "none", "place" or "aside"

vars == <<life, bytes>>

Init ==
    /\ life = [a \in Artifacts |-> "unused"]
    /\ bytes = [a \in Artifacts |-> "none"]

Turn(a, from, to) == life[a] = from /\ life' = [life EXCEPT ![a] = to]

Move(a, from, to) == bytes[a] = from /\ bytes' = [bytes EXCEPT ![a] = to]

Reserve(a) == Turn(a, "unused", "pending") /\ UNCHANGED bytes

Write(a) == life[a] = "pending" /\ Move(a, "none", "place") /\ UNCHANGED life

List(a) == Turn(a, "pending", "listed") /\ bytes[a] = "place" /\ UNCHANGED bytes

\* Creations end without a listing, one at a time or all at once; their bytes
\* may have come into their place.
Abandon(S) ==
    /\ S # {} /\ \A a \in S : life[a] = "pending"
    /\ life' = [a \in Artifacts |-> IF a \in S THEN "gone" ELSE life[a]]
    /\ \E T \in SUBSET S :
          bytes' = [a \in Artifacts |-> IF a \in T THEN "place" ELSE bytes[a]]

Hide(a) == life[a] = "listed" /\ Move(a, "place", "aside") /\ UNCHANGED life

Show(a) == life[a] = "listed" /\ Move(a, "aside", "place") /\ UNCHANGED life

Unlist(a) == Turn(a, "listed", "gone") /\ bytes[a] = "aside" /\ UNCHANGED bytes

Purge(a) ==
    /\ life[a] = "gone" /\ bytes' = [bytes EXCEPT ![a] = "none"] /\ UNCHANGED life

Next ==
    \/ \E a \in Artifacts : \/ Reserve(a) \/ Write(a) \/ List(a)
                            \/ Hide(a) \/ Show(a) \/ Unlist(a) \/ Purge(a)
    \/ \E S \in SUBSET Artifacts : Abandon(S)

Spec == Init /\ [][Next]_vars
=============================================================================
