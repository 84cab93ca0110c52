----------------------------- MODULE ReleaseLog -----------------------------
(***************************************************************************)
(* What publication promises its consumers, with no candidate, job, worker *)
(* or retention in sight: releases are immutable, each one is newer than   *)
(* all before it, the latest one is current, and a follower moves from one *)
(* whole release to a newer one.  Publication is shown to implement this.  *)
(***************************************************************************)
EXTENDS Naturals

CONSTANTS
    Contents        \* content sets

VARIABLES
    releases,       \* the releases so far: [seq, content]
    latest,         \* sequence number of the current one, 0 before the first
    followed        \* the sequence number the follower serves, 0 before the first

vars == <<releases, latest, followed>>

Init ==
    /\ releases = {}
    /\ latest = 0
    /\ followed = 0

\* A release may leave gaps in the sequence; it never goes back.
Publish(c) ==
    /\ latest' \in Nat
    /\ \A r \in releases : r.seq < latest'
    /\ releases' = releases \cup {[seq |-> latest', content |-> c]}
    /\ UNCHANGED followed

Follow(r) ==
    /\ followed < r.seq
    /\ followed' = r.seq
    /\ UNCHANGED <<releases, latest>>

Next ==
    \/ \E c \in Contents : Publish(c)
    \/ \E r \in releases : Follow(r)

Spec == Init /\ [][Next]_vars
=============================================================================
