----------------------------- MODULE GroupKeys -----------------------------
(***************************************************************************)
(* What a Group promises about its key, without messages, counter nonces   *)
(* or clocks: the Server opens Sessions, each with a later key than the    *)
(* one before; a Client has no key or that of a Session opened so far, and *)
(* moves to a later one, never back, until it restarts. A Client that is   *)
(* behind moves on.                                                        *)
(***************************************************************************)
EXTENDS Integers

CONSTANTS
    Members \* the Clients of the Group

VARIABLES
    latest, \* the key of the Session the Server has open
    held    \* by Client: the key of the Session it takes for the current one, or 0

vars == <<latest, held>>

Init ==
    /\ latest = 1
    /\ held = [c \in Members |-> 0]

\* The Server opens a Session.
Open ==
    /\ latest' > latest
    /\ latest' \in Nat
    /\ UNCHANGED held

\* A Client moves on to a Session opened after the one it knew.
Follow(c) ==
    /\ held[c] < latest
    /\ \E k \in held[c] + 1 .. latest : held' = [held EXCEPT ![c] = k]
    /\ UNCHANGED latest

\* A Client forgets its Session.
Forget(c) ==
    /\ held' = [held EXCEPT ![c] = 0]
    /\ UNCHANGED latest

Next ==
    \/ Open
    \/ \E c \in Members : Follow(c) \/ Forget(c)

Spec == Init /\ [][Next]_vars

FairSpec == Spec /\ \A c \in Members : WF_vars(Follow(c))
=============================================================================
