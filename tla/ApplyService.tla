----------------------------- MODULE ApplyService -----------------------------
(***************************************************************************)
(* What the interactive apply of `rig config-web` promises to its users,   *)
(* without requests, threads, callbacks or a store of jobs.                 *)
(*                                                                         *)
(* A tab is shown an offer: what an apply would do to the machine, in      *)
(* order.  An apply does a part of an offer that was shown, one effect     *)
(* after the other, each at most once, and never while another apply does. *)
(* It ends, and may have succeeded only when it did all of its part        *)
(* without an error.  Applies and their outcomes die with the server.      *)
(***************************************************************************)
EXTENDS Naturals

CONSTANTS
    Tabs,
    Applies,    \* the identities of applies
    Offers,     \* what the configs that may be declared would do: functions
                \* from positions to effects
    None

VARIABLES
    offered,    \* tab -> position -> effect: the offer it shows
    current,    \* the apply in progress, None when there is none
    left,       \* position -> effect: what it has not done yet
    failed,     \* whether something of it failed
    outcome     \* apply -> how it went
vars == <<offered, current, left, failed, outcome>>

Nothing == [i \in {} |-> None]
Part(f, S) == [i \in DOMAIN f \cap S |-> f[i]]

Init ==
    /\ offered = [t \in Tabs |-> Nothing]
    /\ current = None
    /\ left = Nothing
    /\ failed = FALSE
    /\ outcome = [a \in Applies |-> "none"]

\* A tab shows another offer; an apply in progress does not care.
Offer(t) ==
    /\ UNCHANGED <<current, left, failed, outcome>>
    /\ \E offer \in Offers : offered' = [offered EXCEPT ![t] = offer]

Begin(t, a, S) ==
    /\ current = None
    /\ outcome[a] = "none"
    /\ current' = a
    /\ left' = Part(offered[t], S)
    /\ failed' = FALSE
    /\ outcome' = [outcome EXCEPT ![a] = "running"]
    /\ UNCHANGED offered

\* The first of the effects left happens, or fails half way.
Do(i) ==
    /\ current # None
    /\ \A k \in DOMAIN left : i <= k
    /\ left' = Part(left, DOMAIN left \ {i})
    /\ failed' \in {failed, TRUE}
    /\ UNCHANGED <<offered, current, outcome>>

End(how) ==
    /\ current # None
    /\ how = "succeeded" => left = Nothing /\ ~failed
    /\ outcome' = [outcome EXCEPT ![current] = how]
    /\ current' = None
    /\ left' = Nothing
    /\ failed' = FALSE
    /\ UNCHANGED offered

\* The server dies, or is restarted: what its applies came to is unknown.
Die ==
    /\ outcome' = [a \in Applies |-> IF outcome[a] = "none" THEN "none" ELSE "unknown"]
    /\ current' = None
    /\ left' = Nothing
    /\ failed' = FALSE
    /\ UNCHANGED offered

Next ==
    \/ \E t \in Tabs : Offer(t)
    \/ \E t \in Tabs, a \in Applies : \E S \in SUBSET DOMAIN offered[t] : Begin(t, a, S)
    \/ \E i \in DOMAIN left : Do(i)
    \/ \E how \in {"succeeded", "failed"} : End(how)
    \/ Die

Spec == Init /\ [][Next]_vars
=============================================================================
