---------------------------- MODULE ModifierLife ----------------------------
(***************************************************************************)
(* What the node promises about a modifier on its way from the network to  *)
(* the node view: the life that network/ModifiersStatus.scala describes.   *)
(* A modifier is asked for before it is taken in, it is not asked for      *)
(* again before the matter is settled, what is found invalid is so for     *)
(* good, and the node comes to hold only what was taken in after it was    *)
(* asked for, or what it made itself.                                      *)
(***************************************************************************)
CONSTANTS
    Modifiers,
    Local           \* modifiers the node may make itself

VARIABLES
    status,         \* modifier -> "Unknown", "Requested", "Received" or "Invalid"
    inHand,         \* modifiers that were taken in and wait to be applied
    held            \* modifiers the node holds

lifeVars == <<status, inHand, held>>

InStatus(s) == {m \in Modifiers : status[m] = s}

\* All modifiers of S get the status s.
SetStatus(S, s) == [m \in Modifiers |-> IF m \in S THEN s ELSE status[m]]

LifeInit ==
    /\ status = [m \in Modifiers |-> "Unknown"]
    /\ inHand = {}
    /\ held = {}

Ask ==
    /\ \E S \in SUBSET InStatus("Unknown") : status' = SetStatus(S, "Requested")
    /\ UNCHANGED <<inHand, held>>

\* Modifiers that were asked for arrive; some turn out to be invalid at once, of
\* which a message may bring a second copy.
TakeIn ==
    /\ \E S \in SUBSET InStatus("Requested") : \E bad \in SUBSET S :
          /\ status' = [m \in Modifiers |->
                          IF m \in bad THEN "Invalid"
                          ELSE IF m \in S THEN "Received" ELSE status[m]]
          /\ inHand \cup (S \ bad) \subseteq inHand'
          /\ inHand' \subseteq inHand \cup S
    /\ UNCHANGED held

\* Given up, thrown out, or settled because the node holds it.
Settle ==
    /\ \E S \in SUBSET (InStatus("Requested") \cup InStatus("Received")) :
          status' = SetStatus(S, "Unknown")
    /\ UNCHANGED <<inHand, held>>

Reject ==
    /\ \E m \in Modifiers : status' = SetStatus({m}, "Invalid")
    /\ UNCHANGED <<inHand, held>>

\* The node applies a modifier; others may leave the memory pool.
Hold ==
    /\ \E m \in inHand \cup Local :
          m \in held' /\ held' \subseteq held \cup {m}
    /\ inHand' \subseteq inHand
    /\ UNCHANGED status

Release ==
    /\ held' \subseteq held
    /\ inHand' \subseteq inHand
    /\ UNCHANGED status

LifeNext == Ask \/ TakeIn \/ Settle \/ Reject \/ Hold \/ Release

LifeSpec == LifeInit /\ [][LifeNext]_lifeVars

=============================================================================
