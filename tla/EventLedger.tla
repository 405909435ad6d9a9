---------------------------- MODULE EventLedger -----------------------------
(***************************************************************************)
(* What the bus promises of the turns it drives of its own accord (those   *)
(* of a retry are an operator's), with no word of stores and sessions.  A  *)
(* claimant admits an event for a handler unless the event is among the    *)
(* newest Size admitted for it, and holds the claim until it drives the    *)
(* turn or gives up.  A claim is worth one turn, or two if the answer to   *)
(* the first was lost.  A claim that ends without a turn, through an       *)
(* error, an empty prompt or a crash, is not renewed.  A handler may       *)
(* become void: then its window refuses nothing and its claims still       *)
(* count.  At most once: nothing here says that a turn is driven.          *)
(***************************************************************************)
EXTENDS Naturals, Sequences

CONSTANTS Handler, EventId, Claimant,
          Size,
          None                  \* no claim

VARIABLES window,               \* of each handler, the newest events admitted, oldest first
          claim,                \* of each claimant
          delivered,            \* the turns driven, per handler and event
          void

elVars == <<window, claim, delivered, void>>

ELInit ==
    /\ window = [h \in Handler |-> <<>>]
    /\ claim = [c \in Claimant |-> None]
    /\ delivered = [h \in Handler |-> [id \in EventId |-> 0]]
    /\ void = {}

Admit(c, h, id) ==
    /\ claim[c] = None
    /\ h \in void \/ \A i \in DOMAIN window[h] : window[h][i] # id
    /\ claim' = [claim EXCEPT ![c] = [name |-> h, id |-> id, doubt |-> FALSE]]
    /\ window' = [window EXCEPT ![h] = IF Len(@) < Size THEN Append(@, id) ELSE Append(Tail(@), id)]
    /\ UNCHANGED <<delivered, void>>

\* The turn ends the claim, or its answer is lost and the claim is good for another.
Drive(c, h, id) ==
    /\ \/ \E doubt \in BOOLEAN : claim[c] = [name |-> h, id |-> id, doubt |-> doubt] /\ claim' = [claim EXCEPT ![c] = None]
       \/ /\ claim[c] = [name |-> h, id |-> id, doubt |-> FALSE]
          /\ claim' = [claim EXCEPT ![c] = [name |-> h, id |-> id, doubt |-> TRUE]]
    /\ delivered' = [delivered EXCEPT ![h][id] = @ + 1]
    /\ UNCHANGED <<window, void>>

\* Claims end without a turn: one of them, or all of a crashed process.
GiveUp ==
    /\ \E C \in SUBSET Claimant : claim' = [c \in Claimant |-> IF c \in C THEN None ELSE claim[c]]
    /\ UNCHANGED <<window, delivered, void>>

Fork(h) == void' = void \cup {h} /\ UNCHANGED <<window, claim, delivered>>

ELNext ==
    \/ \E c \in Claimant, h \in Handler, id \in EventId : Admit(c, h, id) \/ Drive(c, h, id)
    \/ GiveUp
    \/ \E h \in Handler : Fork(h)

ELSpec == ELInit /\ [][ELNext]_elVars
=============================================================================
