---------------------------- MODULE DedupWindow -----------------------------
(***************************************************************************)
(* What a subscription's dedup promises its callers, with no word of how:  *)
(* an id is processed once per window.  The window is the newest           *)
(* admissions, MinWindow of them at least and MaxWindow at most (the two   *)
(* differ only when a restart changes the configured size), without those  *)
(* older than the ttl.  The id of an admission in the window is skipped.   *)
(* A restart forgets the admissions after the last one that reached the    *)
(* disk and no other.                                                      *)
(***************************************************************************)
EXTENDS Integers, Sequences

CONSTANTS EventId, MinWindow, MaxWindow,
          TTL                   \* 0: an admission never expires

VARIABLES hist,                 \* every admission so far, oldest first
          durable,              \* how many of them a restart keeps
          now

dwVars == <<hist, durable, now>>

\* The ids of the newest w admissions that have not expired.
Window(w) ==
    {hist[i].id : i \in {j \in DOMAIN hist : /\ j > Len(hist) - w
                                             /\ TTL = 0 \/ hist[j].time >= now - TTL}}

DWInit == hist = <<>> /\ durable = 0 /\ now = 0

\* A caller is told to process the id.
Process(id) ==
    /\ id \notin Window(MinWindow)
    /\ hist' = Append(hist, [id |-> id, time |-> now])
    /\ durable' \in {durable, Len(hist')}
    /\ UNCHANGED now

Persisted == durable' = Len(hist) /\ UNCHANGED <<hist, now>>

Restart ==
    /\ hist' = SubSeq(hist, 1, durable)
    /\ UNCHANGED <<durable, now>>

Tick == now' = now + 1 /\ UNCHANGED <<hist, durable>>

DWNext == \/ \E id \in EventId : Process(id)
          \/ Persisted \/ Restart \/ Tick

DWSpec == DWInit /\ [][DWNext]_dwVars
=============================================================================
