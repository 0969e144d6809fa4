----------------------------- MODULE BranchStream -----------------------------
(***************************************************************************)
(* What the shared-memory channel promises: a lossy, bounded, first-in     *)
(* first-out stream of branch records that moves in blocks of NDATA.       *)
(*   - a stored record enters a block of which at most two are outstanding;*)
(*   - a block becomes visible to the reader only when it is complete;     *)
(*   - the reader gets every record of the visible blocks once, in order,  *)
(*     until it has had DesiredIstr of them;                               *)
(*   - records are dropped, but at most one per block handed back and one  *)
(*     when the writer attaches.                                           *)
(* It says nothing of semaphores, flags or sectors.                        *)
(***************************************************************************)
EXTENDS Integers, Sequences

CONSTANTS NDATA, DesiredIstr, Records

VARIABLES
    sent,       (* records stored, in order                                *)
    published,  (* how many of them are in complete, visible blocks        *)
    released,   (* how many are in blocks the reader has handed back       *)
    analysed,   (* records the reader has had, in order                    *)
    lost        (* records dropped                                         *)

streamVars == <<sent, published, released, analysed, lost>>

Init == /\ sent = <<>> /\ analysed = <<>>
        /\ published = 0 /\ released = 0 /\ lost = 0

(* Never a third block before the reader has handed the first one back. *)
Store(r) ==
    /\ Len(sent) < published + NDATA /\ Len(sent) < released + 2 * NDATA
    /\ sent' = Append(sent, r)
    /\ UNCHANGED <<published, released, analysed, lost>>

Publish ==
    /\ Len(sent) = published + NDATA
    /\ published' = published + NDATA
    /\ UNCHANGED <<sent, released, analysed, lost>>

Analyse ==
    /\ Len(analysed) < released + NDATA /\ released + NDATA <= published
    /\ Len(analysed) < DesiredIstr
    /\ analysed' = Append(analysed, sent[Len(analysed) + 1])
    /\ UNCHANGED <<sent, published, released, lost>>

(* A block goes back once all of it, or all that is wanted, has been read. *)
Release ==
    /\ released + NDATA <= published
    /\ Len(analysed) = released + NDATA \/ Len(analysed) = DesiredIstr
    /\ released' = released + NDATA
    /\ UNCHANGED <<sent, published, analysed, lost>>

Drop ==
    /\ lost * NDATA <= released
    /\ lost' = lost + 1
    /\ UNCHANGED <<sent, published, released, analysed>>

Next == \/ \E r \in Records : Store(r)
        \/ Publish \/ Analyse \/ Release \/ Drop

Spec == Init /\ [][Next]_streamVars

=============================================================================
