---------------------------- MODULE HorizonService ----------------------------
(***************************************************************************)
(* What the operator promises about a Horizon object to those who only see *)
(* the object and the things made for it: openstack-operator, users, the   *)
(* garbage collector.  Nothing of the operator itself appears here: no     *)
(* queue, no cache, no pass.  HorizonReconcile implements this module.     *)
(*                                                                         *)
(*   - an object is guarded by the finalizer before anything is made for   *)
(*     it, and the guard is taken off only to let the object go;           *)
(*   - an object that is gone is done with: nothing is made or published   *)
(*     for it any more, whatever pass was under way;                       *)
(*   - what is published about generations is true and never taken back;   *)
(*   - nobody is told Ready before the object is guarded.                  *)
(***************************************************************************)
EXTENDS Naturals

VARIABLES
  life,        \* "live", "deleting" or "gone"
  generation,  \* number of the last request
  guarded,     \* the object carries the operator's finalizer
  observed,    \* the published observed generation
  ready,       \* the published Ready condition is True
  built        \* something made for the object exists

vars == <<life, generation, guarded, observed, ready, built>>

Init ==
  /\ life = "live" /\ generation = 1 /\ guarded = FALSE
  /\ observed = 0 /\ ready = FALSE /\ built = FALSE

-----------------------------------------------------------------------------
(* Requests.                                                                 *)

Edit ==
  /\ life # "gone" /\ generation' = generation + 1
  /\ UNCHANGED <<life, guarded, observed, ready, built>>

\* An object nobody guards goes at once.
RequestDeletion ==
  /\ life = "live" /\ generation' = generation + 1
  /\ life' = IF guarded THEN "deleting" ELSE "gone"
  /\ UNCHANGED <<guarded, observed, ready, built>>

-----------------------------------------------------------------------------
(* What the operator does about them.                                        *)

Guard ==
  /\ life = "live" /\ ~guarded /\ guarded' = TRUE
  /\ UNCHANGED <<life, generation, observed, ready, built>>

Build ==
  /\ life # "gone" /\ guarded /\ built' = TRUE
  /\ UNCHANGED <<life, generation, guarded, observed, ready>>

Publish ==
  /\ life # "gone"
  /\ observed' \in observed .. generation
  /\ ready' \in BOOLEAN /\ (ready' => ready \/ guarded)
  /\ UNCHANGED <<life, generation, guarded, built>>

Release ==
  /\ life = "deleting" /\ life' = "gone" /\ guarded' = FALSE
  /\ UNCHANGED <<generation, observed, ready, built>>

\* Somebody removes what was made, or the garbage collector does.
Vanish ==
  /\ built /\ built' = FALSE
  /\ UNCHANGED <<life, generation, guarded, observed, ready>>

Next == Edit \/ RequestDeletion \/ Guard \/ Build \/ Publish \/ Release \/ Vanish

Spec == Init /\ [][Next]_vars

-----------------------------------------------------------------------------
(* What a client may rely on.                                                *)

\* Whatever exists for a living object can be cleaned up: the finalizer that
\* reconcileDelete answers to is there.
NothingUnguarded == built /\ life # "gone" => guarded

\* An object is Ready only behind its finalizer.
ReadyIsGuarded == ready /\ life # "gone" => guarded

\* A deletion that was asked for ends with the object and everything made for
\* it gone, for good.
Vanishes == life = "deleting" ~> [](life = "gone" /\ ~built)
=============================================================================
