----------------------------- MODULE ProjectLife -----------------------------
(***************************************************************************)
(* What the project operations promise to whoever lists the projects,      *)
(* without their calls, their failures and their devices: a project        *)
(* appears once and whole, may lose its cover and then never has one       *)
(* again, and once deleted stays deleted.  Every step is about one         *)
(* project.                                                                *)
(***************************************************************************)

CONSTANT Projects

VARIABLE life     \* "unborn", "listed", "bare" (listed without a cover), "deleted"

Init == life = [p \in Projects |-> "unborn"]

Become(p, old, new) == life[p] \in old /\ life' = [life EXCEPT ![p] = new]

Appear(p) == Become(p, {"unborn"}, "listed")

LoseCover(p) == Become(p, {"listed"}, "bare")

Delete(p) == Become(p, {"listed", "bare"}, "deleted")

Next == \E p \in Projects : Appear(p) \/ LoseCover(p) \/ Delete(p)

Spec == Init /\ [][Next]_life
=============================================================================
