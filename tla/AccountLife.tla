----------------------------- MODULE AccountLife -----------------------------
(***************************************************************************)
(* What registering and deleting promise about an account, without their   *)
(* calls, failures, restarts and screens.  An account is usable when it is *)
(* whole: it exists in Firebase Auth, and its document in Firestore.  It   *)
(* is made in two steps and unmade in two, and whoever is between the two  *)
(* may be cut short.  An account that nobody is at work on any more and    *)
(* that has no document is an orphan, for good.  Documents that nobody     *)
(* owns do not occur.                                                      *)
(***************************************************************************)

VARIABLE life     \* "absent", "opening", "whole", "closing", "orphan"

Init == life \in {"absent", "whole"}

Become(old, new) == life \in old /\ life' = new

\* Firebase Auth has the account, and the document is to come.
Open == Become({"absent"}, "opening")

Complete == Become({"opening"}, "whole")

\* The documents are gone, and the account is to follow.
Clear == Become({"whole"}, "closing")

\* The end of the deletion, or all of it.
Close == Become({"whole", "closing"}, "absent")

Strand == Become({"absent", "opening", "whole", "closing"}, "orphan")

Next == Open \/ Complete \/ Clear \/ Close \/ Strand

Spec == Init /\ [][Next]_life
=============================================================================
