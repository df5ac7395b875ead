------------------------------ MODULE Mailbox ------------------------------
(***************************************************************************)
(* What a pair of an output and its flag promises to the reaction that     *)
(* runs the callback: a box for one output.  Nothing is posted into a full *)
(* box, and what is posted is delivered once, in the order of posting.     *)
(***************************************************************************)
EXTENDS Naturals, Sequences

VARIABLES
  posted,         \* outputs put in the box so far, each its number
  delivered       \* outputs taken out of it, in order

boxVars == <<posted, delivered>>

Full == posted # Len(delivered)

BoxInit ==
  /\ posted = 0
  /\ delivered = <<>>

Post ==
  /\ ~Full
  /\ posted' = posted + 1
  /\ UNCHANGED delivered

Deliver ==
  /\ Full
  /\ delivered' = Append(delivered, posted)
  /\ UNCHANGED posted

BoxNext == Post \/ Deliver

BoxSpec == BoxInit /\ [][BoxNext]_boxVars
=============================================================================
