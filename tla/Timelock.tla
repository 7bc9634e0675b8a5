------------------------------ MODULE Timelock ------------------------------
(***************************************************************************)
(* What a two-step setting promises: once installed, its value changes     *)
(* only to one that was proposed, unchanged, at least MinWait blocks       *)
(* earlier, or at once to one of the values nobody needs warning of.       *)
(* Proposing again restarts the clock.                                     *)
(***************************************************************************)
EXTENDS Naturals

CONSTANTS
  MinWait,
  Unset,        \* the value before the setting is installed
  NoProposal,
  Harmless      \* values that may be set at once
VARIABLES height, current, proposal, since

setting == <<current, proposal, since>>

Install == current = Unset /\ current' # Unset /\ UNCHANGED <<proposal, since>>
Propose ==
  /\ proposal' # NoProposal /\ since' = height
  /\ UNCHANGED current
Cancel == proposal' = NoProposal /\ UNCHANGED current
Adopt ==
  /\ proposal # NoProposal /\ height >= since + MinWait
  /\ current' = proposal /\ proposal' = NoProposal
MakeHarmless ==
  /\ current' \in Harmless
  /\ UNCHANGED <<proposal, since>>

Init == proposal = NoProposal
Next == Install \/ Propose \/ Cancel \/ Adopt \/ MakeHarmless
Spec == Init /\ [][Next]_setting
=============================================================================
