-------------------------------- MODULE Feed ---------------------------------
(* What GET /attach promises its reader, apart from how it is kept: a turn   *)
(* sends frames one after the other, and whoever follows it sees a prefix of *)
(* what it has sent, each frame once and in the order sent, and may start    *)
(* over from the first frame, of this turn or of another, at any time.       *)
EXTENDS Naturals, Sequences, SequencesExt

CONSTANTS
  Followable,   \* the turns there may be, and 0 for none
  Frames        \* the names of the frames

VARIABLES
  sent,     \* per turn, the frames it has sent so far
  view      \* the turn the reader follows and the frames of it he has seen

FeedInit ==
  /\ sent = [t \in Followable |-> <<>>]
  /\ view = [turn |-> 0, seen |-> <<>>]

\* A turn sends its next frame, one that it has not sent before.
Send(t) ==
  /\ \E f \in ToSet(sent'[t]) \ ToSet(sent[t]) :
       f \in Frames /\ sent' = [sent EXCEPT ![t] = Append(@, f)]
  /\ UNCHANGED view

\* The reader sees the frame after those he has seen.
See ==
  /\ Len(view.seen) < Len(sent[view.turn])
  /\ view' = [view EXCEPT !.seen = SubSeq(sent[view.turn], 1, Len(@) + 1)]
  /\ UNCHANGED sent

\* The reader starts over.
StartOver(t) ==
  /\ view' = [turn |-> t, seen |-> <<>>]
  /\ UNCHANGED sent

FeedNext == See \/ \E t \in Followable : Send(t) \/ StartOver(t)

FeedSpec == FeedInit /\ [][FeedNext]_<<sent, view>>
==============================================================================
