---------------------------- MODULE CallService ----------------------------
(***************************************************************************)
(* What a call on the device promises to its caller, with no interrupt, no *)
(* register and no Core: one call at a time; it moves a beat on all of its *)
(* channels at once; and it returns success only once every one of its     *)
(* channels has moved every one of its beats.  A call that fails promises  *)
(* nothing about what it moved.                                            *)
(***************************************************************************)
EXTENDS Naturals, Signals

CONSTANTS Calls,   \* what may be asked for: beats per channel
          Quits    \* the caller's process may end, within a call or after it

VARIABLES left,    \* per channel, beats still to move; <<>>: no call under way
          result   \* of the call that returned last

callVars == <<left, result>>

CallInit == left = <<>> /\ result \in {None, "ok"}

Begin == left = <<>> /\ left' \in Calls /\ result' = None

Move ==
  /\ left # <<>> /\ \A c \in DOMAIN left : left[c] > 0
  /\ left' = [c \in DOMAIN left |-> left[c] - 1]
  /\ UNCHANGED result

Return ==
  /\ left # <<>> /\ \A c \in DOMAIN left : left[c] = 0
  /\ left' = <<>> /\ result' = "ok"

GiveUp == left # <<>> /\ left' = <<>> /\ result' = "fail"

Quit == Quits /\ left' = <<>> /\ result' = None

CallNext == Begin \/ Move \/ Return \/ GiveUp \/ Quit

CallSpec == CallInit /\ [][CallNext]_callVars

=============================================================================
