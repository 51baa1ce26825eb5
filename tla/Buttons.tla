-------------------------------- MODULE Buttons --------------------------------
(***************************************************************************)
(* What components/input promises to its reader (input.h): the events of   *)
(* one press of one or more buttons, in the order a reader takes them,     *)
(* without debouncing, windows or clocks.                                  *)
(*                                                                         *)
(* A gesture gathers buttons, its mask settles, and it ends either as a    *)
(* click (with a double click when it repeats the one before) or as a long *)
(* press with its repeats and its release, never as both. An event that    *)
(* finds the queue full is dropped.                                        *)
(***************************************************************************)
EXTENDS Naturals, Sequences

CONSTANTS
  Present,   \* the buttons that are wired
  QueueLen   \* how many events the queue holds

VARIABLES
  gesture,   \* "none", "gathering", "settled" or "long"
  mask,      \* the buttons of the gesture
  last,      \* the click the next one may double, {} if none
  queue      \* the events the reader has not taken

vars == <<gesture, mask, last, queue>>

Masks  == (SUBSET Present) \ {{}}
Kinds  == {"click", "dblclick", "long", "repeat", "release"}
Events == [mask : Masks, kind : Kinds]

Send(q, m, k) == IF Len(q) < QueueLen THEN Append(q, [mask |-> m, kind |-> k]) ELSE q

-----------------------------------------------------------------------------
Press ==
  /\ gesture = "none" /\ gesture' = "gathering"
  /\ mask' \in Masks
  /\ UNCHANGED <<last, queue>>

(* Until the mask settles more buttons may join it, and none leaves.       *)
Gather ==
  /\ gesture = "gathering" /\ gesture' \in {"gathering", "settled"}
  /\ mask' \in Masks /\ mask \subseteq mask'
  /\ UNCHANGED <<last, queue>>

(* A click, at once; and one that repeats the last may be a double click   *)
(* besides, after which the next one starts anew.                          *)
Click ==
  /\ gesture \in {"gathering", "settled"} /\ gesture' = "none" /\ mask' = {}
  /\ \/ last' = mask /\ queue' = Send(queue, mask, "click")
     \/ /\ last = mask /\ last' = {}
        /\ queue' = Send(Send(queue, mask, "click"), mask, "dblclick")

Long ==
  /\ gesture = "settled" /\ gesture' = "long"
  /\ queue' = Send(queue, mask, "long")
  /\ UNCHANGED <<mask, last>>

Repeat ==
  /\ gesture = "long" /\ queue' = Send(queue, mask, "repeat")
  /\ UNCHANGED <<gesture, mask, last>>

Release ==
  /\ gesture = "long" /\ gesture' = "none" /\ mask' = {}
  /\ queue' = Send(queue, mask, "release")
  /\ UNCHANGED last

(* input_get_event().                                                      *)
Take ==
  /\ queue # <<>> /\ queue' = Tail(queue)
  /\ UNCHANGED <<gesture, mask, last>>

Init == gesture = "none" /\ mask = {} /\ last = {} /\ queue = <<>>

User == Press \/ Gather \/ Click \/ Long \/ Repeat \/ Release
Next == User \/ Take
Spec == Init /\ [][Next]_vars

TypeOK ==
  /\ gesture \in {"none", "gathering", "settled", "long"}
  /\ mask \subseteq Present /\ last \subseteq Present
  /\ queue \in Seq(Events) /\ Len(queue) <= QueueLen
=============================================================================
