--------------------------------- MODULE Input ---------------------------------
(***************************************************************************)
(* The decoder of components/input/input.c: input_task() samples the       *)
(* buttons, debounces them and turns what is held into events.             *)
(*                                                                         *)
(* A step is one turn of the loop in input_task(), from the sample to the  *)
(* vTaskDelay() that ends it; nobody else writes its variables. A time     *)
(* stamp of the code is an age here, in polls, counted no further than the *)
(* tests on it tell apart, and a turn may come late: the task is preempted.*)
(* The injection backend and a change of backend are left out: only a self *)
(* test that is not compiled in uses them.                                 *)
(***************************************************************************)
EXTENDS Naturals, Sequences

CONSTANTS
  Present,     \* s_present, or the zones of the touch backend
  SingleTouch, \* the backend is INPUT_BACKEND_TOUCH_ZONES
  QueueLen,    \* the length of s_queue
  DEBOUNCE, CHORD, LONG, REPEAT, DOUBLE,  \* INPUT_..._MS, in polls
  MaxLate      \* a turn comes at most so many polls after the last

ASSUME InputAssumption ==
  /\ SingleTouch \in BOOLEAN /\ QueueLen \in Nat
  /\ {DEBOUNCE, CHORD, LONG, REPEAT, DOUBLE} \subseteq Nat
  /\ CHORD <= LONG /\ MaxLate \in Nat \ {0}

VARIABLES
  state,        \* ST_IDLE, ST_COLLECT, ST_HELD
  stable,       \* the debounced sample
  candidate,    \* the sample awaiting confirmation
  candidateAge, \* now - candidate_at
  chord,        \* the buttons reported on
  chordAge,     \* now - chord_started
  longFired,    \* long_fired
  repeatAge,    \* now - (next_repeat - INPUT_REPEAT_MS)
  lastClick,    \* last_click
  clickAge,     \* now - last_click_at
  queue,        \* s_queue
  downAge,      \* ghost: for how long each button has been sampled down
  steady        \* ghost: the buttons debounced since the last idle turn

debounceVars == <<stable, candidate, candidateAge>>
clickVars    == <<lastClick, clickAge>>
ghosts       == <<downAge, steady>>
vars == <<state, debounceVars, chord, chordAge, longFired, repeatAge, clickVars, queue, ghosts>>

Samples == IF SingleTouch THEN {{}} \cup {{b} : b \in Present} ELSE SUBSET Present
Late    == 1 .. MaxLate

Older(age, dt, cap) == IF age + dt < cap THEN age + dt ELSE cap

-----------------------------------------------------------------------------
(* Sampling.                                                               *)

(* The sample must stay as it is for INPUT_DEBOUNCE_MS to count.           *)
DebounceAtOnce(raw, dt) ==   \* mutant: a bounce counts
  candidate' = raw /\ candidateAge' = 0 /\ stable' = raw

Debounce(raw, dt) ==
  LET age == Older(candidateAge, dt, DEBOUNCE)
  IN /\ candidate' = raw
     /\ candidateAge' = IF raw = candidate THEN age ELSE 0
     /\ stable' = IF raw = candidate /\ age >= DEBOUNCE THEN raw ELSE stable

Watch(raw, dt) ==
  /\ downAge' = [b \in Present |->
       IF b \in raw \cap candidate THEN Older(downAge[b], dt, DEBOUNCE) ELSE 0]
  /\ steady' = {b \in raw : downAge'[b] >= DEBOUNCE}
                 \cup IF state = "ST_IDLE" /\ stable = {} THEN {} ELSE steady

-----------------------------------------------------------------------------
(* Decoding: stable' is the sample as debounced in this turn.              *)

EmitAlways(q, m, k) == Append(q, [mask |-> m, kind |-> k])   \* mutant: no limit

Emit(q, m, k) == IF Len(q) < QueueLen THEN Append(q, [mask |-> m, kind |-> k]) ELSE q

Idle(dt) ==
  /\ state = "ST_IDLE" /\ stable' = {}
  /\ UNCHANGED <<state, chord, chordAge, longFired, repeatAge, lastClick, queue>>

Begin(dt) ==
  /\ state = "ST_IDLE" /\ stable' # {}
  /\ state' = "ST_COLLECT" /\ chord' = stable' /\ chordAge' = 0
  /\ UNCHANGED <<longFired, repeatAge, lastClick, queue>>

(* Fingers never land together: who is seen within the window joins.       *)
JoinedLast == stable'   \* mutant: chord = stable
Joined == chord \cup stable'

WindowAnew(dt) ==   \* mutant: whoever joins starts the window anew
  IF stable' = stable THEN Older(chordAge, dt, LONG) ELSE 0
Window(dt) == Older(chordAge, dt, LONG)

Collect(dt) ==
  /\ state = "ST_COLLECT" /\ stable' # {}
  /\ chord' = Joined /\ chordAge' = Window(dt)
  /\ state' = IF chordAge' >= CHORD THEN "ST_HELD" ELSE "ST_COLLECT"
  /\ UNCHANGED <<longFired, repeatAge, lastClick, queue>>

StillHeldOn == TRUE   \* mutant: the release is looked for too late
StillHeld == stable' # {}

Hold(dt) ==
  /\ state = "ST_HELD" /\ StillHeld
  /\ chordAge' = Older(chordAge, dt, LONG)
  /\ \/ /\ ~longFired /\ chordAge' < LONG
        /\ UNCHANGED <<longFired, repeatAge, queue>>
     \/ /\ ~longFired /\ chordAge' >= LONG
        /\ longFired' = TRUE /\ repeatAge' = 0
        /\ queue' = Emit(queue, chord, "long")
     \/ /\ longFired /\ repeatAge' = Older(repeatAge, dt, REPEAT) /\ repeatAge' < REPEAT
        /\ UNCHANGED <<longFired, queue>>
     \/ /\ longFired /\ repeatAge + dt >= REPEAT /\ repeatAge' = 0
        /\ queue' = Emit(queue, chord, "repeat")
        /\ UNCHANGED longFired
  /\ UNCHANGED <<state, chord, lastClick>>

(* The label released: the stamps of the gesture mean nothing from now on. *)
Reset ==
  /\ state' = "ST_IDLE" /\ chord' = {} /\ longFired' = FALSE
  /\ chordAge' = 0 /\ repeatAge' = 0

Doubles(dt) == chord = lastClick /\ clickAge + dt <= DOUBLE

Released(dt) ==
  /\ state # "ST_IDLE" /\ stable' = {} /\ Reset
  /\ \/ /\ longFired /\ queue' = Emit(queue, chord, "release")
        /\ UNCHANGED lastClick
     \/ /\ ~longFired /\ Doubles(dt) /\ lastClick' = {}
        /\ queue' = Emit(Emit(queue, chord, "click"), chord, "dblclick")
     \/ /\ ~longFired /\ ~Doubles(dt) /\ lastClick' = chord
        /\ queue' = Emit(queue, chord, "click")

(* last_click_at is set where last_click is.                               *)
Stamp(dt) ==
  clickAge' = IF lastClick' = {} \/ (state # "ST_IDLE" /\ state' = "ST_IDLE" /\ ~longFired)
              THEN 0 ELSE Older(clickAge, dt, DOUBLE + 1)

Decode(dt) == Idle(dt) \/ Begin(dt) \/ Collect(dt) \/ Hold(dt) \/ Released(dt)

Turn(raw, dt) == Debounce(raw, dt) /\ Watch(raw, dt) /\ Decode(dt) /\ Stamp(dt)

(* input_get_event(): some other task takes an event.                      *)
Get ==
  /\ queue # <<>> /\ queue' = Tail(queue)
  /\ UNCHANGED <<state, debounceVars, chord, chordAge, longFired, repeatAge, clickVars, ghosts>>

Init ==
  /\ state = "ST_IDLE" /\ stable = {} /\ candidate = {} /\ candidateAge = 0
  /\ chord = {} /\ chordAge = 0 /\ longFired = FALSE /\ repeatAge = 0
  /\ lastClick = {} /\ clickAge = 0 /\ queue = <<>>
  /\ downAge = [b \in Present |-> 0] /\ steady = {}

Poll == \E raw \in Samples, dt \in Late : Turn(raw, dt)
Next == Poll \/ Get

(* The task polls for ever; whether anyone takes its events is not its     *)
(* business. A turn that finds nothing held and nothing new changes        *)
(* nothing, and is not asked for.                                          *)
Busy == state # "ST_IDLE" \/ candidate # stable
Spec == Init /\ [][Next]_vars /\ WF_vars(Busy /\ Poll)

-----------------------------------------------------------------------------
TypeOK ==
  /\ state \in {"ST_IDLE", "ST_COLLECT", "ST_HELD"}
  /\ stable \subseteq Present /\ candidate \subseteq Present /\ chord \subseteq Present
  /\ candidateAge \in 0 .. DEBOUNCE /\ chordAge \in 0 .. LONG /\ repeatAge \in 0 .. REPEAT
  /\ longFired \in BOOLEAN
  /\ lastClick \subseteq Present /\ clickAge \in 0 .. DOUBLE + 1
  /\ queue \in Seq([mask : (SUBSET Present) \ {{}},
                    kind : {"click", "dblclick", "long", "repeat", "release"}])
  /\ Len(queue) <= QueueLen
  /\ downAge \in [Present -> 0 .. DEBOUNCE] /\ steady \subseteq Present

(* Whatever the contacts do, an event names only buttons that were each    *)
(* sampled down without a break for the debounce time since the decoder    *)
(* was last idle: neither a bounce nor the press before leaves a button in *)
(* the chord of input_task().                                              *)
NoPhantom == chord \subseteq steady

(* The window and the long press run out however the buttons that join or  *)
(* leave keep changing: a press is let go or becomes long.                 *)
PressDecided == state = "ST_COLLECT" ~> (state = "ST_IDLE" \/ longFired)

(* Once nothing is held any more, after however many bounces, the press    *)
(* ends: no release is missed and no button hangs.                         *)
ReleaseSeen == <>[](candidate = {}) => <>[](state = "ST_IDLE")

(* input_task() does what input.h says of its events.                      *)
Gesture ==
  CASE state = "ST_IDLE"    -> "none"
    [] state = "ST_COLLECT" -> "gathering"
    [] state = "ST_HELD"    -> IF longFired THEN "long" ELSE "settled"

Abstract == INSTANCE Buttons WITH gesture <- Gesture, mask <- chord, last <- lastClick

ImplementsButtons == Abstract!Spec
=============================================================================
