------------------------------ MODULE Input_proofs ------------------------------
(***************************************************************************)
(* Proofs about the decoder, for any buttons, backend, queue and time      *)
(* constants: its types, that no event names a button that was not held,   *)
(* and that it implements Buttons.                                         *)
(*                                                                         *)
(* The argument needs three facts that no property names: an idle decoder  *)
(* has nothing stable and no chord, long_fired is set in ST_HELD only, and *)
(* a button of the candidate has been down for at least as long as the     *)
(* candidate has stood.                                                    *)
(***************************************************************************)
EXTENDS Input, TLAPS

EventSet == [mask : (SUBSET Present) \ {{}}, kind : {"click", "dblclick", "long", "repeat", "release"}]

Started ==
  /\ (state = "ST_IDLE") <=> (chord = {})
  /\ state = "ST_IDLE" => stable = {}
  /\ longFired => state = "ST_HELD"

Counted == \A b \in candidate : candidateAge <= downAge[b]

IInv ==
  /\ TypeOK /\ Started /\ Counted
  /\ stable \subseteq steady /\ chord \subseteq steady

-----------------------------------------------------------------------------
(* Whether or not there was room, the queue stays a queue.                 *)
LEMMA EmitType ==
  ASSUME NEW q \in Seq(EventSet), Len(q) <= QueueLen,
         NEW m \in (SUBSET Present) \ {{}}, NEW k \in {"click", "dblclick", "long", "repeat", "release"}
  PROVE  Emit(q, m, k) \in Seq(EventSet) /\ Len(Emit(q, m, k)) <= QueueLen
<1>1. [mask |-> m, kind |-> k] \in EventSet
  BY DEF EventSet
<1>2. CASE Len(q) < QueueLen
  BY <1>1, <1>2, InputAssumption DEF Emit
<1>3. CASE ~(Len(q) < QueueLen)
  BY <1>3 DEF Emit
<1> QED BY <1>2, <1>3

(* What a sample does: all that the decoder's turn may rely on.            *)
LEMMA SampleStep ==
  ASSUME IInv, NEW raw \in Samples, NEW dt \in Late, Debounce(raw, dt), Watch(raw, dt)
  PROVE  /\ stable' \subseteq Present /\ candidate' \subseteq Present
         /\ candidateAge' \in 0 .. DEBOUNCE
         /\ downAge' \in [Present -> 0 .. DEBOUNCE] /\ steady' \subseteq Present
         /\ Counted'
         /\ stable' \subseteq steady'
         /\ state # "ST_IDLE" => steady \subseteq steady'
<1> USE InputAssumption DEF IInv, TypeOK
<1>r. raw \subseteq Present
  BY DEF Samples
<1>d. DEBOUNCE \in Nat /\ candidateAge \in 0 .. DEBOUNCE /\ dt \in Nat
  BY DEF Late
<1>1. /\ stable' \subseteq Present /\ candidate' \subseteq Present
      /\ candidateAge' \in 0 .. DEBOUNCE
  <2>1. Older(candidateAge, dt, DEBOUNCE) \in 0 .. DEBOUNCE /\ 0 \in 0 .. DEBOUNCE
    BY <1>d DEF Older
  <2> QED BY <2>1, <1>r DEF Debounce
<1>2. downAge' \in [Present -> 0 .. DEBOUNCE]
  <2>1. ASSUME NEW b \in Present PROVE downAge[b] \in 0 .. DEBOUNCE
    OBVIOUS
  <2>2. ASSUME NEW b \in Present PROVE Older(downAge[b], dt, DEBOUNCE) \in 0 .. DEBOUNCE
    BY <2>1, <1>d DEF Older
  <2> QED BY <2>2, <1>d DEF Watch
<1>3. steady' \subseteq Present
  BY <1>r DEF Watch
<1>4. Counted'
  <2> SUFFICES ASSUME NEW b \in candidate' PROVE candidateAge' <= downAge'[b]
    BY DEF Counted
  <2>1. candidate' = raw /\ b \in raw /\ b \in Present
    BY <1>r DEF Debounce
  <2>2. CASE raw # candidate
    BY <2>1, <2>2, <1>2 DEF Debounce
  <2>3. CASE raw = candidate
    <3>1. candidateAge' = Older(candidateAge, dt, DEBOUNCE)
      BY <2>3 DEF Debounce
    <3>2. downAge'[b] = Older(downAge[b], dt, DEBOUNCE)
      BY <2>1, <2>3 DEF Watch
    <3>3. candidateAge <= downAge[b] /\ downAge[b] \in 0 .. DEBOUNCE
      BY <2>1, <2>3 DEF Counted
    <3> QED BY <3>1, <3>2, <3>3, <1>d DEF Older
  <2> QED BY <2>2, <2>3
<1>5. stable' \subseteq steady'
  <2>1. CASE raw = candidate /\ Older(candidateAge, dt, DEBOUNCE) >= DEBOUNCE
    <3>1. stable' = raw /\ candidateAge' >= DEBOUNCE /\ candidate' = raw
      BY <2>1 DEF Debounce
    <3>2. ASSUME NEW b \in raw PROVE downAge'[b] >= DEBOUNCE
      BY <3>1, <1>4, <1>1, <1>2, <1>r, <1>d DEF Counted
    <3> QED BY <3>1, <3>2 DEF Watch
  <2>2. CASE ~(raw = candidate /\ Older(candidateAge, dt, DEBOUNCE) >= DEBOUNCE)
    <3>1. stable' = stable
      BY <2>2 DEF Debounce
    <3> QED BY <3>1 DEF Watch
  <2> QED BY <2>1, <2>2
<1>6. state # "ST_IDLE" => steady \subseteq steady'
  BY DEF Watch
<1> QED BY <1>1, <1>2, <1>3, <1>4, <1>5, <1>6

(* What Decode makes of it: the decoder's own types, what is started, and  *)
(* the chord.                                                              *)
LEMMA DecodeStep ==
  ASSUME IInv, NEW dt \in Late, Decode(dt), Stamp(dt),
         stable' \subseteq Present, stable' \subseteq steady',
         state # "ST_IDLE" => steady \subseteq steady'
  PROVE  /\ state' \in {"ST_IDLE", "ST_COLLECT", "ST_HELD"}
         /\ chord' \subseteq Present /\ longFired' \in BOOLEAN
         /\ chordAge' \in 0 .. LONG /\ repeatAge' \in 0 .. REPEAT
         /\ lastClick' \subseteq Present /\ clickAge' \in 0 .. DOUBLE + 1
         /\ queue' \in Seq(EventSet) /\ Len(queue') <= QueueLen
         /\ Started' /\ chord' \subseteq steady'
<1> USE InputAssumption DEF IInv, TypeOK
<1>n. LONG \in Nat /\ REPEAT \in Nat /\ DOUBLE + 1 \in Nat /\ dt \in Nat /\ dt > 0
  BY DEF Late
<1>o. /\ Older(chordAge, dt, LONG) \in 0 .. LONG
      /\ Older(repeatAge, dt, REPEAT) \in 0 .. REPEAT
      /\ Older(clickAge, dt, DOUBLE + 1) \in 0 .. DOUBLE + 1
      /\ 0 \in 0 .. LONG /\ 0 \in 0 .. REPEAT /\ 0 \in 0 .. DOUBLE + 1
  BY <1>n DEF Older
<1>q. queue \in Seq(EventSet) /\ Len(queue) <= QueueLen
  BY DEF EventSet
<1>c. clickAge' \in 0 .. DOUBLE + 1
  BY <1>o DEF Stamp
<1>1. CASE Idle(dt)
  BY <1>1, <1>c, <1>q DEF Idle, Started
<1>2. CASE Begin(dt)
  BY <1>2, <1>c, <1>q, <1>o DEF Begin, Started
<1>3. CASE Collect(dt)
  BY <1>3, <1>c, <1>q, <1>o DEF Collect, Joined, Window, Started
<1>4. CASE Hold(dt)
  <2>1. /\ state = "ST_HELD" /\ state' = state /\ chord' = chord /\ lastClick' = lastClick
        /\ chordAge' \in 0 .. LONG /\ chord # {}
    BY <1>4, <1>o DEF Hold, Started
  <2>2. repeatAge' \in 0 .. REPEAT /\ longFired' \in BOOLEAN
    BY <1>4, <1>o DEF Hold
  <2>3. chord \in (SUBSET Present) \ {{}}
    BY <2>1
  <2>4. queue' \in Seq(EventSet) /\ Len(queue') <= QueueLen
    <3>1. \/ queue' = queue \/ queue' = Emit(queue, chord, "long")
          \/ queue' = Emit(queue, chord, "repeat")
      BY <1>4 DEF Hold
    <3> QED BY <3>1, <2>3, <1>q, EmitType
  <2> QED BY <2>1, <2>2, <2>4, <1>c DEF Started
<1>5. CASE Released(dt)
  <2>1. /\ state' = "ST_IDLE" /\ chord' = {} /\ longFired' = FALSE /\ stable' = {}
        /\ chordAge' \in 0 .. LONG /\ repeatAge' \in 0 .. REPEAT
    BY <1>5, <1>o DEF Released, Reset
  <2>2. lastClick' \subseteq Present
    BY <1>5 DEF Released
  <2>3. chord \in (SUBSET Present) \ {{}}
    BY <1>5 DEF Released, Started
  <2>4. queue' \in Seq(EventSet) /\ Len(queue') <= QueueLen
    <3>1. /\ Emit(queue, chord, "release") \in Seq(EventSet)
          /\ Len(Emit(queue, chord, "release")) <= QueueLen
          /\ Emit(queue, chord, "click") \in Seq(EventSet)
          /\ Len(Emit(queue, chord, "click")) <= QueueLen
      BY <2>3, <1>q, EmitType
    <3>2. /\ Emit(Emit(queue, chord, "click"), chord, "dblclick") \in Seq(EventSet)
          /\ Len(Emit(Emit(queue, chord, "click"), chord, "dblclick")) <= QueueLen
      BY <2>3, <3>1, EmitType
    <3> QED BY <1>5, <3>1, <3>2 DEF Released
  <2> QED BY <2>1, <2>2, <2>4, <1>c DEF Started
<1> QED BY <1>1, <1>2, <1>3, <1>4, <1>5 DEF Decode

LEMMA InitIInv == Init => IInv
<1> SUFFICES ASSUME Init PROVE IInv
  OBVIOUS
<1> USE InputAssumption DEF Init
<1>1. queue \in Seq(EventSet) /\ Len(queue) <= QueueLen
  OBVIOUS
<1>2. downAge \in [Present -> 0 .. DEBOUNCE]
  OBVIOUS
<1>3. {candidateAge, chordAge, repeatAge, clickAge} = {0}
  OBVIOUS
<1>4. 0 \in 0 .. DEBOUNCE /\ 0 \in 0 .. LONG /\ 0 \in 0 .. REPEAT /\ 0 \in 0 .. DOUBLE + 1
  OBVIOUS
<1>5. TypeOK
  BY <1>1, <1>2, <1>3, <1>4 DEF TypeOK, EventSet
<1>6. Started /\ Counted
  BY DEF Started, Counted
<1> QED BY <1>5, <1>6 DEF IInv

LEMMA NextIInv == IInv /\ [Next]_vars => IInv'
<1> SUFFICES ASSUME IInv, [Next]_vars PROVE IInv'
  OBVIOUS
<1>1. ASSUME NEW raw \in Samples, NEW dt \in Late, Turn(raw, dt)
      PROVE  IInv'
  <2>1. Debounce(raw, dt) /\ Watch(raw, dt) /\ Decode(dt) /\ Stamp(dt)
    BY <1>1 DEF Turn
  <2>2. /\ stable' \subseteq Present /\ candidate' \subseteq Present
        /\ candidateAge' \in 0 .. DEBOUNCE
        /\ downAge' \in [Present -> 0 .. DEBOUNCE] /\ steady' \subseteq Present
        /\ Counted' /\ stable' \subseteq steady'
        /\ state # "ST_IDLE" => steady \subseteq steady'
    BY <2>1, SampleStep
  <2>3. /\ state' \in {"ST_IDLE", "ST_COLLECT", "ST_HELD"}
        /\ chord' \subseteq Present /\ longFired' \in BOOLEAN
        /\ chordAge' \in 0 .. LONG /\ repeatAge' \in 0 .. REPEAT
        /\ lastClick' \subseteq Present /\ clickAge' \in 0 .. DOUBLE + 1
        /\ queue' \in Seq(EventSet) /\ Len(queue') <= QueueLen
        /\ Started' /\ chord' \subseteq steady'
    BY <2>1, <2>2, DecodeStep
  <2> QED BY <2>2, <2>3 DEF IInv, TypeOK, EventSet
<1>2. CASE Get
  <2>1. queue \in Seq(EventSet) /\ queue # <<>>
    BY <1>2 DEF Get, IInv, TypeOK, EventSet
  <2>2. queue' \in Seq(EventSet) /\ Len(queue') <= QueueLen
    BY <1>2, <2>1, InputAssumption DEF Get, IInv, TypeOK
  <2>3. UNCHANGED <<state, stable, candidate, candidateAge, chord, chordAge, longFired,
                    repeatAge, lastClick, clickAge, downAge, steady>>
    BY <1>2 DEF Get, debounceVars, clickVars, ghosts
  <2> QED BY <2>2, <2>3 DEF IInv, TypeOK, Started, Counted, EventSet
<1>3. CASE UNCHANGED vars
  BY <1>3 DEF vars, debounceVars, clickVars, ghosts, IInv, TypeOK, Started, Counted
<1> QED BY <1>1, <1>2, <1>3 DEF Next, Poll

(* The invariant holds of every behaviour.                                 *)
THEOREM Invariance == Spec => []IInv
BY InitIInv, NextIInv, PTL DEF Spec

(* The decoder's variables keep their ranges: no age runs away, the queue  *)
(* of input.c keeps its length.                                            *)
THEOREM TypeCorrect == Spec => []TypeOK
<1>1. IInv => TypeOK
  BY DEF IInv
<1> QED BY Invariance, <1>1, PTL

(* For any contacts, however they bounce and however late the task: an     *)
(* event names only buttons that were held for the debounce time.          *)
THEOREM NoPhantomPress == Spec => []NoPhantom
<1>1. IInv => NoPhantom
  BY DEF IInv, NoPhantom
<1> QED BY Invariance, <1>1, PTL

-----------------------------------------------------------------------------
(* Refinement: each turn is a step of Buttons or changes nothing of it.    *)

LEMMA InitRefines == Init => Abstract!Init
BY DEF Init, Abstract!Init, Gesture

LEMMA TurnRefines ==
  ASSUME IInv, NEW dt \in Late, Decode(dt), stable' \subseteq Present
  PROVE  [Abstract!Next]_(Abstract!vars)
<1> USE DEF IInv, TypeOK, Started, Gesture, Abstract!Masks
<1>1. CASE Idle(dt)
  BY <1>1 DEF Idle, Abstract!vars
<1>2. CASE Begin(dt)
  <2>1. Abstract!Press
    BY <1>2 DEF Begin, Abstract!Press
  <2> QED BY <2>1 DEF Abstract!Next, Abstract!User
<1>3. CASE Collect(dt)
  <2>1. Abstract!Gather
    BY <1>3 DEF Collect, Joined, Abstract!Gather
  <2> QED BY <2>1 DEF Abstract!Next, Abstract!User
<1>4. CASE Hold(dt)
  <2>1. \/ Abstract!Long \/ Abstract!Repeat \/ UNCHANGED Abstract!vars
    BY <1>4 DEF Hold, Emit, Abstract!Long, Abstract!Repeat, Abstract!Send, Abstract!vars
  <2> QED BY <2>1 DEF Abstract!Next, Abstract!User
<1>5. CASE Released(dt)
  <2>1. Abstract!Click \/ Abstract!Release
    BY <1>5 DEF Released, Reset, Doubles, Emit, Abstract!Click, Abstract!Release, Abstract!Send
  <2> QED BY <2>1 DEF Abstract!Next, Abstract!User
<1> QED BY <1>1, <1>2, <1>3, <1>4, <1>5 DEF Decode

LEMMA NextRefines == IInv /\ IInv' /\ [Next]_vars => [Abstract!Next]_(Abstract!vars)
<1> SUFFICES ASSUME IInv, IInv', [Next]_vars PROVE [Abstract!Next]_(Abstract!vars)
  OBVIOUS
<1>1. ASSUME NEW raw \in Samples, NEW dt \in Late, Turn(raw, dt)
      PROVE  [Abstract!Next]_(Abstract!vars)
  BY <1>1, TurnRefines DEF Turn, IInv, TypeOK
<1>2. CASE Get
  BY <1>2 DEF Get, clickVars, Abstract!Next, Abstract!Take, Gesture
<1>3. CASE UNCHANGED vars
  BY <1>3 DEF vars, debounceVars, clickVars, Abstract!vars, Gesture
<1> QED BY <1>1, <1>2, <1>3 DEF Next, Poll

(* input_task() keeps every promise of input.h that Buttons states: one    *)
(* gesture at a time, its buttons only added while it gathers, a click or  *)
(* a long press and never both, a release for every long press.            *)
THEOREM Refines == Spec => ImplementsButtons
BY InitRefines, NextRefines, Invariance, PTL DEF Spec, ImplementsButtons, Abstract!Spec
=============================================================================
