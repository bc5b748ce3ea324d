-------------------------- MODULE RenderQueueProofs --------------------------
(***************************************************************************)
(* What holds of RenderQueue for every size of the ring and any number of  *)
(* operations and turns of the main loop.                                  *)
(***************************************************************************)
EXTENDS RenderQueue, SequenceTheorems, TLAPS

Slots == 0 .. MaxSize - 1

LEMMA Sizes == MaxSize \in Nat /\ MaxSize > 1
BY SizeAssumption

LEMMA NoOpType == NoOp \in Operations
BY DEF NoOp, Operations

LEMMA FollowingSlot == \A p \in Slots : Following(p) \in Slots
BY Sizes DEF Slots, Following

\* The type invariant.
LEMMA InitType == Init => TypeOK
<1> SUFFICES ASSUME Init PROVE TypeOK
  OBVIOUS
<1>1. /\ queue \in [0 .. MaxSize - 1 -> Operations] /\ op \in Operations /\ cur \in Operations
      /\ rp \in 0 .. MaxSize - 1 /\ wp \in 0 .. MaxSize - 1
  BY Sizes, NoOpType DEF Init
<1>2. /\ prev \in Int /\ saved \in Int /\ screen \in Int
      /\ done \in Nat /\ sent \in Nat /\ count \in Nat /\ pump \in Nat
  BY DEF Init
<1>3. rpc \in RenderPcs /\ mpc \in MainPcs
  BY DEF Init, RenderPcs, MainPcs
<1>4. need_notify \in BOOLEAN /\ spinner \in BOOLEAN /\ dc \in BOOLEAN /\ idle \in BOOLEAN
  BY DEF Init
<1>5. onoff \in 0 .. 2
  BY DEF Init
<1> QED BY <1>1, <1>2, <1>3, <1>4, <1>5 DEF TypeOK

LEMMA NextType == TypeOK /\ [Next]_vars => TypeOK'
<1> SUFFICES ASSUME TypeOK, [Next]_vars PROVE TypeOK'
  OBVIOUS
<1> USE DEF TypeOK, vars, ring, render, picture, main, loop, mainSide
<1>1. CASE Paint
  <2>1. cur' \in Operations
    BY <1>1 DEF Paint, Operations
  <2> QED BY <1>1, <2>1 DEF Paint, MainPcs
<1>2. CASE Destroy
  <2>1. cur' \in Operations
    BY <1>2 DEF Destroy, Operations
  <2> QED BY <1>2, <2>1 DEF Destroy, MainPcs
<1>3. CASE TrySubmit
  <2>1. rpc' \in RenderPcs /\ mpc' \in MainPcs
    BY <1>3 DEF TrySubmit, Signal, RenderPcs, MainPcs
  <2>2. queue' \in [0 .. MaxSize - 1 -> Operations] /\ wp' \in 0 .. MaxSize - 1 /\ sent' \in Nat
    BY <1>3, FollowingSlot DEF TrySubmit, Slots, Operations
  <2> QED BY <1>3, <2>1, <2>2 DEF TrySubmit
<1>4. CASE Retry \/ Join \/ HandlersDone
  BY <1>4 DEF Retry, Join, HandlersDone, MainPcs
<1>4a. CASE EnterPoll
  <2>1. count' \in Nat /\ mpc' \in MainPcs
    BY <1>4a DEF EnterPoll, MainPcs
  <2> QED BY <1>4a, <2>1 DEF EnterPoll
<1>4c. CASE LeavePoll
  <2>1. idle' \in BOOLEAN /\ pump' \in Nat /\ mpc' \in MainPcs
    BY <1>4c DEF LeavePoll, MainPcs
  <2> QED BY <1>4c, <2>1 DEF LeavePoll
<1>4b. CASE SetSpinnerDC \/ SetSpinnerOnOff
  <2>1. onoff' \in 0 .. 2 /\ mpc' \in MainPcs
    BY <1>4b DEF SetSpinnerDC, SetSpinnerOnOff, MainPcs
  <2>2. dc' \in BOOLEAN
    BY <1>4b DEF SetSpinnerDC, SetSpinnerOnOff
  <2> QED BY <1>4b, <2>1, <2>2 DEF SetSpinnerDC, SetSpinnerOnOff
<1>5. CASE Take
  BY <1>5, FollowingSlot DEF Take, DisableSpinner, RenderPcs, Slots
<1>6. CASE Execute
  BY <1>6 DEF Execute, RenderPcs, Operations
<1>7. CASE Drained
  <2>1. need_notify' = FALSE /\ rpc' = "wait" /\ (pump' = pump \/ pump' = pump + 1)
    BY <1>7, Zenon DEF Drained
  <2>2. pump' \in Nat
    BY <2>1
  <2>3. need_notify' \in BOOLEAN
    BY <2>1, Zenon
  <2>4. rpc' \in RenderPcs
    BY <2>1 DEF RenderPcs
  <2> QED BY <1>7, <2>2, <2>3, <2>4 DEF Drained
<1>7a. CASE TimeOut \/ Spurious \/ SeesBusy
  BY <1>7a DEF TimeOut, Spurious, SeesBusy, RenderPcs
<1>8. CASE NotBusy
  BY <1>8 DEF NotBusy, DisableSpinner, Again, RenderPcs
<1>9. CASE Compare
  <2>1. rpc' \in RenderPcs /\ prev' \in Int
    BY <1>9 DEF Compare, Again, RenderPcs
  <2>2. spinner' \in BOOLEAN /\ saved' \in Int /\ screen' \in Int
    BY <1>9 DEF Compare, EnableSpinner, DisableSpinner
  <2> QED BY <1>9, <2>1, <2>2 DEF Compare
<1>10. CASE UNCHANGED vars
  BY <1>10
<1> QED BY <1>1, <1>2, <1>3, <1>4, <1>4a, <1>4b, <1>4c, <1>5, <1>6, <1>7, <1>7a, <1>8, <1>9, <1>10
        DEF Next, MainStep, RenderStep, Ended

\* Every variable of gRC keeps its type: rp and wp stay inside the ring.
THEOREM RenderQueueTypes == Spec => []TypeOK
BY InitType, NextType, PTL DEF Spec

-----------------------------------------------------------------------------
(* The spinner                                                              *)

LEMMA SpinnerInv == TypeOK /\ SpinnerHidden /\ [Next]_vars => SpinnerHidden'
<1> SUFFICES ASSUME TypeOK, SpinnerHidden, [Next]_vars PROVE SpinnerHidden'
  OBVIOUS
<1>1. CASE Take
  BY <1>1 DEF Take, DisableSpinner, SpinnerHidden
<1>2. CASE rpc' # "exec"
  BY <1>2 DEF SpinnerHidden
<1>3. CASE rpc' = rpc /\ spinner' = spinner
  BY <1>3 DEF SpinnerHidden
<1>4. Take \/ rpc' # "exec" \/ (rpc' = rpc /\ spinner' = spinner)
  <2>1. CASE MainStep
    BY <2>1 DEF MainStep, Paint, Destroy, TrySubmit, Signal, Retry, Join, HandlersDone,
       EnterPoll, LeavePoll, SetSpinnerDC, SetSpinnerOnOff, render, picture
  <2>2. CASE RenderStep \/ TimeOut \/ Spurious
    BY <2>2 DEF RenderStep, Execute, Drained, NotBusy, SeesBusy, Compare, Again, TimeOut, Spurious
  <2>3. CASE UNCHANGED vars
    BY <2>3 DEF vars, render, picture
  <2> QED BY <2>1, <2>2, <2>3 DEF Next, Ended
<1> QED BY <1>1, <1>2, <1>3, <1>4

\* The spinner is never displayed while the render thread executes an operation, whether
\* or not setSpinnerOnOff is used.
THEOREM SpinnerHiddenAlways == Spec => []SpinnerHidden
<1>1. Init => SpinnerHidden
  BY DEF Init, SpinnerHidden
<1> QED BY <1>1, SpinnerInv, RenderQueueTypes, PTL DEF Spec

\* Until setSpinnerOnOff is called, what the spinner covers is what has been painted.
Background ==
  onoff = 1 => /\ screen = done
               /\ spinner => saved = done

LEMMA BackgroundInv ==
  TypeOK /\ SpinnerHidden /\ Background /\ [Next]_vars => Background'
<1> SUFFICES ASSUME TypeOK, SpinnerHidden, Background, [Next]_vars, onoff' = 1
             PROVE  screen' = done' /\ (spinner' => saved' = done')
  BY DEF Background
<1>1. onoff = 1
  BY DEF Next, MainStep, RenderStep, Paint, Destroy, TrySubmit, Retry, Join, HandlersDone,
     EnterPoll, LeavePoll, SetSpinnerDC, SetSpinnerOnOff, Take, Execute, Drained, NotBusy,
     SeesBusy, Compare, TimeOut, Spurious, Ended, vars, mainSide
<1>2. CASE UNCHANGED <<picture, done>>
  BY <1>1, <1>2 DEF picture, Background
<1>3. CASE DisableSpinner /\ done' = done
  BY <1>1, <1>3 DEF DisableSpinner, Background
<1>4. CASE EnableSpinner /\ done' = done
  <2>1. CASE dc
    <3>1. CASE spinner
      BY <1>1, <1>4, <2>1, <3>1 DEF EnableSpinner, Background
    <3>2. CASE ~spinner
      BY <1>1, <1>4, <2>1, <3>2 DEF EnableSpinner, Background
    <3> QED BY <3>1, <3>2
  <2>2. CASE ~dc
    BY <1>1, <1>4, <2>2 DEF EnableSpinner, Background
  <2> QED BY <2>1, <2>2
<1>5. CASE Execute
  BY <1>5 DEF Execute, SpinnerHidden
<1>6. \/ UNCHANGED <<picture, done>> \/ Execute
      \/ (DisableSpinner \/ EnableSpinner) /\ done' = done
  BY DEF Next, MainStep, RenderStep, Paint, Destroy, TrySubmit, Retry, Join, HandlersDone,
     EnterPoll, LeavePoll, SetSpinnerDC, SetSpinnerOnOff, Take, Drained, NotBusy,
     SeesBusy, Compare, TimeOut, Spurious, Ended, vars, render
<1> QED BY <1>2, <1>3, <1>4, <1>5, <1>6

\* As long as nobody has called setSpinnerOnOff, hiding the spinner restores exactly the
\* picture it covered: no painting is undone by gDC::disableSpinner.
THEOREM PictureCompleteAlways == Spec => []PictureComplete
<1>1. Init => Background /\ SpinnerHidden
  BY DEF Init, Background, SpinnerHidden
<1>2. Background => PictureComplete
  BY DEF Background, PictureComplete
<1> QED BY <1>1, <1>2, BackgroundInv, SpinnerInv, RenderQueueTypes, PTL DEF Spec

-----------------------------------------------------------------------------
(* The ring as a queue                                                      *)

LEMMA LengthType == TypeOK => Length \in 0 .. MaxSize - 1 /\ (Empty <=> Length = 0)
BY Sizes DEF TypeOK, Length, Empty

LEMMA SlotType ==
  TypeOK => /\ \A i \in 0 .. MaxSize - 1 : Slot(i) \in Slots
            /\ \A i \in 0 .. Length - 1 : Slot(i) # wp
            /\ Slot(Length) = wp
            /\ Slot(0) = rp
BY Sizes DEF TypeOK, Length, Slot, Slots

ContentsAreQueue ==
  /\ Contents \in Seq(Operations)
  /\ Len(Contents) = Length
  /\ \A i \in 1 .. Length : Contents[i] = queue[Slot(i - 1)]

LEMMA ContentsType == TypeOK => ContentsAreQueue
<1> SUFFICES ASSUME TypeOK PROVE ContentsAreQueue
  OBVIOUS
<1>1. Length \in Nat /\ Length < MaxSize
  BY LengthType, Sizes
<1>2. \A i \in 1 .. Length : queue[Slot(i - 1)] \in Operations
  <2> TAKE i \in 1 .. Length
  <2>1. i - 1 \in 0 .. MaxSize - 1
    BY <1>1, Sizes
  <2>2. Slot(i - 1) \in 0 .. MaxSize - 1
    BY <2>1, SlotType DEF Slots
  <2> QED BY <2>2 DEF TypeOK
<1>3. Contents \in [1 .. Length -> Operations]
  BY <1>2 DEF Contents
<1> QED BY <1>1, <1>3, SeqDef DEF Contents, ContentsAreQueue

LEMMA InFlightType == TypeOK => /\ InFlight \in Seq(Operations)
                                /\ InFlight \o Contents \in Seq(Operations)
                                /\ Len(InFlight) = IF rpc = "exec" THEN 1 ELSE 0
<1> SUFFICES ASSUME TypeOK PROVE /\ InFlight \in Seq(Operations)
                                 /\ InFlight \o Contents \in Seq(Operations)
                                 /\ Len(InFlight) = IF rpc = "exec" THEN 1 ELSE 0
  OBVIOUS
<1>1. InFlight \in Seq(Operations)
  BY EmptySeq DEF InFlight, TypeOK
<1>2. InFlight \o Contents \in Seq(Operations)
  BY <1>1, ContentsType, ConcatProperties DEF ContentsAreQueue
<1> QED BY <1>1, <1>2 DEF InFlight

\* Copying the oldest operation out of the ring leaves the others, in their order.
LEMMA TakeContents ==
  ASSUME TypeOK, TypeOK', Take
  PROVE  <<queue[rp]>> \o Contents' = Contents
<1>1. Length' = Length - 1 /\ Length \in 1 .. MaxSize - 1 /\ Length' \in Nat
  BY Sizes DEF TypeOK, Length, Take, Empty, Following
<1>2. Contents' \in Seq(Operations) /\ Len(Contents') = Length'
      /\ \A i \in 1 .. Length' : Contents'[i] = queue'[Slot(i - 1)']
  <2>1. ContentsAreQueue'
    BY ContentsType, PTL
  <2> QED BY <2>1 DEF ContentsAreQueue
<1>3. /\ Contents \in Seq(Operations) /\ Len(Contents) = Length
      /\ \A i \in 1 .. Length : Contents[i] = queue[Slot(i - 1)]
  BY ContentsType DEF ContentsAreQueue
<1>4. \A i \in 0 .. Length - 2 : Slot(i)' = Slot(i + 1)
  BY <1>1, Sizes DEF Slot, Take, Following, TypeOK
<1>5. <<queue[rp]>> \in Seq(Operations) /\ Len(<<queue[rp]>>) = 1
  <2>1. queue[rp] \in Operations
    BY DEF TypeOK
  <2> QED BY <2>1
<1> DEFINE s == <<queue[rp]>> \o Contents'
<1>6. s \in Seq(Operations) /\ Len(s) = Length
      /\ \A i \in 1 .. Length : s[i] = IF i <= 1 THEN <<queue[rp]>>[i] ELSE Contents'[i - 1]
  BY <1>1, <1>2, <1>5, ConcatProperties
<1>7. \A i \in 1 .. Length : s[i] = Contents[i]
  <2> TAKE i \in 1 .. Length
  <2>1. CASE i = 1
    <3>1. s[1] = queue[rp]
      BY <1>1, <1>6
    <3>2. Contents[1] = queue[Slot(0)]
      BY <1>1, <1>3
    <3> QED BY <2>1, <3>1, <3>2, SlotType
  <2>2. CASE i # 1
    <3>1. i - 1 \in 1 .. Length' /\ i - 2 \in 0 .. Length - 2
      BY <1>1, <2>2
    <3>2. s[i] = Contents'[i - 1]
      BY <1>6, <2>2, <3>1
    <3>3. Contents'[i - 1] = queue'[Slot(i - 2)']
      BY <1>2, <3>1
    <3>4. Slot(i - 2)' = Slot(i - 1)
      BY <1>4, <3>1
    <3>5. Contents[i] = queue[Slot(i - 1)]
      BY <1>3
    <3>6. queue' = queue
      BY DEF Take
    <3> QED BY <3>2, <3>3, <3>4, <3>5, <3>6
  <2> QED BY <2>1, <2>2
<1> HIDE DEF s
<1>8. s = Contents
  BY <1>3, <1>6, <1>7, SeqEqual
<1> QED BY <1>8 DEF s

\* An operation that submit writes comes last, and overwrites none that is pending.
LEMMA SubmitContents ==
  ASSUME TypeOK, TypeOK', ~Full, cur \in Operations,
         queue' = [queue EXCEPT ![wp] = cur], wp' = Following(wp), rp' = rp
  PROVE  Contents' = Append(Contents, cur) /\ Length < MaxSize - 1
<1>1. Length' = Length + 1 /\ Length \in 0 .. MaxSize - 2
  <2>1. rp \in 0 .. MaxSize - 1 /\ wp \in 0 .. MaxSize - 1
    BY DEF TypeOK
  <2>2. rp' = rp /\ Following(wp) # rp /\ wp' = IF wp + 1 = MaxSize THEN 0 ELSE wp + 1
    BY DEF Full, Following
  <2>3. CASE wp + 1 = MaxSize
    BY <2>1, <2>2, <2>3, Sizes DEF Length, Following
  <2>4. CASE wp + 1 # MaxSize
    BY <2>1, <2>2, <2>4, Sizes DEF Length, Following
  <2> QED BY <2>3, <2>4
<1>2. Contents' \in Seq(Operations) /\ Len(Contents') = Length'
      /\ \A i \in 1 .. Length' : Contents'[i] = queue'[Slot(i - 1)']
  <2>1. ContentsAreQueue'
    BY ContentsType, PTL
  <2> QED BY <2>1 DEF ContentsAreQueue
<1>3. /\ Contents \in Seq(Operations) /\ Len(Contents) = Length
      /\ \A i \in 1 .. Length : Contents[i] = queue[Slot(i - 1)]
  BY ContentsType DEF ContentsAreQueue
<1>4. \A i : Slot(i)' = Slot(i)
  BY DEF Slot
<1>5. /\ Append(Contents, cur) \in Seq(Operations)
      /\ Len(Append(Contents, cur)) = Length + 1
      /\ \A i \in 1 .. Length : Append(Contents, cur)[i] = Contents[i]
      /\ Append(Contents, cur)[Length + 1] = cur
  BY <1>3, AppendProperties
<1>6. \A i \in 1 .. Length' : Contents'[i] = Append(Contents, cur)[i]
  <2> TAKE i \in 1 .. Length'
  <2>1. Contents'[i] = queue'[Slot(i - 1)]
    BY <1>2, <1>4
  <2>2. CASE i = Length + 1
    <3>1. Slot(i - 1) = wp
      BY <1>1, <2>2, SlotType
    <3>2. queue'[wp] = cur
      BY DEF TypeOK
    <3> QED BY <1>5, <2>1, <2>2, <3>1, <3>2
  <2>3. CASE i # Length + 1
    <3>1. i \in 1 .. Length /\ i - 1 \in 0 .. Length - 1 /\ i - 1 \in 0 .. MaxSize - 1
      BY <1>1, <2>3, Sizes
    <3>2. Slot(i - 1) # wp /\ Slot(i - 1) \in Slots
      BY <3>1, SlotType
    <3>3. queue'[Slot(i - 1)] = queue[Slot(i - 1)]
      BY <3>2 DEF TypeOK, Slots
    <3> QED BY <1>3, <1>5, <2>1, <3>1, <3>3
  <2> QED BY <2>2, <2>3
<1>7. Contents' = Append(Contents, cur)
  BY <1>1, <1>2, <1>5, <1>6, SeqEqual
<1> QED BY <1>1, <1>7, Sizes

-----------------------------------------------------------------------------
(* Operations are numbered in the order of submission                       *)

InRender == IF rpc = "exec" THEN 1 ELSE 0

Numbered ==
  /\ sent = done + InRender + Length
  /\ \A i \in 1 .. Length : Contents[i].id = done + InRender + i
  /\ rpc = "exec" => op.id = done + 1
  /\ mpc \in {"submit", "retry"} => cur.id = sent + 1

LEMMA SameRing == ring' = ring => Contents' = Contents /\ Length' = Length /\ (Empty <=> Empty')
BY DEF ring, Contents, Length, Slot, Empty

\* The steps that leave the ring, the executed operations and the submitted ones alone.
Quiet ==
  /\ ring' = ring /\ done' = done /\ sent' = sent
  /\ rpc' = "exec" <=> rpc = "exec"
  /\ op' = op
  /\ mpc' \in {"submit", "retry"} =>
       cur'.id = sent + 1 \/ (mpc \in {"submit", "retry"} /\ cur' = cur)

LEMMA QuietSteps ==
  ASSUME TypeOK, [Next]_vars, ~Take, ~Execute, ~(TrySubmit /\ ~Full)
  PROVE  Quiet
<1>1. CASE Paint \/ Destroy
  <2>1. cur'.id = sent + 1 /\ ring' = ring /\ render' = render /\ sent' = sent
    BY <1>1 DEF Paint, Destroy
  <2> QED BY <2>1 DEF Quiet, render
<1>2. CASE TrySubmit
  BY <1>2 DEF TrySubmit, Signal, Quiet, ring
<1>3. CASE Retry \/ Join \/ HandlersDone \/ EnterPoll \/ LeavePoll
  BY <1>3 DEF Retry, Join, HandlersDone, EnterPoll, LeavePoll, render, Quiet
<1>4. CASE SetSpinnerDC \/ SetSpinnerOnOff \/ UNCHANGED vars
  BY <1>4 DEF SetSpinnerDC, SetSpinnerOnOff, vars, mainSide, render, main, Quiet
<1>5. CASE Drained \/ TimeOut \/ Spurious \/ NotBusy \/ SeesBusy \/ Compare
  BY <1>5 DEF Drained, TimeOut, Spurious, NotBusy, SeesBusy, Compare, Again, mainSide, main,
     Quiet
<1> QED BY <1>1, <1>2, <1>3, <1>4, <1>5 DEF Next, MainStep, RenderStep, Ended

LEMMA NumberedInit == Init => Numbered
BY DEF Init, Numbered, InRender, Length, Contents

LEMMA NumberedStep == TypeOK /\ TypeOK' /\ Numbered /\ [Next]_vars => Numbered'
<1> SUFFICES ASSUME TypeOK, TypeOK', Numbered, [Next]_vars PROVE Numbered'
  OBVIOUS
<1>0. Length \in Nat /\ done \in Nat /\ sent \in Nat /\ InRender \in {0, 1}
  <2>1. Length \in Nat
    BY LengthType, Sizes
  <2>2. done \in Nat /\ sent \in Nat
    BY DEF TypeOK
  <2> QED BY <2>1, <2>2 DEF InRender
<1>1. CASE Take
  <2>1. /\ rpc = "top" /\ rpc' = "exec" /\ done' = done /\ sent' = sent /\ op' = queue[rp]
        /\ mpc' = mpc /\ cur' = cur
    BY <1>1 DEF Take, mainSide, main
  <2>2. <<queue[rp]>> \o Contents' = Contents
    BY <1>1, TakeContents
  <2>3. ContentsAreQueue /\ ContentsAreQueue'
    BY ContentsType, PTL
  <2>4. queue[rp] \in Operations
    BY DEF TypeOK
  <2>a. Length = 1 + Length' /\ Length' \in Nat /\ Length >= 1
    BY <1>0, <2>2, <2>3, <2>4 DEF ContentsAreQueue
  <2>5. /\ Length = 1 + Length' /\ Length' \in Nat
        /\ Contents[1] = queue[rp]
        /\ \A i \in 1 .. Length' : Contents[i + 1] = Contents'[i]
    BY <1>0, <2>2, <2>3, <2>4, <2>a DEF ContentsAreQueue
  <2>6. InRender = 0 /\ InRender' = 1
    BY <2>1 DEF InRender
  <2>7. op'.id = done' + 1
    <3>0. \A n \in Nat : n >= 1 => 1 \in 1 .. n
      OBVIOUS
    <3>a. Length \in Nat /\ Length >= 1
      BY <1>0, <2>a
    <3>1. 1 \in 1 .. Length
      BY <3>0, <3>a, Zenon
    <3>2. Contents[1].id = done + InRender + 1
      BY <3>1 DEF Numbered
    <3>3. op' = Contents[1] /\ done' = done
      BY <2>1, <2>5
    <3> QED BY <1>0, <2>6, <3>2, <3>3
  <2>8. \A i \in 1 .. Length' : Contents'[i].id = done' + InRender' + i
    <3> TAKE i \in 1 .. Length'
    <3>1. i + 1 \in 1 .. Length /\ i \in Nat
      BY <2>5
    <3>2. Contents[i + 1].id = done + InRender + (i + 1)
      BY <3>1 DEF Numbered
    <3> QED BY <1>0, <2>1, <2>5, <2>6, <3>1, <3>2
  <2>9. sent' = done' + InRender' + Length'
    BY <1>0, <2>1, <2>5, <2>6 DEF Numbered
  <2>10. mpc' \in {"submit", "retry"} => cur'.id = sent' + 1
    BY <2>1 DEF Numbered
  <2> QED BY <2>7, <2>8, <2>9, <2>10 DEF Numbered
<1>2. CASE Execute
  <2>1. /\ rpc = "exec" /\ rpc' # "exec" /\ done' = op.id /\ sent' = sent
        /\ mpc' = mpc /\ cur' = cur /\ ring' = ring
    BY <1>2 DEF Execute, mainSide, main
  <2>2. Contents' = Contents /\ Length' = Length
    BY <2>1, SameRing
  <2>3. InRender = 1 /\ InRender' = 0 /\ done' = done + 1
    BY <2>1 DEF InRender, Numbered
  <2>4. \A i \in 1 .. Length' : Contents'[i].id = done' + InRender' + i
    BY <1>0, <2>2, <2>3 DEF Numbered
  <2>5. sent' = done' + InRender' + Length'
    BY <1>0, <2>1, <2>2, <2>3 DEF Numbered
  <2> QED BY <2>1, <2>4, <2>5 DEF Numbered
<1>3. CASE TrySubmit /\ ~Full
  <2>1. /\ rpc' = "exec" <=> rpc = "exec"
        /\ done' = done /\ op' = op /\ sent' = cur.id /\ mpc' \notin {"submit", "retry"}
        /\ mpc = "submit"
    BY <1>3 DEF TrySubmit, Signal
  <2>2. Contents' = Append(Contents, cur)
    BY <1>3, SubmitContents DEF TrySubmit, TypeOK
  <2>3. ContentsAreQueue /\ ContentsAreQueue'
    BY ContentsType, PTL
  <2>4. cur \in Operations
    BY DEF TypeOK
  <2>5. /\ Length' = Length + 1
        /\ Contents'[Length + 1] = cur
        /\ \A i \in 1 .. Length : Contents'[i] = Contents[i]
    BY <2>2, <2>3, <2>4, AppendProperties DEF ContentsAreQueue
  <2>6. InRender' = InRender /\ cur.id = sent + 1
    BY <2>1 DEF InRender, Numbered
  <2>7. sent' = done' + InRender' + Length'
    BY <1>0, <2>1, <2>5, <2>6 DEF Numbered
  <2>8. \A i \in 1 .. Length' : Contents'[i].id = done' + InRender' + i
    <3> TAKE i \in 1 .. Length'
    <3>1. CASE i = Length + 1
      BY <1>0, <2>1, <2>5, <2>6, <3>1 DEF Numbered
    <3>2. CASE i # Length + 1
      <4>1. i \in 1 .. Length
        BY <1>0, <2>5, <3>2
      <4> QED BY <2>1, <2>5, <2>6, <4>1 DEF Numbered
    <3> QED BY <3>1, <3>2
  <2>9. rpc' = "exec" => op'.id = done' + 1
    BY <2>1 DEF Numbered
  <2> QED BY <2>1, <2>7, <2>8, <2>9 DEF Numbered
<1>4. CASE Quiet
  <2>1. Contents' = Contents /\ Length' = Length /\ InRender' = InRender
    BY <1>4, SameRing DEF Quiet, InRender
  <2> QED BY <1>4, <2>1 DEF Quiet, Numbered
<1> QED BY <1>1, <1>2, <1>3, <1>4, QuietSteps

-----------------------------------------------------------------------------
(* gRC implements RenderFifo                                                *)

Pending == InFlight \o Contents

LEMMA PendingType ==
  TypeOK => /\ Pending \in Seq(Operations)
            /\ Len(Pending) = InRender + Length
            /\ rpc # "exec" => Pending = Contents
            /\ rpc = "exec" => Pending = <<op>> \o Contents
<1> SUFFICES ASSUME TypeOK
             PROVE  /\ Pending \in Seq(Operations)
                    /\ Len(Pending) = InRender + Length
                    /\ rpc # "exec" => Pending = Contents
                    /\ rpc = "exec" => Pending = <<op>> \o Contents
  OBVIOUS
<1>1. InFlight \in Seq(Operations) /\ Len(InFlight) = InRender
  BY InFlightType DEF InRender
<1>2. Contents \in Seq(Operations) /\ Len(Contents) = Length
  BY ContentsType DEF ContentsAreQueue
<1>3. Pending \in Seq(Operations) /\ Len(Pending) = InRender + Length
  BY <1>1, <1>2, ConcatProperties DEF Pending
<1>4. rpc # "exec" => Pending = Contents
  BY <1>2, ConcatEmptySeq DEF Pending, InFlight
<1>5. rpc = "exec" => Pending = <<op>> \o Contents
  BY DEF Pending, InFlight
<1> QED BY <1>3, <1>4, <1>5

LEMMA FifoInit == Init => Fifo!Init
<1> SUFFICES ASSUME Init PROVE Fifo!Init
  OBVIOUS
<1>1. TypeOK
  BY InitType
<1>2. Length = 0 /\ rpc # "exec"
  BY DEF Init, Length
<1>3. Contents = <<>>
  BY <1>1, <1>2, ContentsType, EmptySeq DEF ContentsAreQueue
<1>4. InFlight \o Contents = <<>>
  BY <1>1, <1>2, <1>3, PendingType DEF Pending
<1>5. done = 0 /\ need_notify = FALSE /\ pump = 0
  BY DEF Init
<1> QED BY <1>4, <1>5 DEF Fifo!Init

LEMMA FifoStep ==
  TypeOK /\ TypeOK' /\ Numbered /\ [Next]_vars => [Fifo!Next]_Fifo!fifo
<1> SUFFICES ASSUME TypeOK, TypeOK', Numbered, [Next]_vars PROVE [Fifo!Next]_Fifo!fifo
  OBVIOUS
<1>0. /\ Contents \in Seq(Operations) /\ Len(Contents) = Length
      /\ Contents' \in Seq(Operations)
  <2>1. ContentsAreQueue /\ ContentsAreQueue'
    BY ContentsType, PTL
  <2> QED BY <2>1 DEF ContentsAreQueue
<1>a. rpc' # "exec" => Pending' = Contents'
  BY <1>0, ConcatEmptySeq DEF Pending, InFlight
<1>b. rpc' = "exec" => Pending' = <<op'>> \o Contents'
  BY DEF Pending, InFlight
<1>1. CASE Take
  <2>1. /\ rpc = "top" /\ rpc' = "exec" /\ op' = queue[rp]
        /\ UNCHANGED <<done, need_notify, pump>>
    BY <1>1 DEF Take
  <2>2. Pending' = Pending
    BY <1>1, <1>b, <2>1, TakeContents, PendingType
  <2> QED BY <2>1, <2>2 DEF Fifo!fifo, Pending
<1>2. CASE Execute
  <2>1. /\ rpc = "exec" /\ rpc' # "exec" /\ done' = op.id /\ ring' = ring /\ UNCHANGED pump
        /\ need_notify' = (need_notify \/ op.kind = "notify")
    BY <1>2 DEF Execute
  <2>2. Pending = <<op>> \o Contents /\ Pending' = Contents
    BY <1>a, <2>1, SameRing, PendingType
  <2>3. op \in Operations
    BY DEF TypeOK
  <2>4. Pending # <<>> /\ Head(Pending) = op /\ Tail(Pending) = Contents
    BY <1>0, <2>2, <2>3
  <2>5. Fifo!Execute
    BY <2>1, <2>2, <2>4 DEF Fifo!Execute, Pending
  <2> QED BY <2>5 DEF Fifo!Next
<1>3. CASE TrySubmit /\ ~Full
  <2>1. /\ rpc' = "exec" <=> rpc = "exec"
        /\ op' = op /\ mpc = "submit" /\ UNCHANGED <<done, need_notify, pump>>
    BY <1>3 DEF TrySubmit, Signal
  <2>2. Contents' = Append(Contents, cur) /\ Length < MaxSize - 1
    BY <1>3, SubmitContents DEF TrySubmit, TypeOK
  <2>3. cur \in Operations /\ op \in Operations
    BY DEF TypeOK
  <2>4. Pending' = Append(Pending, cur)
    <3>1. CASE rpc = "exec"
      <4>1. <<op>> \o Append(Contents, cur) = Append(<<op>> \o Contents, cur)
        BY <1>0, <2>3
      <4> QED BY <1>b, <2>1, <2>2, <3>1, <4>1, PendingType
    <3>2. CASE rpc # "exec"
      BY <1>a, <2>1, <2>2, <3>2, PendingType
    <3> QED BY <3>1, <3>2
  <2>5. Len(Pending) = InRender + Length /\ InRender \in {0, 1} /\ Length \in Nat
    BY PendingType, LengthType, Sizes DEF InRender
  <2>6. Len(Pending) < MaxSize
    BY <2>2, <2>5, Sizes
  <2>7. cur.id = done + Len(Pending) + 1
    <3>1. cur.id = sent + 1 /\ sent = done + InRender + Length
      BY <2>1 DEF Numbered
    <3>2. done \in Nat
      BY DEF TypeOK
    <3> QED BY <2>5, <3>1, <3>2
  <2>8. cur = [kind |-> cur.kind, id |-> done + Len(Pending) + 1]
    BY <2>3, <2>7 DEF Operations
  <2>9. cur.kind \in Kinds \cup {"shutdown"}
    BY <2>3 DEF Operations
  <2>10. Fifo!Submit
    BY <2>1, <2>4, <2>6, <2>8, <2>9 DEF Fifo!Submit, Pending
  <2> QED BY <2>10 DEF Fifo!Next
<1>4. CASE Drained
  <2>1. /\ rpc = "top" /\ rpc' = "wait" /\ ring' = ring /\ need_notify' = FALSE /\ done' = done
        /\ pump' = IF need_notify THEN pump + 1 ELSE pump
    BY <1>4 DEF Drained, ring
  <2>2. Pending = <<>>
    <3>1. Empty
      BY <1>4 DEF Drained
    <3> QED BY <1>0, <2>1, <3>1, LengthType, PendingType, EmptySeq
  <2>3. Pending' = Pending
    BY <1>a, <2>1, SameRing, PendingType
  <2>4. CASE need_notify
    <3>1. Fifo!Announce
      BY <2>1, <2>2, <2>3, <2>4 DEF Fifo!Announce, Pending
    <3> QED BY <3>1 DEF Fifo!Next
  <2>5. CASE ~need_notify
    <3>1. need_notify' = need_notify
      BY <2>1, <2>5, Zenon DEF TypeOK
    <3> QED BY <2>1, <2>3, <2>5, <3>1 DEF Fifo!fifo, Pending
  <2> QED BY <2>4, <2>5
<1>5. CASE Quiet /\ need_notify' = need_notify
  <2>1. Pending' = Pending
    <3>1. Contents' = Contents /\ (rpc' = "exec" <=> rpc = "exec") /\ op' = op
      BY <1>5, SameRing DEF Quiet
    <3> QED BY <3>1, <1>a, <1>b, PendingType
  <2>2. done' = done
    BY <1>5 DEF Quiet
  <2>3. CASE LeavePoll /\ pump > 0
    <3>1. Fifo!Receive
      BY <1>5, <2>1, <2>2, <2>3 DEF LeavePoll, Fifo!Receive, Pending
    <3> QED BY <3>1 DEF Fifo!Next
  <2>4. CASE ~(LeavePoll /\ pump > 0) /\ ~Drained /\ ~Execute
    <3>1. pump' = pump
      <4>1. CASE LeavePoll
        BY <2>4, <4>1 DEF LeavePoll, TypeOK
      <4>2. CASE ~LeavePoll
        BY <2>4, <4>2 DEF Next, MainStep, RenderStep, Paint, Destroy, TrySubmit, Retry, Join,
           HandlersDone, EnterPoll, SetSpinnerDC, SetSpinnerOnOff, Take, NotBusy, SeesBusy,
           Compare, TimeOut, Spurious, Ended, vars
      <4> QED BY <4>1, <4>2
    <3> QED BY <1>5, <2>1, <2>2, <3>1 DEF Fifo!fifo, Pending
  <2>5. CASE Drained
    BY <1>4, <2>5
  <2>6. CASE Execute
    BY <1>2, <2>6
  <2> QED BY <2>3, <2>4, <2>5, <2>6
<1>6. Drained \/ Execute \/ need_notify' = need_notify
  BY DEF Next, MainStep, RenderStep, Paint, Destroy, TrySubmit, Retry, Join,
     HandlersDone, EnterPoll, LeavePoll, SetSpinnerDC, SetSpinnerOnOff, Take, NotBusy, SeesBusy,
     Compare, TimeOut, Spurious, Ended, vars, render
<1> QED BY <1>1, <1>2, <1>3, <1>4, <1>5, <1>6, QuietSteps

\* Whatever the size of the ring and the schedule of the two threads, operations are
\* executed once each, in the order of their submission, and a notification is announced
\* only when everything submitted before it has been executed.
THEOREM GrcImplementsFifo == Spec => ImplementsFifo
<1>1. Spec => []Numbered
  BY NumberedInit, NumberedStep, RenderQueueTypes, PTL DEF Spec
<1>2. Spec => Fifo!Spec
  BY <1>1, FifoInit, FifoStep, RenderQueueTypes, PTL DEF Spec, Fifo!Spec
<1> QED BY <1>2 DEF ImplementsFifo
=============================================================================
