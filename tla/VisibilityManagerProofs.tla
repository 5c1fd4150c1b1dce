---------------------- MODULE VisibilityManagerProofs ----------------------
(***************************************************************************)
(* The visibility goroutine for any timeout, margin, extension limit and   *)
(* backoffs: how long it keeps a message hidden, and that a backoff is its *)
(* last word.                                                              *)
(***************************************************************************)
EXTENDS VisibilityManager, SequenceTheorems, TLAPS

\* What the next renewal, or the last one, asked for: the first renews to the
\* route's timeout, each later one asks for one timeout more.
Extensions == extension = IF count <= 1 THEN VT ELSE count * VT

\* The signals the goroutine has of its handler: none of a backoff before it is
\* asked for, none of the end before the handler returned; and it applies one
\* backoff at most, then exits.
Signals ==
  /\ hpc \in {"handling", "blocked", "returned"} => ~dispatched
  /\ hpc = "blocked" => backedOff
  /\ ~backedOff => backoffCh = << >>
  /\ applied # << >> => vmpc = "exited"

\* Nothing has come between the handler and the renewals of its message.
Undisturbed == hpc = "handling" /\ ~backedOff /\ ~cancelled /\ faults = 0

\* Seconds since the renewal before this one was due.
SinceTick == Interval - timer + IF tick THEN Interval ELSE 0

\* While nothing comes between, the goroutine ends only at its limit, and what
\* is left is the timeout it asked for last less the time since.
OnSchedule ==
  Undisturbed =>
    /\ vmpc = "exited" => count = Limit + 1
    /\ tick /\ vmpc = "run" => timer = Interval
    /\ count <= Limit => /\ age = count * Interval + SinceTick
                         /\ left = Clamp(extension) - SinceTick
    /\ count = Limit + 1 => age >= Guaranteed \/ left = Guaranteed - age

\* The inductive invariant.
Inv ==
  /\ TypeOK
  /\ Extensions
  /\ Signals
  /\ OnSchedule

-----------------------------------------------------------------------------
(* Arithmetic.                                                              *)

\* What products of the constants are.
LEMMA Products ==
  ASSUME NEW a \in Nat, NEW b \in Nat, NEW c \in Nat
  PROVE  /\ a * c \in Nat
         /\ (a + 1) * c = a * c + c
         /\ a <= b => a * c <= b * c
  OBVIOUS

\* changeVisibility keeps what it asks for within what SQS takes, and keeps
\* what is there already.
LEMMA ClampBounds ==
  ASSUME NEW t \in Int
  PROVE  Clamp(t) \in 0 .. MaxVis /\ (t >= VT => Clamp(t) >= VT)
  BY VisibilityAssumption DEF Clamp

\* The interval, which leaves some of the timeout over, and what the renewals
\* add up to.
LEMMA Times ==
  /\ VT \in Nat \ {0} /\ Limit \in Nat
  /\ Interval \in Nat \ {0} /\ Interval < VT
  /\ Clamp((Limit + 1) * VT) \in Nat
  /\ Guaranteed \in Nat /\ Horizon \in Nat /\ Horizon = Guaranteed + 1
  /\ Guaranteed = (Limit + 1) * Interval + Clamp((Limit + 1) * VT)
<1>1. VT \in Nat \ {0} /\ Limit \in Nat /\ MaxVis \in Nat
  BY VisibilityAssumption
<1>2. Interval \in Nat \ {0} /\ Interval < VT
  BY VisibilityAssumption DEF Interval
<1>3. (Limit + 1) * VT \in Nat /\ (Limit + 1) * Interval \in Nat
  BY <1>1, <1>2, Products
<1>4. Clamp((Limit + 1) * VT) \in Nat
  BY <1>1, <1>3, ClampBounds
<1> QED
  BY <1>1, <1>2, <1>3, <1>4 DEF Guaranteed, Horizon

\* A delay in seconds.
LEMMA SecondsType ==
  ASSUME NEW d \in Delays
  PROVE  Seconds(d) \in Int
  BY VisibilityAssumption DEF Seconds

\* A queue of one takes one.
LEMMA Single ==
  ASSUME NEW S, NEW d \in S
  PROVE  <<d>> \in Seq(S) /\ Len(<<d>>) = 1 /\ Head(<<d>>) = d
  OBVIOUS

\* What changeVisibility leaves.
LEMMA ChangeVisibilityEffect ==
  ASSUME TypeOK, NEW t \in Int, ChangeVisibility(t)
  PROVE  /\ left' \in 0 .. MaxVis /\ faults' \in 0 .. MaxFaults
         /\ ~cancelled /\ faults' = 0 => left' = Clamp(t) /\ faults = 0
<1>1. left \in 0 .. MaxVis /\ faults \in 0 .. MaxFaults /\ MaxFaults \in Nat
  BY VisibilityAssumption DEF TypeOK
<1>2. Clamp(t) \in 0 .. MaxVis
  BY ClampBounds
<1> QED
  BY <1>1, <1>2 DEF ChangeVisibility

-----------------------------------------------------------------------------
(* The steps.                                                               *)

\* A message just received, with its goroutine about to start.
LEMMA InitInv == Init => Inv
<1> SUFFICES ASSUME Init PROVE Inv
  OBVIOUS
<1>1. /\ VT \in Nat \ {0} /\ Limit \in Nat /\ VT <= MaxVis /\ MaxVis \in Nat
      /\ MaxBackoffs \in Nat /\ MaxFaults \in Nat
  BY VisibilityAssumption
<1>2. VT <= (Limit + 1) * VT
  BY <1>1, Products
<1>3. (Limit + 1) * VT \in Nat
  BY <1>1, Products
<1>4. TypeOK
  <2>1. /\ backoffCh \in Seq(Delays) /\ blockedOn \in Seq(Delays) /\ applied \in Seq(Int)
        /\ Len(backoffCh) = 0 /\ Len(blockedOn) = 0
    BY DEF Init
  <2>2. extension \in VT .. (Limit + 1) * VT
    BY <1>1, <1>2, <1>3 DEF Init
  <2>3. count \in 0 .. Limit + 1 /\ timer \in 1 .. Interval /\ age \in 0 .. Horizon
    BY <1>1, Times DEF Init
  <2>4. /\ scheduled \in Models /\ hpc = "handling" /\ ~err /\ err \in BOOLEAN
        /\ backedOff \in BOOLEAN /\ backoffs = 0 /\ dispatched \in BOOLEAN /\ vmpc = "run"
        /\ tick \in BOOLEAN /\ left = VT /\ cancelled \in BOOLEAN /\ faults = 0
    BY DEF Init
  <2> QED
    BY <1>1, <2>1, <2>2, <2>3, <2>4 DEF TypeOK
<1>5. Extensions /\ Signals
  BY DEF Init, Extensions, Signals
<1>6. SinceTick = 0
  BY Times DEF Init, SinceTick
<1>7. Clamp(VT) = VT /\ 0 * Interval = 0
  BY <1>1, Times DEF Clamp
<1>8. OnSchedule
  BY <1>1, <1>6, <1>7 DEF Init, OnSchedule
<1> QED
  BY <1>4, <1>5, <1>8 DEF Inv

\* The worker moves neither time nor the goroutine.
LEMMA WorkerStep ==
  ASSUME Inv, Worker
  PROVE  Inv'
<1>1. UNCHANGED <<vmVars, timeVars, history, cancelled, faults>>
  BY DEF Worker, Backoff, BackoffSent, HandlerReturns, AfterHandler
<1>2. UNCHANGED <<scheduled, vmpc, count, extension, tick, timer, left, age, applied, cancelled, faults>>
  BY <1>1 DEF vmVars, timeVars, history
<1>3. TypeOK /\ Signals
  BY DEF Inv
<1>4. /\ hpc' \in {"handling", "blocked", "returned", "done"} /\ err' \in BOOLEAN
      /\ backedOff' \in BOOLEAN /\ dispatched' \in BOOLEAN /\ backoffs' \in 0 .. MaxBackoffs
      /\ backoffCh' \in Seq(Delays) /\ Len(backoffCh') <= 1
      /\ blockedOn' \in Seq(Delays) /\ (hpc' = "blocked" <=> Len(blockedOn') = 1)
      /\ Signals'
      /\ Undisturbed' => Undisturbed
  <2>1. CASE \E d \in Delays : Backoff(d)
    <3>1. PICK d \in Delays : Backoff(d)
      BY <2>1
    <3>2. <<d>> \in Seq(Delays) /\ Len(<<d>>) = 1
      OBVIOUS
    <3>3. MaxBackoffs \in Nat
      BY VisibilityAssumption
    <3>4. /\ hpc = "handling" /\ backoffs < MaxBackoffs /\ backoffs' = backoffs + 1 /\ backedOff'
          /\ UNCHANGED <<err, dispatched>>
      BY <3>1 DEF Backoff
    <3>5. \/ backoffCh = << >> /\ backoffCh' = <<d>> /\ UNCHANGED <<hpc, blockedOn>>
          \/ hpc' = "blocked" /\ blockedOn' = <<d>> /\ UNCHANGED backoffCh
      BY <3>1 DEF Backoff
    <3>6. /\ backoffCh \in Seq(Delays) /\ Len(backoffCh) <= 1 /\ blockedOn \in Seq(Delays)
          /\ (hpc = "blocked" <=> Len(blockedOn) = 1) /\ backoffs \in 0 .. MaxBackoffs
          /\ err \in BOOLEAN /\ dispatched \in BOOLEAN /\ backedOff \in BOOLEAN
      BY <1>3 DEF TypeOK
    <3>7. Signals' /\ backoffs' \in 0 .. MaxBackoffs
      BY <1>2, <1>3, <3>3, <3>4, <3>5, <3>6 DEF Signals
    <3>8. backoffCh' \in Seq(Delays) /\ Len(backoffCh') <= 1
      <4>1. backoffCh' = <<d>> \/ backoffCh' = backoffCh
        BY <3>5
      <4>2. Len(<<d>>) <= 1
        BY <3>2
      <4> QED
        BY <3>2, <3>6, <4>1, <4>2, Zenon
    <3>9. blockedOn' \in Seq(Delays) /\ (hpc' = "blocked" <=> Len(blockedOn') = 1)
      BY <3>2, <3>4, <3>5, <3>6
    <3>10. hpc' \in {"handling", "blocked", "returned", "done"} /\ backedOff' \in BOOLEAN
           /\ (Undisturbed' => Undisturbed)
      BY <3>4, <3>5 DEF Undisturbed
    <3> QED
      BY <3>4, <3>6, <3>7, <3>8, <3>9, <3>10
  <2>2. CASE BackoffSent
    <3>1. Len(<< >>) = 0 /\ << >> \in Seq(Delays)
      OBVIOUS
    <3>2. /\ hpc = "blocked" /\ hpc' = "handling" /\ backoffCh' = blockedOn /\ blockedOn' = << >>
          /\ UNCHANGED <<err, backedOff, backoffs, dispatched>>
      BY <2>2 DEF BackoffSent
    <3>3. /\ blockedOn \in Seq(Delays) /\ Len(blockedOn) = 1 /\ backoffs \in 0 .. MaxBackoffs
          /\ err \in BOOLEAN /\ dispatched \in BOOLEAN /\ backedOff \in BOOLEAN
      BY <1>3, <3>2 DEF TypeOK
    <3>4. backedOff
      BY <1>3, <3>2 DEF Signals
    <3>5. Signals'
      BY <1>2, <1>3, <3>2, <3>4 DEF Signals
    <3> QED
      BY <3>1, <3>2, <3>3, <3>4, <3>5 DEF Undisturbed
  <2>3. CASE HandlerReturns
    BY <1>2, <1>3, <2>3 DEF HandlerReturns, TypeOK, Signals, Undisturbed
  <2>4. CASE AfterHandler
    BY <1>2, <1>3, <2>4 DEF AfterHandler, TypeOK, Signals, Undisturbed
  <2> QED
    BY <2>1, <2>2, <2>3, <2>4 DEF Worker
<1>5. TypeOK'
  BY <1>2, <1>3, <1>4 DEF TypeOK
<1>6. Extensions' /\ OnSchedule'
  BY <1>2, <1>4 DEF Inv, Extensions, OnSchedule, SinceTick
<1> QED
  BY <1>4, <1>5, <1>6 DEF Inv

\* At its limit or at a signal of the end the goroutine exits and does nothing
\* else.
LEMMA ExitStep ==
  ASSUME Inv, VMLimit \/ VMStop
  PROVE  Inv'
<1>1. /\ vmpc = "run" /\ vmpc' = "exited" /\ (count > Limit \/ cancelled \/ dispatched)
      /\ UNCHANGED <<scheduled, count, extension, tick, workerVars, timeVars, history, cancelled, faults>>
  BY DEF VMLimit, VMStop, VMExit, Selecting
<1>2. UNCHANGED <<hpc, err, backedOff, backoffCh, blockedOn, backoffs, dispatched, scheduled, count,
                  extension, tick, timer, left, age, applied, cancelled, faults>>
  BY <1>1 DEF workerVars, timeVars, history
<1>3. TypeOK' /\ Extensions' /\ Signals'
  BY <1>1, <1>2 DEF Inv, TypeOK, Extensions, Signals
<1>4. Undisturbed => ~cancelled /\ ~dispatched
  BY DEF Undisturbed, Inv, Signals
<1>5. count > Limit => count = Limit + 1
  BY Times DEF Inv, TypeOK
<1>6. OnSchedule'
  BY <1>1, <1>2, <1>4, <1>5 DEF Inv, OnSchedule, SinceTick, Undisturbed
<1> QED
  BY <1>3, <1>6 DEF Inv

\* The goroutine applies a backoff, whatever comes of its call, and exits.
LEMMA BackoffStep ==
  ASSUME Inv, VMBackoff
  PROVE  Inv'
<1>1. /\ Selecting /\ backoffCh # << >> /\ ChangeVisibility(Seconds(Head(backoffCh)))
      /\ applied' = Append(applied, Seconds(Head(backoffCh)))
      /\ backoffCh' = << >> /\ vmpc' = "exited"
      /\ UNCHANGED <<hpc, err, backedOff, blockedOn, backoffs, dispatched, scheduled, count,
                     extension, tick, timer, age, cancelled>>
  BY DEF VMBackoff, VMExit
<1>2. TypeOK /\ Extensions /\ Signals
  BY DEF Inv
<1>3. backedOff
  BY <1>1, <1>2 DEF Signals
<1>4. Seconds(Head(backoffCh)) \in Int
  <2>1. backoffCh \in Seq(Delays)
    BY <1>2 DEF TypeOK
  <2>2. Head(backoffCh) \in Delays
    BY <1>1, <2>1, HeadTailProperties
  <2> QED
    BY <2>2, SecondsType
<1>5. left' \in 0 .. MaxVis /\ faults' \in 0 .. MaxFaults
  BY <1>1, <1>2, <1>4, ChangeVisibilityEffect
<1>6. applied' \in Seq(Int)
  BY <1>1, <1>2, <1>4 DEF TypeOK
<1>7. backoffCh' \in Seq(Delays) /\ Len(backoffCh') <= 1
  BY <1>1
<1>8. TypeOK'
  BY <1>1, <1>2, <1>5, <1>6, <1>7 DEF TypeOK
<1>9. Extensions' /\ Signals' /\ ~Undisturbed'
  BY <1>1, <1>2, <1>3 DEF Extensions, Signals, Undisturbed
<1> QED
  BY <1>8, <1>9 DEF Inv, OnSchedule

\* A tick renews: the next interval begins with the timeout it asked for.
LEMMA TickStep ==
  ASSUME Inv, VMTick
  PROVE  Inv'
<1>1. /\ vmpc = "run" /\ count <= Limit /\ tick /\ ~tick' /\ tick' \in BOOLEAN
      /\ count' = count + 1
      /\ extension' = IF count > 0 THEN extension + VT ELSE extension
      /\ ChangeVisibility(extension')
      /\ UNCHANGED <<workerVars, scheduled, vmpc, timer, age, applied, cancelled>>
  BY DEF VMTick, Selecting
<1>2. UNCHANGED <<hpc, err, backedOff, backoffCh, blockedOn, backoffs, dispatched, scheduled,
                  vmpc, timer, age, applied, cancelled>>
  BY <1>1 DEF workerVars
<1>3. /\ TypeOK /\ Extensions /\ Signals /\ OnSchedule
      /\ count \in Nat /\ extension \in Nat /\ count' \in 1 .. Limit + 1
      /\ VT \in Nat \ {0} /\ Limit \in Nat
  BY <1>1, Times DEF Inv, TypeOK
<1>4. /\ count' * VT = count * VT + VT /\ count * VT \in Nat /\ count' * VT \in Nat
      /\ count' * Interval = count * Interval + Interval
      /\ count * Interval \in Nat /\ count' * Interval \in Nat
      /\ (Limit + 1) * VT \in Nat /\ count' * VT <= (Limit + 1) * VT
      /\ 1 * VT = VT
  <2>1. count \in Nat /\ VT \in Nat /\ Interval \in Nat /\ Limit + 1 \in Nat /\ count' = count + 1
        /\ count' \in Nat /\ count' <= Limit + 1
    BY <1>1, <1>3, Times
  <2>2. (count + 1) * VT = count * VT + VT /\ count * VT \in Nat /\ (count + 1) * VT \in Nat
    BY <2>1, Products
  <2>3. /\ (count + 1) * Interval = count * Interval + Interval
        /\ count * Interval \in Nat /\ (count + 1) * Interval \in Nat
    BY <2>1, Products
  <2>4. count' * VT <= (Limit + 1) * VT /\ (Limit + 1) * VT \in Nat
    BY <2>1, Products
  <2> QED
    BY <2>1, <2>2, <2>3, <2>4
<1>5. extension' = (IF count' <= 1 THEN VT ELSE count' * VT) /\ extension' = count' * VT
  <2>1. CASE count = 0
    BY <1>1, <1>3, <1>4, <2>1 DEF Extensions
  <2>2. CASE count = 1
    BY <1>1, <1>3, <1>4, <2>2 DEF Extensions
  <2>3. CASE count > 1
    <3>1. extension = count * VT /\ extension' = count * VT + VT /\ count' = count + 1 /\ count' > 1
      BY <1>1, <1>3, <2>3 DEF Extensions
    <3> QED
      BY <1>4, <3>1
  <2> QED
    BY <1>3, <2>1, <2>2, <2>3
<1>6. extension' \in VT .. (Limit + 1) * VT /\ extension' \in Int
  <2> DEFINE asked == count' * VT
             most == (Limit + 1) * VT
  <2>1. VT <= asked
    <3> DEFINE before == count * VT
    <3>1. asked = before + VT /\ before \in Nat /\ VT \in Nat
      BY <1>3, <1>4
    <3> HIDE DEF asked, before
    <3> QED
      BY <3>1
  <2>2. asked \in Nat /\ most \in Nat /\ asked <= most /\ extension' = asked /\ VT \in Nat
    BY <1>3, <1>4, <1>5
  <2> HIDE DEF asked, most
  <2>3. extension' \in VT .. most /\ extension' \in Int
    BY <2>1, <2>2
  <2> QED
    BY <2>3 DEF most
<1>7. /\ left' \in 0 .. MaxVis /\ faults' \in 0 .. MaxFaults
      /\ ~cancelled /\ faults' = 0 => left' = Clamp(extension') /\ faults = 0
  BY <1>1, <1>3, <1>6, ChangeVisibilityEffect
<1>8. TypeOK'
  BY <1>1, <1>2, <1>3, <1>6, <1>7 DEF TypeOK
<1>9. Extensions' /\ Signals'
  BY <1>2, <1>3, <1>5 DEF Extensions, Signals
<1>10. OnSchedule'
  <2> SUFFICES ASSUME Undisturbed'
               PROVE  /\ vmpc' # "exited"
                      /\ ~tick'
                      /\ count' <= Limit => /\ age' = count' * Interval + SinceTick'
                                            /\ left' = Clamp(extension') - SinceTick'
                      /\ count' = Limit + 1 => left' = Guaranteed - age'
    BY <1>1, <1>2 DEF OnSchedule
  <2>1. Undisturbed /\ left' = Clamp(extension')
    BY <1>2, <1>7 DEF Undisturbed
  <2>2. timer = Interval /\ SinceTick = Interval /\ SinceTick' = 0
    BY <1>1, <1>2, <1>3, <2>1, Times DEF OnSchedule, SinceTick
  <2>3. age = count * Interval + Interval
    BY <1>1, <1>3, <2>1, <2>2 DEF OnSchedule
  <2>4. age' = count' * Interval /\ Clamp(extension') \in Nat
    BY <1>1, <1>2, <1>4, <1>6, <2>3, ClampBounds, VisibilityAssumption
  <2>5. count' = Limit + 1 => left' = Guaranteed - age'
    <3>1. ASSUME count' = Limit + 1
          PROVE  age' = (Limit + 1) * Interval /\ left' = Clamp((Limit + 1) * VT)
      BY <1>5, <2>1, <2>4, <3>1
    <3>2. (Limit + 1) * Interval \in Nat
      BY Times, Products
    <3> QED
      BY <3>1, <3>2, Times
  <2> QED
    BY <1>1, <1>2, <1>4, <2>1, <2>2, <2>4, <2>5
<1> QED
  BY <1>8, <1>9, <1>10 DEF Inv

\* A second passes, only while the goroutine waits.
LEMMA ElapseStep ==
  ASSUME Inv, Elapse
  PROVE  Inv'
<1>1. /\ left' = IF left > 0 THEN left - 1 ELSE 0
      /\ age' = IF age < Horizon THEN age + 1 ELSE age
      /\ \/ vmpc = "exited" /\ UNCHANGED <<timer, tick>>
         \/ /\ vmpc = "run" /\ count <= Limit /\ ~tick
            /\ timer' = IF timer = 1 THEN Interval ELSE timer - 1
            /\ tick' = (timer = 1)
      /\ UNCHANGED <<hpc, err, backedOff, backoffCh, blockedOn, backoffs, dispatched,
                     scheduled, vmpc, count, extension, applied, cancelled, faults>>
  BY Times DEF Elapse, VMReady, workerVars, history, Inv, TypeOK
<1>2. /\ TypeOK /\ Extensions /\ Signals /\ OnSchedule
      /\ count \in 0 .. Limit + 1 /\ left \in 0 .. MaxVis /\ age \in 0 .. Horizon
      /\ timer \in 1 .. Interval /\ extension \in VT .. (Limit + 1) * VT
      /\ Limit \in Nat /\ Interval \in Nat \ {0} /\ VT \in Nat /\ MaxVis \in Nat
  BY Times, VisibilityAssumption DEF Inv, TypeOK
<1>3. /\ left' \in 0 .. MaxVis /\ age' \in 0 .. Horizon
      /\ timer' \in 1 .. Interval /\ tick' \in BOOLEAN
  <2>1. tick \in BOOLEAN /\ Horizon \in Nat
    BY <1>2, Times DEF TypeOK
  <2>2. left' \in 0 .. MaxVis
    BY <1>1, <1>2
  <2>3. age' \in 0 .. Horizon
    BY <1>1, <1>2, <2>1
  <2>4. timer' \in 1 .. Interval
    BY <1>1, <1>2
  <2>5. tick' \in BOOLEAN
    BY <1>1, <2>1
  <2> QED
    BY <2>2, <2>3, <2>4, <2>5
<1>4. TypeOK' /\ Extensions' /\ Signals'
  BY <1>1, <1>2, <1>3 DEF TypeOK, Extensions, Signals
<1>5. OnSchedule'
  <2> SUFFICES ASSUME Undisturbed'
               PROVE  /\ vmpc' = "exited" => count' = Limit + 1
                      /\ tick' /\ vmpc' = "run" => timer' = Interval
                      /\ count' <= Limit => /\ age' = count' * Interval + SinceTick'
                                            /\ left' = Clamp(extension') - SinceTick'
                      /\ count' = Limit + 1 => age' >= Guaranteed \/ left' = Guaranteed - age'
    BY DEF OnSchedule
  <2>1. Undisturbed
    BY <1>1 DEF Undisturbed
  <2>2. CASE count = Limit + 1
    <3>1. vmpc = "exited"
      BY <1>1, <1>2, <2>2
    <3>2. age >= Guaranteed \/ left = Guaranteed - age
      BY <1>2, <2>1, <2>2 DEF OnSchedule
    <3>3. Guaranteed \in Nat /\ Horizon = Guaranteed + 1
      BY Times
    <3> QED
      BY <1>1, <1>2, <2>2, <3>1, <3>2, <3>3
  <2>3. CASE count <= Limit
    <3>1. vmpc = "run" /\ ~tick
      BY <1>1, <1>2, <2>1, <2>3, Times DEF OnSchedule
    <3>2. SinceTick = Interval - timer /\ SinceTick' = SinceTick + 1
      <4>1. (tick' <=> timer = 1) /\ timer' = IF timer = 1 THEN Interval ELSE timer - 1
        BY <1>1, <3>1
      <4>2. timer \in Nat /\ Interval \in Nat
        BY <1>2
      <4> HIDE DEF Interval
      <4> QED
        BY <3>1, <4>1, <4>2 DEF SinceTick
    <3>3. age = count * Interval + (Interval - timer) /\ left = Clamp(extension) - (Interval - timer)
      BY <1>2, <2>1, <2>3, <3>2 DEF OnSchedule
    <3>4. Clamp(extension) >= VT /\ Clamp(extension) \in Nat /\ Interval < VT
      <4>1. extension \in Int /\ extension >= VT
        BY <1>2, Times, Products
      <4> QED
        BY <4>1, ClampBounds, Times, VisibilityAssumption
    <3>5. left > 0 /\ left' = left - 1
      BY <1>1, <1>2, <3>3, <3>4
    <3>6. age < Horizon /\ age' = age + 1
      <4>1. count * Interval <= Limit * Interval /\ count * Interval \in Nat
        BY <1>2, <2>3, Products
      <4>2. (Limit + 1) * Interval = Limit * Interval + Interval /\ Limit * Interval \in Nat
        BY <1>2, Products
      <4>3. age < (Limit + 1) * Interval
        BY <1>2, <3>3, <4>1, <4>2
      <4> HIDE DEF Horizon, Guaranteed
      <4> QED
        BY <1>1, <1>2, <4>2, <4>3, Times
    <3>7. count * Interval \in Nat
      BY <1>2, Products
    <3>8. /\ age' = count' * Interval + SinceTick'
          /\ left' = Clamp(extension') - SinceTick'
      BY <1>1, <1>2, <3>2, <3>3, <3>4, <3>5, <3>6, <3>7
    <3>9. vmpc' = "run" /\ count' = count /\ (tick' => timer' = Interval)
      BY <1>1, <3>1
    <3> QED
      BY <1>2, <2>3, <3>1, <3>8, <3>9
  <2> QED
    BY <1>2, <2>2, <2>3
<1> QED
  BY <1>4, <1>5 DEF Inv

\* The run context is canceled.
LEMMA CancelStep ==
  ASSUME Inv, Cancel
  PROVE  Inv'
<1>1. /\ cancelled'
      /\ UNCHANGED <<hpc, err, backedOff, backoffCh, blockedOn, backoffs, dispatched, scheduled,
                     vmpc, count, extension, tick, timer, left, age, applied, faults>>
  BY DEF Cancel, workerVars, vmVars, timeVars, history
<1>2. cancelled' \in BOOLEAN
  BY DEF Cancel
<1>3. TypeOK'
  BY <1>1, <1>2 DEF Inv, TypeOK
<1>4. Extensions' /\ Signals' /\ ~Undisturbed'
  BY <1>1 DEF Inv, Extensions, Signals, Undisturbed
<1> QED
  BY <1>3, <1>4 DEF Inv, OnSchedule

-----------------------------------------------------------------------------

\* The inductive invariant: what the goroutine asked for follows from its count
\* and the time from the ticks, as long as nothing disturbs it.
THEOREM Invariance == Spec => []Inv
<1>1. Inv /\ UNCHANGED vars => Inv'
  <2> SUFFICES ASSUME Inv, UNCHANGED vars PROVE Inv'
    OBVIOUS
  <2>1. UNCHANGED <<hpc, err, backedOff, backoffCh, blockedOn, backoffs, dispatched, scheduled,
                    vmpc, count, extension, tick, timer, left, age, applied, cancelled, faults>>
    BY DEF vars, workerVars, vmVars, timeVars, history
  <2> QED
    BY <2>1 DEF Inv, TypeOK, Extensions, Signals, OnSchedule, Undisturbed, SinceTick
<1>2. Inv /\ [Next]_vars => Inv'
  BY <1>1, WorkerStep, ExitStep, BackoffStep, TickStep, ElapseStep, CancelStep DEF Next, VM
<1> QED
  BY <1>2, InitInv, PTL DEF Spec

\* Every variable keeps its type, and what ChangeMessageVisibility is asked for
\* stays within what SQS takes.
THEOREM TypeCorrect == Spec => []TypeOK
<1>1. Inv => TypeOK
  BY DEF Inv
<1> QED
  BY <1>1, Invariance, PTL

\* run renews in time for any timeout above the margin and any extension limit:
\* no interval is longer than the timeout it renews, up to the clamp of the
\* last one.
THEOREM KeepsHidden == Spec => []HiddenWhileHandled
<1>1. Inv => HiddenWhileHandled
  <2> SUFFICES ASSUME Inv, Undisturbed, age < Guaranteed
               PROVE  left > 0
    BY DEF HiddenWhileHandled, Undisturbed
  <2>1. /\ count \in 0 .. Limit + 1 /\ age \in Nat /\ timer \in 1 .. Interval
        /\ extension \in VT .. (Limit + 1) * VT /\ Limit \in Nat
        /\ Guaranteed \in Nat /\ Interval \in Nat /\ Interval < VT /\ VT \in Nat
    BY Times DEF Inv, TypeOK
  <2>2. CASE count = Limit + 1
    BY <2>1, <2>2 DEF Inv, OnSchedule
  <2>3. CASE count <= Limit
    <3>1. left = Clamp(extension) - SinceTick /\ (tick /\ vmpc = "run" => timer = Interval)
          /\ vmpc = "run"
      BY <2>1, <2>3, Times DEF Inv, OnSchedule, TypeOK
    <3>2. SinceTick \in 0 .. Interval
      BY <2>1, <3>1 DEF SinceTick
    <3>3. extension \in Int /\ extension >= VT
      BY <2>1, Products
    <3>4. Clamp(extension) >= VT /\ Clamp(extension) \in Int
      BY <3>3, ClampBounds, VisibilityAssumption
    <3> QED
      BY <2>1, <3>1, <3>2, <3>4
  <2> QED
    BY <2>1, <2>2, <2>3
<1> QED
  BY <1>1, Invariance, PTL

\* The goroutine returns after it applied a backoff: no later tick of run makes
\* the message invisible for longer, and no second backoff is applied.
THEOREM LastWord == Spec => BackoffIsLast
<1>1. Inv /\ [Next]_vars => [applied # << >> => left' <= left /\ applied' = applied]_vars
  <2> SUFFICES ASSUME Inv, Next, applied # << >>
               PROVE  left' <= left /\ applied' = applied
    OBVIOUS
  <2>1. vmpc = "exited" /\ left \in Nat
    BY VisibilityAssumption DEF Inv, Signals, TypeOK
  <2>2. CASE Worker
    BY <2>1, <2>2 DEF Worker, Backoff, BackoffSent, HandlerReturns, AfterHandler, timeVars, history
  <2>3. CASE VM
    BY <2>1, <2>3 DEF VM, VMLimit, VMStop, VMBackoff, VMTick, Selecting
  <2>4. CASE Elapse
    BY <2>1, <2>4 DEF Elapse, history
  <2>5. CASE Cancel
    BY <2>1, <2>5 DEF Cancel, timeVars, history
  <2> QED
    BY <2>2, <2>3, <2>4, <2>5 DEF Next
<1> QED
  BY <1>1, Invariance, PTL DEF Spec, BackoffIsLast

=============================================================================
