--------------------------- MODULE FeUpDownProofs ---------------------------
(***************************************************************************)
(* The safety theorems about FeUpDown.                                     *)
(*                                                                         *)
(* What is to be shown holds between the operations (AtRest) or while a    *)
(* particular one runs (OpensStopped).  StepInv carries it through every   *)
(* step of fe_stop and fe_open, and OpInv says which callers can be where: *)
(* an operation on a device that is down never gets past napi_disable.     *)
(***************************************************************************)
EXTENDS FeUpDown, TLAPS

Stopping == {"queue", "irq", "napi", "free"}
Opening == {"tx", "rx", "fail", "dma", "enable"}

\* What is there at every step of fe_open, and after napi_disable in fe_stop.
StepInv ==
    /\ step \in Opening \cup {"free"} => napi = "off"
    /\ step \in Opening => (dma <=> step = "enable")
    /\ step = "tx" => rings = "none"
    /\ step = "rx" => rings = "tx"
    /\ step \in {"dma", "enable"} => rings = "both"
    /\ step = "fail" => failed
    /\ step \notin {"free", "enable"} => (dma <=> napi # "off")
    /\ step = "free" => dma
    /\ twice => step \in {"irq", "napi"} /\ napi = "off"

\* A device that is down and not being started has nothing; one that is up has
\* everything until napi_disable, unless an fe_open has failed.
OpInv ==
    /\ op = "ifup" => up /\ step \in Opening
    /\ op = "mtu" => up
    /\ op \in {"ifdown", "close"} => ~up /\ step \in Stopping
    /\ op = "close" => failed
    /\ ~up /\ op \in {"none", "ring", "reset"} =>
         step \notin Opening \cup {"free"} /\ rings = "none" /\ ~dma /\ napi = "off"
    /\ failed \/ step \in Opening \cup {"free"} \/ (~up /\ op \in {"none", "ring", "reset"})
         \/ (rings = "both" /\ dma /\ napi # "off")

UpDownInv == UpDownTypeOK /\ WorksInRings /\ StepInv /\ OpInv

\* Every operation begins in a state its fe_stop or fe_open can begin in.
LEMMA BeginStep ==
    ASSUME UpDownInv, IfUp \/ IfDown \/ ChangeMtu \/ SetRing \/ WorkLock
    PROVE  UpDownInv'
<1> USE DEF UpDownInv, UpDownTypeOK, WorksInRings, StepInv, OpInv, Stopping, Opening,
            Begin, hwVars, history, Ops, Steps
<1>1. CASE IfUp
  BY <1>1 DEF IfUp
<1>2. CASE IfDown
  BY <1>2 DEF IfDown
<1>3. CASE ChangeMtu
  BY <1>3 DEF ChangeMtu
<1>4. CASE SetRing
  BY <1>4 DEF SetRing
<1>5. CASE WorkLock
  BY <1>5 DEF WorkLock
<1> QED
  BY <1>1, <1>2, <1>3, <1>4, <1>5

\* fe_stop takes the device apart in an order that leaves no work in freed rings.
LEMMA StopStep ==
    ASSUME UpDownInv, Stop
    PROVE  UpDownInv'
<1> USE DEF UpDownInv, UpDownTypeOK, WorksInRings, StepInv, OpInv, Stopping, Opening,
            End, history, Ops, Steps
<1>1. CASE StopQueue
  BY <1>1 DEF StopQueue
<1>2. CASE StopIrq
  <2>1. /\ step = "irq" /\ step' = "napi" /\ irq' = FALSE
        /\ up' = up /\ op' = op /\ work' = work /\ pending' = pending
        /\ rings' = rings /\ dma' = dma /\ napi' = napi
        /\ stopped' = stopped /\ failed' = failed /\ twice' = twice
    BY <1>2 DEF StopIrq
  <2>2. UpDownTypeOK'
    <3>1. (op' = "none" <=> step' = "none") /\ op' \in Ops /\ step' \in Steps
      BY <2>1
    <3>2. /\ work' \in {"idle", "lock", "reset"} /\ rings' \in {"none", "tx", "both"}
          /\ napi' \in {"off", "idle", "polling"}
      BY <2>1
    <3>3. /\ up' \in BOOLEAN /\ pending' \in BOOLEAN /\ dma' \in BOOLEAN /\ irq' \in BOOLEAN
          /\ stopped' \in BOOLEAN /\ failed' \in BOOLEAN /\ twice' \in BOOLEAN
      BY <2>1
    <3> QED
      BY <3>1, <3>2, <3>3
  <2>3. WorksInRings'
    BY <2>1
  <2>4. StepInv'
    BY <2>1
  <2>5. OpInv'
    BY <2>1
  <2> QED
    BY <2>2, <2>3, <2>4, <2>5
<1>3. CASE StopNapi
  BY <1>3 DEF StopNapi
<1>4. CASE StopFree
  BY <1>4 DEF StopFree
<1> QED
  BY <1>1, <1>2, <1>3, <1>4 DEF Stop

\* fe_open puts it together, or gives back what it had allocated.
LEMMA OpenStep ==
    ASSUME UpDownInv, Open
    PROVE  UpDownInv'
<1> USE DEF UpDownInv, UpDownTypeOK, WorksInRings, StepInv, OpInv, Stopping, Opening,
            End, history, hwVars, Ops, Steps
<1>1. CASE AllocTx
  BY <1>1 DEF AllocTx
<1>2. CASE AllocRx
  BY <1>2 DEF AllocRx
<1>3. CASE AllocFails
  BY <1>3 DEF AllocFails
<1>4. CASE OpenFree
  BY <1>4 DEF OpenFree, OpenFailed
<1>5. CASE OpenDma
  BY <1>5 DEF OpenDma
<1>6. CASE OpenEnable
  BY <1>6 DEF OpenEnable
<1> QED
  BY <1>1, <1>2, <1>3, <1>4, <1>5, <1>6 DEF Open

\* Interrupt, poll, transmit path, watchdog and the work's start change nothing of it.
LEMMA BesideStep ==
    ASSUME UpDownInv,
           \/ WorkStart \/ Irq \/ PollWake \/ PollEnd \/ XmitFull \/ TxTimeout
           \/ UNCHANGED upDownVars
    PROVE  UpDownInv'
<1> USE DEF UpDownInv, UpDownTypeOK, WorksInRings, StepInv, OpInv, Stopping, Opening,
            hwVars, opVars, history, Ops, Steps
<1>1. CASE WorkStart
  <2>1. /\ pending' \in BOOLEAN /\ work' = "lock"
        /\ up' = up /\ op' = op /\ step' = step
        /\ rings' = rings /\ dma' = dma /\ irq' = irq /\ napi' = napi
        /\ stopped' = stopped /\ failed' = failed /\ twice' = twice
    BY <1>1 DEF WorkStart
  <2> QED
    BY <2>1
<1>2. CASE Irq
  BY <1>2 DEF Irq
<1>3. CASE PollWake
  <2>1. /\ stopped' = FALSE
        /\ up' = up /\ op' = op /\ step' = step /\ work' = work /\ pending' = pending
        /\ rings' = rings /\ dma' = dma /\ irq' = irq /\ napi' = napi
        /\ failed' = failed /\ twice' = twice
    BY <1>3 DEF PollWake
  <2>2. UpDownTypeOK'
    <3>1. (op' = "none" <=> step' = "none") /\ op' \in Ops /\ step' \in Steps
      BY <2>1
    <3>2. /\ work' \in {"idle", "lock", "reset"} /\ rings' \in {"none", "tx", "both"}
          /\ napi' \in {"off", "idle", "polling"}
      BY <2>1
    <3>3. /\ up' \in BOOLEAN /\ pending' \in BOOLEAN /\ dma' \in BOOLEAN /\ irq' \in BOOLEAN
          /\ stopped' \in BOOLEAN /\ failed' \in BOOLEAN /\ twice' \in BOOLEAN
      BY <2>1
    <3> QED
      BY <3>1, <3>2, <3>3
  <2>3. WorksInRings'
    BY <2>1
  <2>4. StepInv'
    BY <2>1
  <2>5. OpInv'
    BY <2>1
  <2> QED
    BY <2>2, <2>3, <2>4, <2>5
<1>4. CASE PollEnd
  <2>1. napi = "polling" /\ napi' = "idle" /\ irq' \in BOOLEAN
    BY <1>4 DEF PollEnd
  <2>2. /\ up' = up /\ op' = op /\ step' = step /\ work' = work /\ pending' = pending
        /\ rings' = rings /\ dma' = dma /\ stopped' = stopped
        /\ failed' = failed /\ twice' = twice
    BY <1>4 DEF PollEnd
  <2> QED
    BY <2>1, <2>2
<1>5. CASE XmitFull
  BY <1>5 DEF XmitFull
<1>6. CASE TxTimeout
  BY <1>6 DEF TxTimeout
<1>7. CASE UNCHANGED upDownVars
  BY <1>7 DEF upDownVars
<1> QED
  BY <1>1, <1>2, <1>3, <1>4, <1>5, <1>6, <1>7

\* The invariant that the theorems rest on.
THEOREM UpDownInvariant == UpDownSpec => []UpDownInv
<1>1. UpDownInit => UpDownInv
  BY DEF UpDownInit, UpDownInv, UpDownTypeOK, WorksInRings, StepInv, OpInv, Stopping,
         Opening, Ops, Steps
<1>2. UpDownInv /\ [UpDownNext]_upDownVars => UpDownInv'
  BY BeginStep, StopStep, OpenStep, BesideStep DEF UpDownNext
<1> QED
  BY <1>1, <1>2, PTL DEF UpDownSpec

\* Every variable keeps its type, and an operation has a next step as long as it runs.
THEOREM UpDownTypeCorrect == UpDownSpec => []UpDownTypeOK
<1>1. UpDownInv => UpDownTypeOK
  BY DEF UpDownInv
<1> QED
  BY <1>1, UpDownInvariant, PTL

\* Hardware and poll only work in rings that are in memory, and fe_open starts from a
\* device that fe_stop has emptied.
THEOREM RingsStayInPlace == UpDownSpec => []RingsInPlace
<1>1. UpDownInv => RingsInPlace
  BY DEF UpDownInv, StepInv, RingsInPlace, OpensStopped, Opening
<1> QED
  BY <1>1, UpDownInvariant, PTL

\* Between the operations a device is whole or empty, unless an fe_open has failed.
THEOREM RestIsClean == UpDownSpec => []AtRest
<1>1. UpDownInv => AtRest
  BY DEF UpDownInv, UpDownTypeOK, OpInv, AtRest, Opening, Steps
<1> QED
  BY <1>1, UpDownInvariant, PTL

\* The three ways in which fe_stop can meet a stopped device are the only ones.
THEOREM StoppedTwiceOnlyWhenDown == UpDownSpec => StoppedTwice
<1>1. UpDownInv /\ [UpDownNext]_upDownVars
        => (~twice /\ twice' => failed \/ (~up /\ op \in {"ring", "reset"}))
  <2> SUFFICES ASSUME UpDownInv, [UpDownNext]_upDownVars, ~twice, twice'
               PROVE  failed \/ (~up /\ op \in {"ring", "reset"})
    OBVIOUS
  <2>1. StopQueue
    BY DEF UpDownInv, UpDownTypeOK, UpDownNext, Stop, Open, upDownVars, opVars, hwVars,
           history, IfUp, IfDown, ChangeMtu, SetRing, WorkStart, WorkLock, StopIrq,
           StopNapi, StopFree, AllocTx, AllocRx, AllocFails, OpenFree, OpenDma,
           OpenEnable, Irq, PollWake, PollEnd, XmitFull, TxTimeout
  <2>2. step = "queue" /\ napi = "off"
    BY <2>1 DEF StopQueue, UpDownInv, UpDownTypeOK
  <2> QED
    BY <2>2 DEF UpDownInv, UpDownTypeOK, OpInv, Opening, Ops
<1> QED
  BY <1>1, UpDownInvariant, PTL DEF UpDownSpec, StoppedTwice

(***************************************************************************)
(* That an operation gives the lock back is liveness and left to the model *)
(* checker.  What of it is safety: each step of fe_stop and fe_open brings *)
(* the operation nearer to its end, and the only steps that wait are       *)
(* napi_disable's, for the end of one poll, or for itself after twice.     *)
(***************************************************************************)
\* The steps from s to the end of the longest way through fe_stop and fe_open.
StepsFrom(s) ==
    CASE s = "queue" -> 9 [] s = "irq" -> 8 [] s = "napi" -> 7 [] s = "free" -> 6
      [] s = "tx" -> 5 [] s = "rx" -> 4 [] s = "dma" -> 3 [] s = "enable" -> 2
      [] s = "fail" -> 1 [] s = "none" -> 0

\* A reset whose fe_open fails has the fe_stop of dev_close to go through as well.
OpLeft == StepsFrom(step) + (IF op = "reset" THEN 10 ELSE 0)

\* napi_disable finds NAPI disabled only in the fe_stop that twice is about.
WaitsOnlyForPoll == step \in {"irq", "napi"} /\ napi = "off" => twice

\* Nothing that goes on beside an operation sends it back, and while napi_disable waits
\* no new poll begins.
OperationEnds ==
    [][ /\ op # "none" => OpLeft' < OpLeft \/ UNCHANGED <<op, step>>
        /\ step = "napi" /\ step' = "napi" => napi' = napi \/ (napi = "polling" /\ napi' = "idle")
      ]_upDownVars

LEMMA StepsAreNat ==
    ASSUME UpDownTypeOK
    PROVE  StepsFrom(step) \in 0..9 /\ OpLeft \in Nat
<1>1. StepsFrom(step) \in 0..9
  BY DEF UpDownTypeOK, Steps, StepsFrom
<1> QED
  BY <1>1 DEF OpLeft

\* The steps of fe_stop and fe_open.
LEMMA OpShrinks ==
    ASSUME UpDownInv, Stop \/ Open
    PROVE  OpLeft' < OpLeft /\ (step = "napi" => step' # "napi")
<1>1. CASE StopQueue \/ StopIrq \/ StopNapi
  <2>1. /\ op' = op
        /\ \/ step = "queue" /\ step' = "irq"
           \/ step = "irq" /\ step' = "napi"
           \/ step = "napi" /\ step' = "free"
    BY <1>1 DEF StopQueue, StopIrq, StopNapi
  <2> QED
    BY <2>1 DEF OpLeft, StepsFrom
<1>2. CASE StopFree
  <2>1. /\ step = "free"
        /\ \/ op' = "none" /\ step' = "none"
           \/ op' = op /\ step' = "tx"
    BY <1>2 DEF StopFree, End
  <2> QED
    BY <2>1 DEF OpLeft, StepsFrom
<1>3. CASE AllocTx \/ AllocRx \/ AllocFails \/ OpenDma
  <2>1. /\ op' = op
        /\ \/ step = "tx" /\ step' \in {"rx", "fail"}
           \/ step = "rx" /\ step' \in {"dma", "fail"}
           \/ step = "dma" /\ step' = "enable"
    BY <1>3 DEF AllocTx, AllocRx, AllocFails, OpenDma
  <2> QED
    BY <2>1 DEF OpLeft, StepsFrom
<1>4. CASE OpenFree
  <2>1. /\ step = "fail"
        /\ \/ op' = "none" /\ step' = "none"
           \/ op = "reset" /\ op' = "close" /\ step' = "queue"
    BY <1>4 DEF OpenFree, OpenFailed, End
  <2> QED
    BY <2>1 DEF OpLeft, StepsFrom
<1>5. CASE OpenEnable
  <2>1. step = "enable" /\ op' = "none" /\ step' = "none"
    BY <1>5 DEF OpenEnable, End
  <2> QED
    BY <2>1 DEF OpLeft, StepsFrom
<1> QED
  BY <1>1, <1>2, <1>3, <1>4, <1>5 DEF Stop, Open

\* What goes on beside them; an operation that has begun lets no other begin.
LEMMA BesideWaits ==
    ASSUME UpDownInv, [UpDownNext]_upDownVars, ~(Stop \/ Open)
    PROVE  /\ op # "none" => UNCHANGED <<op, step>>
           /\ step' = step \/ op = "none"
           /\ step = "napi" => napi' = napi \/ (napi = "polling" /\ napi' = "idle")
<1>1. CASE IfUp \/ IfDown \/ ChangeMtu \/ SetRing \/ WorkLock
  <2>1. op = "none" /\ step = "none"
    BY <1>1 DEF IfUp, IfDown, ChangeMtu, SetRing, WorkLock, Begin, UpDownInv, UpDownTypeOK
  <2> QED
    BY <2>1
<1>2. CASE \/ WorkStart \/ Irq \/ PollWake \/ PollEnd \/ XmitFull \/ TxTimeout
           \/ UNCHANGED upDownVars
  BY <1>2 DEF WorkStart, Irq, PollWake, PollEnd, XmitFull, TxTimeout, upDownVars, opVars, hwVars
<1> QED
  BY <1>1, <1>2 DEF UpDownNext

\* An operation has at most OpLeft steps before it, whatever resets, polls and failing
\* allocations do, and waits for nothing but one poll unless fe_stop met a stopped device.
THEOREM OperationComesToEnd ==
    UpDownSpec => [](OpLeft \in Nat /\ WaitsOnlyForPoll) /\ OperationEnds
<1>1. UpDownInit => WaitsOnlyForPoll
  BY DEF UpDownInit, WaitsOnlyForPoll
<1>2. UpDownInv /\ WaitsOnlyForPoll /\ [UpDownNext]_upDownVars => WaitsOnlyForPoll'
  <2> SUFFICES ASSUME UpDownInv, WaitsOnlyForPoll, [UpDownNext]_upDownVars,
                      step' \in {"irq", "napi"}, napi' = "off"
               PROVE  twice'
    BY DEF WaitsOnlyForPoll
  <2>1. CASE Stop \/ Open
    <3>1. StopQueue \/ StopIrq
      BY <2>1 DEF Stop, Open, StopNapi, StopFree, AllocTx, AllocRx, AllocFails, OpenFree,
                  OpenFailed, OpenDma, OpenEnable, End
    <3> QED
      BY <3>1 DEF StopQueue, StopIrq, WaitsOnlyForPoll, history
  <2>2. CASE ~(Stop \/ Open)
    <3>1. step' = step /\ napi' = napi
      BY <2>2 DEF UpDownNext, IfUp, IfDown, ChangeMtu, SetRing, WorkLock, Begin, WorkStart,
                  Irq, PollWake, PollEnd, XmitFull, TxTimeout, upDownVars, opVars, hwVars
    <3>2. twice' = twice
      BY <2>2 DEF UpDownNext, IfUp, IfDown, ChangeMtu, SetRing, WorkLock, WorkStart, Irq,
                  PollWake, PollEnd, XmitFull, TxTimeout, upDownVars, history
    <3> QED
      BY <3>1, <3>2 DEF WaitsOnlyForPoll
  <2> QED
    BY <2>1, <2>2
<1>3. UpDownInv => OpLeft \in Nat
  BY StepsAreNat DEF UpDownInv
<1>4. UpDownInv /\ [UpDownNext]_upDownVars
      => [ /\ op # "none" => OpLeft' < OpLeft \/ UNCHANGED <<op, step>>
           /\ step = "napi" /\ step' = "napi"
                => napi' = napi \/ (napi = "polling" /\ napi' = "idle") ]_upDownVars
  BY OpShrinks, BesideWaits
<1> QED
  BY <1>1, <1>2, <1>3, <1>4, UpDownInvariant, PTL DEF UpDownSpec, OperationEnds

(***************************************************************************)
(* FeUpDown implements NetDevice: one lemma per group of actions, each of  *)
(* whose steps is a step of the device or leaves it as it is.              *)
(***************************************************************************)
DeviceStep == Device!DeviceNext \/ UNCHANGED Device!deviceVars

LEMMA BeginMaps ==
    ASSUME UpDownInv, IfUp \/ IfDown \/ ChangeMtu \/ SetRing \/ WorkLock
    PROVE  Device!Begin
<1>1. op = "none" /\ op' # "none"
  BY DEF IfUp, IfDown, ChangeMtu, SetRing, WorkLock, Begin
<1>2. up' \in BOOLEAN
  BY DEF UpDownInv, UpDownTypeOK, IfUp, IfDown, ChangeMtu, SetRing, WorkLock
<1>3. UNCHANGED <<dma, napi, twice>>
  BY DEF IfUp, IfDown, ChangeMtu, SetRing, WorkLock, hwVars, history
<1> QED
  BY <1>1, <1>2, <1>3 DEF Device!Begin, Phase

LEMMA StopMaps ==
    ASSUME UpDownInv, Stop
    PROVE  DeviceStep
<1> USE DEF UpDownInv, UpDownTypeOK, StepInv, OpInv, Phase, Opening, Stopping,
            DeviceStep, Device!DeviceNext, Device!deviceVars, Device!Running
<1>1. CASE StopQueue
  BY <1>1 DEF StopQueue, Device!GetStuck
<1>2. CASE StopIrq
  BY <1>2 DEF StopIrq, history
<1>3. CASE StopNapi
  BY <1>3 DEF StopNapi, history, Device!TakeApart
<1>4. CASE StopFree
  <2>1. op # "none" /\ ~twice /\ Phase = "half" /\ Phase' = "halted"
    BY <1>4 DEF StopFree, history
  <2>2. up' = up /\ twice' = twice /\ (up => op' # "none")
    BY <1>4 DEF StopFree, history
  <2> QED
    BY <2>1, <2>2 DEF Device!Halt
<1> QED
  BY <1>1, <1>2, <1>3, <1>4 DEF Stop

\* Only a device that is up gets into fe_open.
LEMMA OpenIsUp ==
    ASSUME UpDownInv, Open
    PROVE  op # "none" /\ op # "close" /\ op # "ifdown" /\ up /\ ~twice
<1>1. step \in Opening
  BY DEF Open, AllocTx, AllocRx, AllocFails, OpenFree, OpenDma, OpenEnable, Opening
<1> QED
  BY <1>1 DEF UpDownInv, UpDownTypeOK, StepInv, OpInv, Opening, Stopping, Ops

LEMMA OpenMaps ==
    ASSUME UpDownInv, Open
    PROVE  DeviceStep
<1> USE DEF DeviceStep, Device!DeviceNext, Device!deviceVars, Device!Running
<1>0. op # "none" /\ op # "close" /\ op # "ifdown" /\ up /\ ~twice
  BY OpenIsUp
<1>1. CASE AllocTx \/ AllocRx \/ AllocFails
  BY <1>1 DEF AllocTx, AllocRx, AllocFails, history, hwVars, Phase
<1>2. CASE OpenFree
  <2>1. Phase = "halted" /\ Phase' = Phase
    BY <1>2 DEF OpenFree, UpDownInv, StepInv, Opening, Phase
  <2>2. up' \in BOOLEAN /\ (op' # "none" => ~up') /\ twice' = twice
    BY <1>0, <1>2 DEF OpenFree, OpenFailed, End, history, UpDownInv, UpDownTypeOK
  <2> QED
    BY <1>0, <2>1, <2>2 DEF Device!Fail
<1>3. CASE OpenDma
  <2>1. Phase = "halted" /\ Phase' = "half"
    BY <1>3 DEF OpenDma, UpDownInv, StepInv, Opening, Phase
  <2> QED
    BY <1>0, <1>3, <2>1 DEF OpenDma, history, Device!PutTogether
<1>4. CASE OpenEnable
  <2>1. Phase = "half" /\ Phase' = "serving"
    BY <1>4 DEF OpenEnable, UpDownInv, StepInv, Opening, Phase
  <2> QED
    BY <1>0, <1>4, <2>1 DEF OpenEnable, End, history, Device!Serve
<1> QED
  BY <1>1, <1>2, <1>3, <1>4 DEF Open

LEMMA BesideMaps ==
    ASSUME UpDownInv,
           \/ WorkStart \/ Irq \/ PollWake \/ PollEnd \/ XmitFull \/ TxTimeout
           \/ UNCHANGED upDownVars
    PROVE  UNCHANGED Device!deviceVars
<1>1. UNCHANGED <<up, op, dma, twice>> /\ (napi' = "off" <=> napi = "off")
  BY DEF WorkStart, Irq, PollWake, PollEnd, XmitFull, TxTimeout, upDownVars, opVars,
         hwVars, history
<1> QED
  BY <1>1 DEF Device!deviceVars, Phase

\* Every step of the driver is a step of the network core's device, or leaves it as it
\* is; that an operation ends is left to the model checker.
THEOREM DriverIsDevice ==
    UpDownSpec => Device!DeviceInit /\ [][Device!DeviceNext]_Device!deviceVars
<1>1. UpDownInit => Device!DeviceInit
  BY DEF UpDownInit, Device!DeviceInit, Phase
<1>2. UpDownInv /\ [UpDownNext]_upDownVars => [Device!DeviceNext]_Device!deviceVars
  BY BeginMaps, StopMaps, OpenMaps, BesideMaps DEF UpDownNext, DeviceStep, Device!DeviceNext
<1> QED
  BY <1>1, <1>2, UpDownInvariant, PTL DEF UpDownSpec
=============================================================================
