------------------------------ MODULE FeUpDown ------------------------------
(***************************************************************************)
(* Starting and stopping the frame engine driver, ralink_soc_eth.c and     *)
(* ralink_ethtool.c: fe_open and fe_stop, called by ifup and ifdown, by    *)
(* fe_change_mtu, by fe_set_ringparam and by the reset work that           *)
(* fe_tx_timeout orders.                                                   *)
(*                                                                         *)
(* The callers exclude each other with the rtnl lock, so one operation is  *)
(* under way at a time; interrupt, NAPI poll, transmit path and watchdog   *)
(* go on beside it.  FeTx has the transmit ring in detail; here the rings  *)
(* are memory that is there or not, and an allocation may fail.            *)
(*                                                                         *)
(* External: the network core of Linux 3.18.  napi_disable waits for       *)
(* NAPI_STATE_SCHED and keeps it, napi_enable gives it back and asserts    *)
(* that it was kept, netif_napi_add creates the instance disabled.         *)
(***************************************************************************)
EXTENDS Naturals

VARIABLES
    up,        \* netif_running
    op,        \* the operation that holds the rtnl lock
    step,      \* where its fe_stop or fe_open is
    work,      \* where fe_pending_work is
    pending,   \* FE_FLAG_RESET_PENDING
    rings,     \* the rings in memory: none, the transmit ring, both
    dma,       \* FE_RX_DMA_EN and FE_TX_DMA_EN
    irq,       \* the interrupts are enabled
    napi,      \* off: napi_disable keeps it; idle; polling
    stopped,   \* netif_queue_stopped
    failed,    \* history: an fe_open has failed
    twice      \* history: fe_stop was called on a device already stopped

hwVars == <<rings, dma, irq, napi, stopped>>
opVars == <<up, op, step, work, pending>>
history == <<failed, twice>>
upDownVars == <<opVars, hwVars, history>>

Ops == {"none", "ifup", "ifdown", "mtu", "ring", "reset", "close"}
Steps == {"none", "queue", "irq", "napi", "free", "tx", "rx", "fail", "dma", "enable"}

\* Every variable has its type, and an operation is under way exactly while fe_stop or
\* fe_open has a next step: no error path leaves the lock held with nothing to do.
UpDownTypeOK ==
    /\ op = "none" <=> step = "none"
    /\ op \in Ops /\ step \in Steps
    /\ work \in {"idle", "lock", "reset"}
    /\ rings \in {"none", "tx", "both"}
    /\ napi \in {"off", "idle", "polling"}
    /\ up \in BOOLEAN /\ pending \in BOOLEAN /\ dma \in BOOLEAN /\ irq \in BOOLEAN
    /\ stopped \in BOOLEAN /\ failed \in BOOLEAN /\ twice \in BOOLEAN

UpDownInit ==
    /\ up = FALSE /\ op = "none" /\ step = "none"
    /\ work = "idle" /\ pending = FALSE
    /\ rings = "none" /\ dma = FALSE /\ irq = FALSE
    /\ napi = "off"
    /\ stopped = FALSE
    /\ failed = FALSE /\ twice = FALSE

(***************************************************************************)
(* The operations begin.                                                   *)
(***************************************************************************)
Begin(o, s) == op = "none" /\ op' = o /\ step' = s

\* The lock is not given back.
MutEnd ==
    /\ step' = "none"
    /\ work' = (IF op \in {"reset", "close"} THEN "idle" ELSE work)
    /\ UNCHANGED op

End ==
    /\ op' = "none" /\ step' = "none"
    /\ work' = IF op \in {"reset", "close"} THEN "idle" ELSE work

\* dev_open sets the running bit, then calls fe_open.
IfUp ==
    /\ ~up /\ Begin("ifup", "tx")
    /\ up' = TRUE
    /\ UNCHANGED <<work, pending, hwVars, history>>

\* Whether the device runs is not asked.
MutIfDown ==
    /\ Begin("ifdown", "queue")
    /\ up' = FALSE
    /\ UNCHANGED <<work, pending, hwVars, history>>

\* dev_close clears the running bit, then calls fe_stop.
IfDown ==
    /\ up /\ Begin("ifdown", "queue")
    /\ up' = FALSE
    /\ UNCHANGED <<work, pending, hwVars, history>>

ChangeMtu ==
    /\ up /\ Begin("mtu", "queue")
    /\ UNCHANGED <<up, work, pending, hwVars, history>>

\* Whether the device runs or not.
SetRing ==
    /\ Begin("ring", "queue")
    /\ UNCHANGED <<up, work, pending, hwVars, history>>

\* The flag is cleared before the lock is taken.
WorkStart ==
    /\ work = "idle" /\ pending
    /\ pending' = FALSE
    /\ work' = "lock"
    /\ UNCHANGED <<up, op, step, hwVars, history>>

WorkLock ==
    /\ work = "lock" /\ Begin("reset", "queue")
    /\ work' = "reset"
    /\ UNCHANGED <<up, pending, hwVars, history>>

(***************************************************************************)
(* fe_stop.                                                                *)
(***************************************************************************)
StopQueue ==
    /\ step = "queue" /\ step' = "irq"
    /\ stopped' = TRUE
    /\ twice' = (twice \/ napi = "off")
    /\ UNCHANGED <<up, op, work, pending, rings, dma, irq, napi, failed>>

StopIrq ==
    /\ step = "irq" /\ step' = "napi"
    /\ irq' = FALSE
    /\ UNCHANGED <<up, op, work, pending, rings, dma, napi, stopped, history>>

\* It waits for the end of the poll, or of an earlier napi_disable.
StopNapi ==
    /\ step = "napi" /\ napi = "idle" /\ step' = "free"
    /\ napi' = "off"
    /\ UNCHANGED <<up, op, work, pending, rings, dma, irq, stopped, history>>

\* The hardware is not stopped.
MutStopFree ==
    /\ step = "free"
    /\ rings' = "none"
    /\ IF op \in {"ifdown", "close"} THEN End ELSE step' = "tx" /\ UNCHANGED <<op, work>>
    /\ UNCHANGED <<up, pending, dma, irq, napi, stopped, history>>

\* A change of the MTU does not start the device again.
MutStopOnly ==
    /\ step = "free"
    /\ dma' = FALSE
    /\ rings' = "none"
    /\ IF op \in {"ifdown", "close", "mtu"} THEN End ELSE step' = "tx" /\ UNCHANGED <<op, work>>
    /\ UNCHANGED <<up, pending, irq, napi, stopped, history>>

StopFree ==
    /\ step = "free"
    /\ dma' = FALSE
    /\ rings' = "none"
    /\ IF op \in {"ifdown", "close"} THEN End ELSE step' = "tx" /\ UNCHANGED <<op, work>>
    /\ UNCHANGED <<up, pending, irq, napi, stopped, history>>

(***************************************************************************)
(* fe_open.                                                                *)
(***************************************************************************)
AllocTx ==
    /\ step = "tx" /\ step' = "rx"
    /\ rings' = "tx"
    /\ UNCHANGED <<up, op, work, pending, dma, irq, napi, stopped, history>>

AllocRx ==
    /\ step = "rx" /\ step' = "dma"
    /\ rings' = "both"
    /\ UNCHANGED <<up, op, work, pending, dma, irq, napi, stopped, history>>

AllocFails ==
    /\ step \in {"tx", "rx"} /\ step' = "fail"
    /\ failed' = TRUE
    /\ UNCHANGED <<up, op, work, pending, hwVars, twice>>

\* What the callers do with the error: dev_open clears the running bit, the reset
\* closes the device, the other two leave it as it is.
OpenFailed ==
    IF op = "reset" /\ up
    THEN op' = "close" /\ step' = "queue" /\ up' = FALSE /\ UNCHANGED work
    ELSE End /\ up' = (up /\ op # "ifup")

\* What was allocated stays.
MutOpenFree ==
    /\ step = "fail"
    /\ OpenFailed
    /\ UNCHANGED <<pending, hwVars, history>>

OpenFree ==
    /\ step = "fail"
    /\ rings' = "none"
    /\ OpenFailed
    /\ UNCHANGED <<pending, dma, irq, napi, stopped, history>>

OpenDma ==
    /\ step = "dma" /\ step' = "enable"
    /\ dma' = TRUE
    /\ UNCHANGED <<up, op, work, pending, rings, irq, napi, stopped, history>>

\* NAPI stays disabled.
MutOpenEnable ==
    /\ step = "enable" /\ End
    /\ irq' = TRUE
    /\ stopped' = FALSE
    /\ UNCHANGED <<up, pending, rings, dma, napi, history>>

OpenEnable ==
    /\ step = "enable" /\ End
    /\ napi' = "idle"
    /\ irq' = TRUE
    /\ stopped' = FALSE
    /\ UNCHANGED <<up, pending, rings, dma, history>>

(***************************************************************************)
(* What goes on beside the operations.                                     *)
(***************************************************************************)
\* fe_handle_irq; napi_disable in its wait lets nothing be scheduled any more.
Irq ==
    /\ irq /\ napi = "idle" /\ step # "napi"
    /\ napi' = "polling"
    /\ irq' = FALSE
    /\ UNCHANGED <<opVars, rings, dma, stopped, history>>

\* fe_poll_tx has cleaned up packets.
PollWake ==
    /\ napi = "polling" /\ stopped
    /\ stopped' = FALSE
    /\ UNCHANGED <<opVars, rings, dma, irq, napi, history>>

\* A poll that has used its budget up while napi_disable waits ends as it is.
PollEnd ==
    /\ napi = "polling"
    /\ napi' = "idle"
    /\ irq' = TRUE \/ (step = "napi" /\ irq' = irq)
    /\ UNCHANGED <<opVars, rings, dma, stopped, history>>

\* dev_open activates the queue, and with it the watchdog, after fe_open.
Active == up /\ op # "ifup"

\* fe_start_xmit finds the ring full.
XmitFull ==
    /\ Active /\ ~stopped
    /\ stopped' = TRUE
    /\ UNCHANGED <<opVars, rings, dma, irq, napi, history>>

\* fe_tx_timeout.
TxTimeout ==
    /\ Active /\ stopped /\ ~pending
    /\ pending' = TRUE
    /\ UNCHANGED <<up, op, step, work, hwVars, history>>

Stop == StopQueue \/ StopIrq \/ StopNapi \/ StopFree
Open == AllocTx \/ AllocRx \/ AllocFails \/ OpenFree \/ OpenDma \/ OpenEnable

UpDownNext ==
    \/ IfUp \/ IfDown \/ ChangeMtu \/ SetRing \/ WorkStart \/ WorkLock
    \/ Stop \/ Open
    \/ Irq \/ PollWake \/ PollEnd \/ XmitFull \/ TxTimeout

UpDownSpec == UpDownInit /\ [][UpDownNext]_upDownVars

\* An operation that can go on goes on; a poll ends, because napi_disable keeps NAPI
\* from scheduling another.
FairUpDownSpec == UpDownSpec /\ WF_upDownVars(Stop \/ Open) /\ WF_upDownVars(PollEnd)

(***************************************************************************)
(* Properties.                                                             *)
(***************************************************************************)
\* Neither the hardware nor a poll ever works in rings that are not there, however
\* resets, ifdown and failing allocations follow each other.
WorksInRings == dma \/ napi # "off" => rings = "both"

\* fe_open never allocates over rings that still are in memory, and its napi_enable
\* never meets the assertion that NAPI_STATE_SCHED is held (BUG_ON).
OpensStopped ==
    /\ step = "tx" => rings = "none"
    /\ step \in {"tx", "rx", "fail", "dma", "enable"} => napi = "off"

\* Rings are there while they are used and gone when new ones are made.
RingsInPlace == WorksInRings /\ OpensStopped

\* Between the operations the device is what the network core takes it for: running
\* with everything there unless an fe_open has failed, or down with nothing left.
AtRest ==
    op = "none" =>
      IF up THEN failed \/ (rings = "both" /\ dma /\ napi # "off")
            ELSE rings = "none" /\ ~dma /\ napi = "off"

\* fe_stop meets a stopped device only after a failed fe_open, or when ethtool sets the
\* rings of a device that is down, or when a reset comes after the ifdown.
StoppedTwice ==
    [][ ~twice /\ twice' => failed \/ (~up /\ op \in {"ring", "reset"}) ]_upDownVars

\* The device as the network core sees it.
Phase ==
    IF dma /\ napi # "off" THEN "serving"
    ELSE IF ~dma /\ napi = "off" THEN "halted" ELSE "half"

Device == INSTANCE NetDevice WITH busy <- op # "none", phase <- Phase, stuck <- twice

\* The driver implements the network core's device: every operation, with its failing
\* allocations and beside polls, interrupts and resets, is a legal sequence of taking
\* apart and putting together, and gives the rtnl lock back, unless fe_stop was called
\* on a device already stopped: napi_disable then waits for itself.
ImplementsDevice == Device!DeviceSpec
=============================================================================
