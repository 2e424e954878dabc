---------------------------- MODULE JuliusFinger -----------------------------
(***************************************************************************)
(* The driver of the fingerprint sensor (julius_fpc1020.c): its interrupt, *)
(* the work item that reads what happened, and the two calls that wait.    *)
(* The sensor's line is high while a bit it was told to report is set, and *)
(* the interrupt comes when the line rises.                                *)
(*                                                                         *)
(* A sensor that sleeps reports nothing, and one that was reset has        *)
(* forgotten what to report.                                               *)
(*                                                                         *)
(* A capture waits for image_ready with the lock that the work item needs  *)
(* to set it: it always ends by its timeout or a signal, so that neither   *)
(* image_ready nor the image is kept here.                                 *)
(***************************************************************************)
VARIABLES bits,            \* of FPC1020_REG_INT_STATUS: "down", "up"
          latches,         \* the sensor also sets the bits it was not told to report
          failing,         \* transfers over SPI may fail; nobody looks
          asleep,          \* FPC1020_REG_SLEEP is set
          enabled,         \* FPC1020_REG_INT_ENABLE has FINGER_DOWN; nobody sets FINGER_UP
          queued,          \* irq_work is pending
          work,            \* what the work item does
          lock,            \* who holds fpc->lock
          finger_present,
          waiter, capture  \* a caller of WAIT_FINGER, one of CAPTURE_IMG

vars == <<bits, latches, failing, asleep, enabled, queued, work, lock, finger_present, waiter, capture>>
sensor == <<bits, latches, failing, asleep, enabled, queued>>

Init ==
  /\ bits = {} /\ latches \in BOOLEAN /\ failing \in BOOLEAN
  /\ asleep = FALSE /\ enabled = FALSE /\ queued = FALSE
  /\ work = "idle" /\ lock = {}
  /\ finger_present = FALSE
  /\ waiter = "idle" /\ capture = "idle"

\* A finger goes down or up: fpc_irq_handler() runs if the line rises.
Event(e) ==
  /\ ~asleep
  /\ latches \/ (e = "down" /\ enabled)
  /\ bits' = bits \cup {e}
  /\ queued' = (queued \/ (e = "down" /\ enabled /\ "down" \notin bits))
  /\ UNCHANGED <<latches, failing, asleep, enabled, work, lock, finger_present, waiter, capture>>

-----------------------------------------------------------------------------
(* fpc_irq_work_handler() *)

WorkLock ==
  /\ work = "idle" /\ queued /\ lock = {}
  /\ queued' = FALSE /\ lock' = {"work"} /\ work' = "read"
  /\ UNCHANGED <<bits, latches, failing, asleep, enabled, finger_present, waiter, capture>>

WorkRead ==
  /\ work = "read"
  /\ \/ finger_present' = ("up" \notin bits /\ (finger_present \/ "down" \in bits))
     \/ failing /\ UNCHANGED finger_present
  /\ work' = "clear"
  /\ UNCHANGED <<sensor, lock, waiter, capture>>

\* Every bit is cleared, those that were set after the reading too; or none, and the
\* line stays high.
WorkClear ==
  /\ work = "clear"
  /\ bits' = {} \/ (failing /\ UNCHANGED bits)
  /\ lock' = {} /\ work' = "idle"
  /\ UNCHANGED <<latches, failing, asleep, enabled, queued, finger_present, waiter, capture>>

Work == WorkLock \/ WorkRead \/ WorkClear

-----------------------------------------------------------------------------
(* FPC_IOC_WAIT_FINGER takes no lock. *)

WaitReset ==
  /\ waiter = "idle"
  /\ finger_present' = FALSE /\ waiter' = "enable"
  /\ UNCHANGED <<sensor, work, lock, capture>>

WaitEnable ==
  /\ waiter = "enable"
  /\ \/ enabled' = TRUE /\ queued' = (queued \/ (~enabled /\ "down" \in bits))
     \/ failing /\ UNCHANGED <<enabled, queued>>
  /\ waiter' = "wait"
  /\ UNCHANGED <<bits, latches, failing, asleep, work, lock, finger_present, capture>>

\* It looks when it is woken; finger_present may be false again by then.
WaitWoken ==
  /\ waiter = "wait" /\ finger_present
  /\ waiter' = "idle"
  /\ UNCHANGED <<sensor, work, lock, finger_present, capture>>

WaitSignal ==
  /\ waiter = "wait" /\ waiter' = "idle"
  /\ UNCHANGED <<sensor, work, lock, finger_present, capture>>

-----------------------------------------------------------------------------
(* FPC_IOC_CAPTURE_IMG *)

CaptureStart ==
  /\ capture = "idle" /\ lock = {}
  /\ lock' = {"capture"} /\ capture' = "wait"
  /\ UNCHANGED <<sensor, work, finger_present, waiter>>

\* Mutant of CaptureEnd: the error is returned with the lock held.
CaptureEnd_locked ==
  /\ capture = "wait"
  /\ capture' = "idle"
  /\ UNCHANGED <<sensor, work, lock, finger_present, waiter>>

CaptureEnd ==
  /\ capture = "wait"
  /\ lock' = {} /\ capture' = "idle"
  /\ UNCHANGED <<sensor, work, finger_present, waiter>>

-----------------------------------------------------------------------------
(* FPC_IOC_SLEEP and FPC_IOC_WAKEUP take no lock either, and do not ask who waits. *)

Sleep ==
  /\ asleep' = TRUE
  /\ UNCHANGED <<bits, latches, failing, enabled, queued, work, lock, finger_present, waiter, capture>>

\* fpc_hw_reset()
Wakeup ==
  /\ asleep' = FALSE /\ bits' = {} /\ enabled' = FALSE
  /\ UNCHANGED <<latches, failing, queued, work, lock, finger_present, waiter, capture>>

Next ==
  \/ \E e \in {"down", "up"} : Event(e)
  \/ Work \/ WaitReset \/ WaitEnable \/ WaitWoken \/ WaitSignal
  \/ CaptureStart \/ CaptureEnd \/ Sleep \/ Wakeup

\* A call of WAIT_FINGER returns, although a finger that is put down between the
\* work item's reading and its clearing is never seen, and captures hold the work
\* item up; or somebody has put the sensor to sleep or reset it in the meantime, and
\* the caller waits for a signal.  With a sensor that latches FINGER_UP unasked it
\* need not: the two bits are then read together and the later line of the handler
\* wins.  Nor need it with a bus that fails: what was not cleared never rises again.
WaitEnds ==
  ~latches /\ ~failing => (waiter = "wait" ~> waiter = "idle" \/ asleep \/ ~enabled)
=============================================================================
