--------------------------- MODULE JuliusServices ----------------------------
(***************************************************************************)
(* Daemons that answer requests from tables of their own - notifications,  *)
(* permissions, the enclave - and the fingerprint driver.  They share no   *)
(* state and no lock, so a behaviour runs one of them, part, and leaves    *)
(* the variables of the others as they were.                               *)
(***************************************************************************)
EXTENDS JuliusPush, FiniteSets

CONSTANTS Perms, Defaults, MaxPerms,   \* permissions
          Users, MaxKeys, MaxMade      \* the enclave

ASSUME ServicesAssumption ==
    /\ Defaults \subseteq Perms /\ IsFiniteSet(Defaults)
    /\ MaxPerms \in Nat /\ Cardinality(Defaults) <= MaxPerms
    /\ MaxKeys \in Nat \ {0} /\ MaxMade \in Nat \ {0}

VARIABLES part
VARIABLES perms, granted, lost
VARIABLES keys, key_count, enclave_lock, enclave_pc, made, id_out, known, texts
VARIABLES bits, latches, failing, asleep, enabled, queued, work, lock, finger_present, waiter, capture

permVars == <<perms, granted, lost>>
keyVars  == <<keys, key_count, enclave_lock, enclave_pc, made, id_out, known, texts>>
fpVars   == <<bits, latches, failing, asleep, enabled, queued, work, lock, finger_present, waiter, capture>>
allVars  == <<part, vars, permVars, keyVars, fpVars>>

Permissions == INSTANCE JuliusPermissions
Enclave == INSTANCE JuliusEnclave WITH lock <- enclave_lock, pc <- enclave_pc
Finger == INSTANCE JuliusFinger

AllInit ==
    /\ part \in {"push", "permissions", "enclave", "finger"}
    /\ Permissions!Init /\ Enclave!Init
    /\ IF part = "push" THEN Init ELSE Init /\ file = None
    /\ IF part = "finger" THEN Finger!Init ELSE Finger!Init /\ latches = FALSE /\ failing = FALSE

OnlyPush   == part = "push" /\ UNCHANGED <<part, permVars, keyVars, fpVars>>
OnlyPerms  == part = "permissions" /\ UNCHANGED <<part, vars, keyVars, fpVars>>
OnlyKeys   == part = "enclave" /\ UNCHANGED <<part, vars, permVars, fpVars>>
OnlyFinger == part = "finger" /\ UNCHANGED <<part, vars, permVars, keyVars>>

AllNext == \/ OnlyPush /\ Next
           \/ OnlyPerms /\ Permissions!Next
           \/ OnlyKeys /\ Enclave!Next
           \/ OnlyFinger /\ Finger!Next

\* Kernel threads run; the driver's mutex is handed over, so that the work item gets
\* it between captures.  A finger comes again and again, not always just when the
\* work item runs.
FingerFairness ==
    /\ SF_allVars(OnlyFinger /\ Finger!WorkLock)
    /\ WF_allVars(OnlyFinger /\ (Finger!WorkRead \/ Finger!WorkClear \/ Finger!CaptureEnd))
    /\ WF_allVars(OnlyFinger /\ Finger!WaitWoken)
    /\ SF_allVars(OnlyFinger /\ work = "idle" /\ Finger!Event("down"))

AllSpec == AllInit /\ [][AllNext]_allVars /\ FingerFairness

-----------------------------------------------------------------------------
(* Properties *)

\* What a daemon answers is so.  Clients of the push service get the id of their own
\* notification, until entries are used again; what was granted or denied last is
\* what the permissions daemon says, while its table had room; an id the enclave
\* answered opens what was encrypted under it until the enclave ends, although keys
\* are looked up while others are being made.
RepliesTrue == RepliesOwnId /\ Permissions!Honest /\ Enclave!Honest

\* Who waits for a finger is woken (FPC_IOC_WAIT_FINGER of julius_fpc1020.c),
\* although captures hold the lock that the news of it need, unless the sensor is put
\* to sleep or reset meanwhile, or latches what it was not asked to, or its bus fails.
FingerSeen == part = "finger" => Finger!WaitEnds
=============================================================================
