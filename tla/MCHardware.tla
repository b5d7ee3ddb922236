----------------------------- MODULE MCHardware -----------------------------
(***************************************************************************)
(* The drivers that work with a device for TLC: the DMA controller of      *)
(* lesson 21a, or the sensor of lesson 26e, 26f or 26g.  One of them is    *)
(* loaded, the others stay as they are initially.                          *)
(***************************************************************************)
EXTENDS DmaMem2Mem

CONSTANTS Identities, Supported, Awake, PowerOn, Uncached   \* as in RegisterCache

VARIABLES
    lesson,    \* the driver that is loaded
    identity, chip, cached_who, cached_pwr, cache_only, cache_dirty, phase, val,
    sleeping, waking, deadline, step, seen,
    binding, int_enable, int_status, int_pin, edge, irq_run, status, read_ok,
    empty

C == INSTANCE RegisterCache
W == INSTANCE WakePoll
I == INSTANCE SensorIrq

ASSUME C!CacheAssumption

varsC == <<identity, chip, cached_who, cached_pwr, cache_only, cache_dirty,
           phase, val>>
varsW == <<sleeping, waking, deadline, step, seen>>
varsI == <<binding, int_enable, int_status, int_pin, edge, irq_run, status,
           read_ok, empty>>

HardwareInit ==
    /\ lesson \in {"21a", "26e", "26f", "26g"}
    /\ Init /\ C!Init /\ W!Init /\ I!Init

HardwareNext ==
    \/ lesson = "21a" /\ Next /\ UNCHANGED <<lesson, varsC, varsW, varsI>>
    \/ lesson = "26g" /\ C!Next /\ UNCHANGED <<lesson, vars, varsW, varsI>>
    \/ lesson = "26e" /\ W!Next /\ UNCHANGED <<lesson, vars, varsC, varsI>>
    \/ lesson = "26f" /\ I!Next /\ UNCHANGED <<lesson, vars, varsC, varsW>>

HardwareSpec ==
    /\ HardwareInit
    /\ [][HardwareNext]_<<lesson, vars, varsC, varsW, varsI>>
    /\ lesson = "21a" => Fairness
    /\ lesson = "26e" => W!Fairness
    /\ lesson = "26f" => I!Fairness
-----------------------------------------------------------------------------
\* Type invariants of the drivers.
HardwareTypeOK == TypeOK /\ C!TypeOK /\ W!TypeOK /\ I!TypeOK

\* The chip is in the state that the driver reports, and of three runs of the
\* sensor's interrupt one finds a sample
\* (regcache_ex.c:86-91, :159-179, regmap_read_poll_timeout.c:119-151,
\* regmap_interrupt_driven.c:44-49).
ChipIsAsReported ==
    C!CacheTellsChip /\ W!AwakeWhenProbed /\ I!FindsNothingTwice

\* A write to the DMA device and the probe of the sensor return, whether the
\* hardware answers or not, and a sample that is ready is read
\* (dma_mem2mem.c:117-122, regmap_read_poll_timeout.c:130-142,
\* regmap_interrupt_driven.c:44-49).
CallsReturn == WriteReturns /\ W!ProbeReturns /\ I!DataReadyIsRead
=============================================================================
