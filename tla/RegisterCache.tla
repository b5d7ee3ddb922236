---------------------------- MODULE RegisterCache ----------------------------
(***************************************************************************)
(* The regmap with a cache of lesson 26g, from probe over suspend and      *)
(* resume.  Any register access may fail on the bus, and the chip may lose *)
(* its power, and with it its registers, while the system is suspended.    *)
(*                                                                         *)
(* As regmap does it: a read is served from the cache when it holds the    *)
(* register, a write goes to the cache first and stays there when the bus  *)
(* fails, and regcache_sync writes what the cache holds, if it is dirty,   *)
(* in the order of the addresses, until a write fails.                     *)
(***************************************************************************)
EXTENDS Integers

CONSTANTS
    Identities,   \* what WHO_AM_I may hold
    Supported,    \* the chips that the driver accepts, 0x70 and 0x71
    Awake,        \* the value 0x01 of PWR_MGMT_1
    PowerOn,      \* its value after the chip got power
    Uncached

CacheAssumption ==
    /\ Supported \subseteq Identities
    /\ Uncached \notin Identities \cup {Awake, PowerOn}

VARIABLES
    identity,     \* WHO_AM_I of the chip, which cannot be written
    chip,         \* PWR_MGMT_1 of the chip
    cached_who, cached_pwr,       \* the cache of the regmap
    cache_only, cache_dirty,
    phase,        \* the next step of probe or resume; "up" between them
    val           \* the local variable val of probe

cacheVars == <<identity, chip, cached_who, cached_pwr, cache_only, cache_dirty,
               phase, val>>
cacheFlags == <<cache_only, cache_dirty>>

Init ==
    /\ identity \in Identities
    /\ chip = PowerOn
    /\ cached_who = Uncached /\ cached_pwr = Uncached
    /\ cache_only = FALSE /\ cache_dirty = FALSE
    /\ phase = "unbound"
    /\ val = Uncached

Then(from, to) == phase = from /\ phase' = to

(***************************************************************************)
(* mpu9250_probe                                                           *)
(***************************************************************************)
\* devm_regmap_init_i2c: a new regmap, with an empty cache.
RegmapInit ==
    /\ Then("unbound", "who")
    /\ cached_who' = Uncached /\ cached_pwr' = Uncached
    /\ cache_only' = FALSE /\ cache_dirty' = FALSE
    /\ UNCHANGED <<identity, chip, val>>

ReadWho ==
    /\ Then("who", "check")
    /\ val' = identity
    /\ cached_who' = identity
    /\ UNCHANGED <<identity, chip, cached_pwr, cacheFlags>>

CheckWho ==
    /\ Then("check", IF val \in Supported THEN "pwr" ELSE "unbound")
    /\ UNCHANGED <<identity, chip, cached_who, cached_pwr, cacheFlags, val>>

ReadPwr ==
    /\ Then("pwr", "write")
    /\ val' = chip
    /\ cached_pwr' = chip
    /\ UNCHANGED <<identity, chip, cached_who, cacheFlags>>

WritePwr ==
    /\ Then("write", "verify")
    /\ cached_pwr' = Awake
    /\ chip' = Awake
    /\ UNCHANGED <<identity, cached_who, cacheFlags, val>>

\* The cache has the register: the chip is not asked.
VerifyPwr ==
    /\ Then("verify", "up")
    /\ val' = cached_pwr
    /\ UNCHANGED <<identity, chip, cached_who, cached_pwr, cacheFlags>>

\* An access fails on the bus, and so does probe; the regmap is released.
ProbeAccessFails ==
    /\ Then("who", "unbound") \/ Then("pwr", "unbound") \/ Then("write", "unbound")
    /\ cached_pwr' = IF phase = "write" THEN Awake ELSE cached_pwr
    /\ UNCHANGED <<identity, chip, cached_who, cacheFlags, val>>

Unbind ==
    /\ Then("up", "unbound")
    /\ UNCHANGED <<identity, chip, cached_who, cached_pwr, cacheFlags, val>>

(***************************************************************************)
(* mpu_suspend and mpu_resume                                              *)
(***************************************************************************)
Suspend ==
    /\ Then("up", "suspended")
    /\ cache_only' = TRUE
    /\ UNCHANGED <<identity, chip, cached_who, cached_pwr, cache_dirty, val>>

PowerLost ==
    /\ phase = "suspended"
    /\ chip' = PowerOn
    /\ UNCHANGED <<identity, cached_who, cached_pwr, cacheFlags, phase, val>>

\* Mutant: without regcache_mark_dirty.
ResumeClean ==
    /\ Then("suspended", "sync")
    /\ cache_only' = FALSE
    /\ UNCHANGED <<identity, chip, cached_who, cached_pwr, cache_dirty, val>>

Resume ==
    /\ Then("suspended", "sync")
    /\ cache_only' = FALSE
    /\ cache_dirty' = TRUE
    /\ UNCHANGED <<identity, chip, cached_who, cached_pwr, val>>

\* regcache_sync does nothing unless the cache is dirty.  PWR_MGMT_1 is 0x6B,
SyncPwr ==
    /\ Then("sync", IF cache_dirty THEN "sync_who" ELSE "up")
    /\ chip' = IF cache_dirty THEN cached_pwr ELSE chip
    /\ UNCHANGED <<identity, cached_who, cached_pwr, cacheFlags, val>>

\* and WHO_AM_I 0x75, which the chip does not change.
SyncWho ==
    /\ Then("sync_who", "up")
    /\ cache_dirty' = FALSE
    /\ UNCHANGED <<identity, chip, cached_who, cached_pwr, cache_only, val>>

\* mpu_resume returns the error; the cache stays dirty for the next resume.
SyncFails ==
    /\ cache_dirty
    /\ Then("sync", "up") \/ Then("sync_who", "up")
    /\ UNCHANGED <<identity, chip, cached_who, cached_pwr, cacheFlags, val>>

Next ==
    \/ RegmapInit \/ ReadWho \/ CheckWho \/ ReadPwr \/ WritePwr \/ VerifyPwr
    \/ ProbeAccessFails \/ Unbind
    \/ Suspend \/ PowerLost \/ Resume
    \/ SyncPwr \/ SyncWho \/ SyncFails

Spec == Init /\ [][Next]_cacheVars
-----------------------------------------------------------------------------
\* Type invariant.
TypeOK ==
    /\ identity \in Identities
    /\ chip \in {Awake, PowerOn}
    /\ cached_who \in Identities \cup {Uncached}
    /\ cached_pwr \in {Awake, PowerOn, Uncached}
    /\ cache_only \in BOOLEAN
    /\ cache_dirty \in BOOLEAN
    /\ phase \in {"unbound", "who", "check", "pwr", "write", "verify", "up",
                  "suspended", "sync", "sync_who"}
    /\ val \in Identities \cup {Awake, PowerOn, Uncached}

\* In operation the chip is awake, as the cache says, unless a resume has
\* failed: then the cache knows, and another resume that returns 0 sets it
\* right, although every read in between is served from the cache
\* (regcache_ex.c:86-91, :159-179).
CacheTellsChip ==
    phase = "up" =>
        /\ cached_pwr = Awake /\ cached_who \in Supported
        /\ chip = Awake \/ cache_dirty
=============================================================================
