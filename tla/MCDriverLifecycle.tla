------------------------- MODULE MCDriverLifecycle -------------------------
(* The drivers of all lessons for TLC. *)
EXTENDS DriverTable, LadderRules

\* Lessons 5 and 7 to 9 look at no result, and later calls of init rest on
\* earlier ones: nothing can be said of them when a call fails.
Checking == DOMAIN Rows \ {"5", "7", "8", "9"}

Files == {"major", "cdev", "device", "socket", "symbols"} \cup {Node(i) : i \in 0 .. 3}

BasisOf ==
    "device" :> {"class", "region"} @@ "cdev" :> {"region"} @@
    [r \in {Node(i) : i \in 0 .. 3} |-> {"class", "region", "cdev"}] @@
    "irq" :> {"gpio", "regmap", "data"} @@ "map" :> {"buffer"} @@
    "srcmap" :> {"src"} @@ "dstmap" :> {"dst"} @@ "group" :> {"kobj"} @@
    "transfer" :> {"srcmap", "dstmap", "channel"} @@ "work" :> {"wq"}

Assigned == {"waitqueue", "nl_sock", "symbols"}

\* device_destroy and kfree accept what was never there.
Optionals == {"device", "src", "dst"}

\* What is released wrongly: when lesson 4-3 cannot create a device, its label
\* releases everything and init may return success, so that exit releases it
\* again; exit of lesson 14 unregisters major 240 also when registering it
\* failed (gpio_irq_drv.c:188).
Wrong(d) == CASE d = "4-3" -> Acquired(d) [] d = "14" -> {"major"} [] OTHER -> {}
-----------------------------------------------------------------------------
\* The rules of LadderRules.  Lessons 4-3, 10, 25, 25a and 25b open their gates
\* before init is done.
KeepsRules(d) ==
    /\ IsRow(d)
    /\ KeepsNothing(d)
    /\ Supported(d, BasisIn(d))
    /\ ReleasesHeld(d, Wrong(d))
    /\ d \in {"4-3", "10", "25", "25a", "25b"} \/ ClosesGates(d)

\* The type invariant, and the rules for the row of every driver.
DriverTypeOK ==
    /\ TypeOK
    /\ phase = "out" => KeepsRules(driver)

\* Nothing is released that is not held: not twice, not before it is acquired,
\* not after the call that should have acquired it failed.  NULL pointers and
\* devices that were never created are not counted, nor what lessons 4-3 and 14
\* release wrongly.
NoOtherBadRelease == bad \subseteq Wrong(driver)

\* No handler runs on what is gone or not there yet, but in lessons 4-3, 10,
\* 25, 25a and 25b, which open their gates before init is done.
OtherHandlersAreBacked ==
    driver \in {"4-3", "10", "25", "25a", "25b"} \/ HandlersAreBacked
=============================================================================
