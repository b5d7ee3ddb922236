---------------------------- MODULE DriverTable ----------------------------
(***************************************************************************)
(* What the init (or probe) and exit (or remove) functions of the lessons  *)
(* acquire and release, one row per driver.  A row has                     *)
(*   init     the calls of init in order, each one a step below            *)
(*   exit     the releases of exit in order                                *)
(*   managed  devm_ resources: the driver core releases them, last first   *)
(*   calls    calls[g]: what a handler reached through g uses              *)
(* A step that fails goes to a label of init that releases "back" in this  *)
(* order and returns the error.                                            *)
(*                                                                         *)
(* cdev_init, timer_setup and the like set a static object up and are part *)
(* of the step after them.  A sysfs attribute goes with its device.        *)
(***************************************************************************)
EXTENDS Naturals, Sequences, TLC

Step(op, what, back) == [op |-> op, what |-> what, back |-> back]

Get(r, back)     == Step("get", r, back)      \* checked
GetOops(r, back) == Step("oops", r, back)     \* checked, the wrong error is returned
Try(r)           == Step("try", r, <<>>)      \* the result is not looked at
Sure(r)          == Step("sure", r, <<>>)     \* cannot fail
Need(r, back)    == Step("need", r, back)     \* checks an earlier Try
Probe(back)      == Step("probe", "", back)   \* may fail and acquires nothing
Put(r)           == Step("put", r, <<>>)      \* init itself releases r

Row(init, exit, managed, calls) ==
    [init |-> init, exit |-> exit, managed |-> managed, calls |-> calls]

NoCalls == [g \in {} |-> {}]

\* The usual character device on top of what is released by "base":
\* alloc_chrdev_region, cdev_add, class_create, device_create.
CharDevice(base) ==
    << Get("region", base),
       Get("cdev",   <<"region">> \o base),
       Get("class",  <<"cdev", "region">> \o base),
       Get("device", <<"class", "cdev", "region">> \o base) >>

CharExit == <<"device", "class", "cdev", "region">>

\* The same without a look at any result.
BlindDevice == << Try("region"), Try("cdev"), Try("class"), Try("device") >>
-----------------------------------------------------------------------------
(***************************************************************************)
(* Character devices                                                       *)
(***************************************************************************)
Lesson3_1 == Row(<<Get("major", <<>>)>>, <<"major">>, {}, "major" :> {})

Lesson3_2 == Row(<<Get("major", <<>>)>>, <<"major">>, {}, "major" :> {})

Lesson4_1 ==
    Row(<<Get("region", <<>>), Get("cdev", <<"region">>)>>,
        <<"cdev", "region">>, {}, "cdev" :> {})

\* Mutant: the labels of the ladder in the order of the calls.
Lesson4_2Ladder ==
    Row(<<Get("region", <<>>), Get("cdev", <<"region">>),
          Get("class", <<"region", "cdev">>),
          Get("device", <<"region", "cdev", "class">>)>>,
        CharExit, {}, "device" :> {})

Lesson4_2 == Row(CharDevice(<<>>), CharExit, {}, "device" :> {})

Node(i) == "device" \o ToString(i)

\* A device that cannot be created: the loop destroys those before it and
\* leaves i at -1, and init returns PTR_ERR(my_device[-1]).
Lesson4_3 ==
    LET nodes(n) == [i \in 1 .. n |-> Node(n - i)]
        base     == <<"class", "cdev", "region">>
    IN  Row(<<Get("region", <<>>), Get("cdev", <<"region">>),
              Get("class", <<"cdev", "region">>)>>
                \o [n \in 1 .. 4 |-> GetOops(Node(n - 1), nodes(n - 1) \o base)],
            [i \in 1 .. 4 |-> Node(i - 1)] \o base,
            {}, [g \in {Node(i) : i \in 0 .. 3} |-> {}])

\* Four minors, each with a cdev of its own; no result is looked at.
Lesson5 ==
    LET cdev(i) == "cdev" \o ToString(i)
    IN  Row(<<Try("region"), Try("class"),
              Try(cdev(0)), Try(Node(0)), Try(cdev(1)), Try(Node(1)),
              Try(cdev(2)), Try(Node(2)), Try(cdev(3)), Try(Node(3))>>,
            <<Node(0), cdev(0), Node(1), cdev(1),
              Node(2), cdev(2), Node(3), cdev(3), "class", "region">>,
            {}, [g \in {Node(i) : i \in 0 .. 3} |-> {}])

Lesson6 ==
    Row(<<Get("region", <<>>), Get("cdev", <<"region">>),
          Get("class", <<"cdev", "region">>), Try("device")>>,
        CharExit, {}, "device" :> {})

\* The wait queue of lessons 7 and 8 is set up by open.
Lesson7 == Row(BlindDevice, CharExit, {}, "device" :> {})

Lesson8 == Row(BlindDevice, CharExit, {}, "device" :> {})

Lesson9 ==
    Row(<<Sure("waitqueue")>> \o BlindDevice, CharExit, {}, "device" :> {"waitqueue"})

\* The node is there before the wait queue that its read and write use.
Lesson10 ==
    Row(<<Get("region", <<>>), Get("cdev", <<"region">>),
          Get("class", <<"cdev", "region">>), Try("device"), Sure("waitqueue")>>,
        CharExit, {}, "device" :> {"waitqueue"})
-----------------------------------------------------------------------------
(***************************************************************************)
(* Threads, work, timers and interrupts                                    *)
(***************************************************************************)
Lesson11 ==
    Row(<<Get("thread1", <<>>), Get("thread2", <<"thread1">>)>>,
        <<"thread1", "thread2">>, {}, "thread1" :> {} @@ "thread2" :> {})

\* Releasing the work is setting stop_work_flag and flush_work.
Lesson12 ==
    Row(<<Get("wq", <<>>), Sure("work")>>, <<"work", "wq">>, {}, "work" :> {"wq"})

Lesson13 == Row(<<Sure("timer")>>, <<"timer">>, {}, "timer" :> {})

\* exit unregisters major 240 also when registering it failed.
Lesson14 ==
    Row(<<Get("gpio", <<>>), Get("irq", <<"gpio">>), Try("major")>>,
        <<"irq", "gpio", "major">>, {}, "irq" :> {"gpio"} @@ "major" :> {})

\* Mutant: the memory is not managed, and remove frees it.
Lesson15Kfree ==
    Row(<<Get("data", <<>>), Probe(<<"data">>), Get("gpio", <<"data">>),
          Get("irq", <<"data">>)>>,
        <<"data">>, {"gpio", "irq"}, "irq" :> {"data", "gpio"})

Lesson15 ==
    Row(<<Get("data", <<>>), Probe(<<>>), Get("gpio", <<>>), Get("irq", <<>>)>>,
        <<>>, {"data", "gpio", "irq"}, "irq" :> {"data", "gpio"})

\* The same with a threaded handler, which free_irq waits for too.
Lesson16 ==
    Row(<<Get("data", <<>>), Probe(<<>>), Get("gpio", <<>>), Get("irq", <<>>)>>,
        <<>>, {"data", "gpio", "irq"}, "irq" :> {"data", "gpio"})
-----------------------------------------------------------------------------
(***************************************************************************)
(* DMA and shared memory                                                   *)
(***************************************************************************)
Lesson19 ==
    Row(<<Get("data", <<>>), Get("dma", <<>>)>>, <<"dma">>, {"data"}, NoCalls)

Lesson20 ==
    Row(<<Get("data", <<>>), Get("dma", <<>>)>> \o CharDevice(<<"dma">>),
        CharExit \o <<"dma">>, {"data"}, "device" :> {"data", "dma"})

\* Mutant: the buffer is mapped twice.
Lesson21Twice ==
    Row(<<Get("data", <<>>), Get("buffer", <<>>), Get("map", <<"buffer">>),
          Get("map", <<"map", "buffer">>), Put("map")>>,
        <<"buffer">>, {"data"}, NoCalls)

Lesson21 ==
    Row(<<Get("data", <<>>), Get("buffer", <<>>), Get("map", <<"buffer">>), Put("map")>>,
        <<"buffer">>, {"data"}, NoCalls)

\* Write copies by DMA; exit releases what is listed in "last" at the end.
CopyOnWrite(last) ==
    LET bufs == <<"src", "dst", "channel">>
    IN  Row(<<Get("channel", <<>>), Try("src"), Try("dst"), Need("src", bufs), Need("dst", bufs)>>
                \o CharDevice(bufs),
            CharExit \o last, {}, "device" :> {"src", "dst", "channel"})

\* Mutant: kfree(src_buf) is written twice.
Lesson21aTwice == CopyOnWrite(<<"src", "src", "channel">>)

Lesson21a == CopyOnWrite(<<"src", "dst", "channel">>)

\* Mutant: err_unmap_dst is missing, its users go to err_unmap_src.
Lesson21bLadder ==
    LET bufs == <<"src", "dst", "channel">>
    IN  Row(<<Get("channel", <<>>), Try("src"), Try("dst"), Need("src", bufs), Need("dst", bufs),
              Get("srcmap", bufs), Get("dstmap", <<"srcmap">> \o bufs),
              Probe(<<"srcmap">> \o bufs), Get("transfer", <<"srcmap">> \o bufs),
              Probe(<<"transfer", "srcmap">> \o bufs),
              Put("transfer"), Put("dstmap"), Put("srcmap"), Probe(bufs),
              Put("src"), Put("dst")>>,
            <<"channel">>, {}, NoCalls)

\* One transfer at load time; a timeout ends it with dmaengine_terminate_sync.
\* init sets the pointers it has freed to NULL; no other release follows.
Lesson21b ==
    LET bufs == <<"src", "dst", "channel">>
        maps == <<"dstmap", "srcmap">> \o bufs
    IN  Row(<<Get("channel", <<>>), Try("src"), Try("dst"), Need("src", bufs), Need("dst", bufs),
              Get("srcmap", bufs), Get("dstmap", <<"srcmap">> \o bufs),
              Probe(maps), Get("transfer", maps), Probe(<<"transfer">> \o maps),
              Put("transfer"), Put("dstmap"), Put("srcmap"), Probe(bufs),
              Put("src"), Put("dst")>>,
            <<"channel">>, {}, NoCalls)

Lesson22 ==
    Row(<<Get("page", <<>>)>> \o CharDevice(<<"page">>),
        CharExit \o <<"page">>, {}, "device" :> {"page"})
-----------------------------------------------------------------------------
(***************************************************************************)
(* Kernel objects and netlink                                              *)
(***************************************************************************)
Lesson23 == Row(CharDevice(<<>>), CharExit, {}, "device" :> {})

Lesson24 ==
    Row(<<Get("kobj", <<>>), Get("group", <<"kobj">>)>>,
        <<"group", "kobj">>, {}, "group" :> {"kobj"})

\* The input function of the socket replies through nl_sock, which is
\* assigned when netlink_kernel_create has returned.
Netlink ==
    Row(<<Get("socket", <<>>), Sure("nl_sock")>>, <<"socket">>, {}, "socket" :> {"nl_sock"})

Lesson25  == Netlink
Lesson25a == Netlink
Lesson25b == Netlink

\* The family has no operations.
Lesson25c == Row(<<Get("family", <<>>)>>, <<"family">>, {}, NoCalls)
-----------------------------------------------------------------------------
(***************************************************************************)
(* Drivers of the MPU-9250 over regmap: the registers are read and written *)
(* in probe, and any access may fail.                                      *)
(***************************************************************************)
Regmap ==
    Row(<<Get("data", <<>>), Get("regmap", <<>>), Probe(<<>>)>>,
        <<>>, {"data", "regmap"}, NoCalls)

Lesson26a == Regmap
Lesson26b == Regmap
Lesson26c == Regmap
Lesson26d == Regmap
Lesson26e == Regmap
Lesson26g == Regmap

Lesson26f ==
    Row(<<Get("data", <<>>), Get("regmap", <<>>), Probe(<<>>), Get("irq", <<>>)>>,
        <<>>, {"data", "regmap", "irq"}, "irq" :> {"data", "regmap"})
-----------------------------------------------------------------------------
(***************************************************************************)
(* Modules that others use: a client is linked once init has returned      *)
(***************************************************************************)
Lesson27b ==
    Row(<<Get("buffer", <<>>), Sure("symbols")>>, <<"buffer">>, {}, "symbols" :> {"buffer"})

Lesson27c ==
    Row(<<Get("ring", <<>>), Sure("symbols")>>, <<"ring">>, {}, "symbols" :> {"ring"})

\* Modules B and C: a block on the notifier chain.
Lesson27g == Row(<<Sure("nb")>>, <<"nb">>, {}, "nb" :> {})
-----------------------------------------------------------------------------
Rows ==
    "3-1" :> Lesson3_1 @@ "3-2" :> Lesson3_2 @@ "4-1" :> Lesson4_1 @@ "4-2" :> Lesson4_2 @@
    "4-3" :> Lesson4_3 @@ "5" :> Lesson5 @@ "6" :> Lesson6 @@ "7" :> Lesson7 @@
    "8" :> Lesson8 @@ "9" :> Lesson9 @@ "10" :> Lesson10 @@ "11" :> Lesson11 @@
    "12" :> Lesson12 @@ "13" :> Lesson13 @@ "14" :> Lesson14 @@ "15" :> Lesson15 @@
    "16" :> Lesson16 @@ "19" :> Lesson19 @@ "20" :> Lesson20 @@ "21" :> Lesson21 @@
    "21a" :> Lesson21a @@ "21b" :> Lesson21b @@ "22" :> Lesson22 @@ "23" :> Lesson23 @@
    "24" :> Lesson24 @@ "25" :> Lesson25 @@ "25a" :> Lesson25a @@ "25b" :> Lesson25b @@
    "25c" :> Lesson25c @@ "26a" :> Lesson26a @@ "26b" :> Lesson26b @@ "26c" :> Lesson26c @@
    "26d" :> Lesson26d @@ "26e" :> Lesson26e @@ "26f" :> Lesson26f @@ "26g" :> Lesson26g @@
    "27b" :> Lesson27b @@ "27c" :> Lesson27c @@ "27g" :> Lesson27g
=============================================================================
