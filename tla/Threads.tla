------------------------------ MODULE Threads -------------------------------
(***************************************************************************)
(* Kernel threads (kern/arinc/process.c) under the timer interrupt         *)
(* (kern/trap/trap.c): process_init creates them, kern_init enables        *)
(* interrupts and calls schedule(), and from then on every TICK_NUM-th     *)
(* tick calls schedule() on the stack of the thread it interrupts.         *)
(*                                                                         *)
(* Interrupt gates switch interrupts off, so the scheduling a tick does is *)
(* one step.  The call kern_init makes has interrupts on: it is one action *)
(* per store to the queue, and a tick may come between any two of them.    *)
(***************************************************************************)
EXTENDS Bitmap, FiniteSets, SequencesExt

CONSTANTS
    Workers,        \* the tasks check_kernel_thread creates, by their all_tag
    InitProc,       \* the thread that boots the kernel
    ListHead, ListTail, NULL,
    MayFail,        \* workers for whose stack there may be no memory
    PidMapLen,      \* pid_map.len, in bytes
    TickNum,        \* TICK_NUM
    MaxBootTicks    \* bound: ticks before kern_init's schedule() has switched

INSTANCE List WITH Elems <- Workers

Thread == Workers \cup {InitProc}

ASSUME ThreadConstants ==
    /\ InitProc \notin Workers \cup {ListHead, ListTail, NULL}
    /\ ListHead # ListTail /\ NULL \notin Node
    /\ ListHead \notin Workers /\ ListTail \notin Workers
    /\ PidMapLen \in Nat \ {0} /\ TickNum \in Nat \ {0} /\ MaxBootTicks \in Nat
    /\ MayFail \subseteq Workers
    /\ IsFiniteSet(Workers)

VARIABLES
    queue,      \* all_proc_set
    pids,       \* the bits of pid_map that are set
    pid,        \* task->pid; -1 of a task that does not exist
    todo,       \* the kernel_thread calls still to be made
    stage,      \* how far kern_init is
    next,       \* next in kern_init's schedule()
    cur,        \* current_thread: whose stack the processor is on
    mode,       \* "off": before intr_enable; "on"; "irq", "ret": in trap() with
                \* interrupts off, before and after the switch
    ticks,      \* ticks % TICK_NUM
    esp0        \* load_esp0: the thread whose kernel stack the TSS names

vars == <<queue, pids, pid, todo, stage, next, cur, mode, ticks, esp0>>
boot == <<pids, pid, todo>>

Created == {t \in Workers : pid[t] # -1}

\* process_init up to check_kernel_thread: make_init_thread has taken pid 0
\* and keeps the booting thread off the queue.
Init == /\ queue = EmptyList
        /\ pids = {0}
        /\ pid = [t \in Thread |-> IF t = InitProc THEN 0 ELSE -1]
        /\ todo = Workers
        /\ stage = "create" /\ next = NULL
        /\ cur = InitProc /\ mode = "off"
        /\ ticks = 0 /\ esp0 = NULL

-----------------------------------------------------------------------------
\* alloc_pid.  Bits from pid_map.len on can never be set, so the scan never
\* fails, and pid_map.len is given again and again.
AllocPid == BitmapScan(pids, PidMapLen, 1)

\* kernel_thread, which check_kernel_thread calls and whose result it ignores.
KernelThread(t) == /\ stage = "create" /\ t \in todo
                   /\ todo' = todo \ {t}
                   /\ pid' = [pid EXCEPT ![t] = AllocPid]
                   /\ pids' = BitmapSet(pids, PidMapLen, AllocPid)
                   /\ queue' = PushBack(queue, t)
                   /\ UNCHANGED <<stage, next, cur, mode, ticks, esp0>>

\* alloc_proc has no memory: E_NO_MEM.
KernelThreadFails(t) == /\ stage = "create" /\ t \in todo \cap MayFail
                        /\ todo' = todo \ {t}
                        /\ UNCHANGED <<queue, pids, pid, stage, next, cur, mode,
                                       ticks, esp0>>

\* clock_init and intr_enable.
IntrEnable == /\ stage = "create" /\ todo = {}
              /\ stage' = "call" /\ mode' = "on" /\ ticks' = 0
              /\ UNCHANGED <<queue, boot, next, cur, esp0>>

-----------------------------------------------------------------------------
\* kern_init's schedule(), which has interrupts on; once another thread has
\* been switched to, it never goes on.
Booting(s) == stage = s /\ cur = InitProc /\ mode = "on"

\* The front of an empty list is its tail, which list_erase does not take;
\* schedule() does not look, and switches to whatever lies around address 0.
BootPick == /\ Booting("call")
            /\ next' = queue.next[ListHead]
            /\ stage' = IF IsEmpty(queue) THEN "wild" ELSE "next"
            /\ UNCHANGED <<queue, boot, cur, mode, ticks, esp0>>

BootUnlinkNext == /\ Booting("next")
                  /\ queue' = UnlinkNext(queue, next)
                  /\ stage' = "prev"
                  /\ UNCHANGED <<boot, next, cur, mode, ticks, esp0>>

BootUnlinkPrev == /\ Booting("prev")
                  /\ queue' = UnlinkPrev(queue, next)
                  /\ stage' = "len"
                  /\ UNCHANGED <<boot, next, cur, mode, ticks, esp0>>

BootUncount == /\ Booting("len")
               /\ queue' = Uncount(queue)
               /\ stage' = "switch"
               /\ UNCHANGED <<boot, next, cur, mode, ticks, esp0>>

\* load_esp0 and switch_to.  The new thread begins in kthread_ret, whose iret
\* loads its tf_eflags with FL_IF.
BootSwitch == /\ Booting("switch")
              /\ esp0' = next /\ cur' = next
              /\ stage' = "gone"
              /\ UNCHANGED <<queue, boot, next, mode, ticks>>

BootStep == BootPick \/ BootUnlinkNext \/ BootUnlinkPrev \/ BootUncount \/ BootSwitch

-----------------------------------------------------------------------------
\* A timer interrupt.
Tick == /\ mode = "on" /\ stage # "wild"
        /\ cur = InitProc => ticks < MaxBootTicks
        /\ ticks' = (ticks + 1) % TickNum
        /\ mode' = IF ticks' = 0 THEN "irq" ELSE "on"
        /\ UNCHANGED <<queue, boot, stage, next, cur, esp0>>

\* Faulty variant: the thread that leaves is forgotten.
QueuedNever == queue

\* The thread that leaves joins the queue, unless it is the one that booted.
Queued == IF cur # InitProc THEN PushBack(queue, cur) ELSE queue

\* schedule() on the stack of the thread the tick interrupted.
Schedule == /\ mode = "irq" /\ mode' = "ret"
            /\ IF IsEmpty(Queued)
               THEN /\ stage' = "wild"
                    /\ UNCHANGED <<queue, cur, esp0>>
               ELSE /\ LET t == First(Queued)
                       IN queue' = PopFront(Queued) /\ cur' = t /\ esp0' = t
                    /\ UNCHANGED stage
            /\ UNCHANGED <<boot, next, ticks>>

\* A thread that was switched away from comes back out of its own schedule()
\* and trap(), a new one begins in kthread_ret: both end in an iret that puts
\* interrupts back on.
Return == /\ mode = "ret" /\ mode' = "on" /\ stage # "wild"
          /\ UNCHANGED <<queue, boot, stage, next, cur, ticks, esp0>>

Handle == Schedule \/ Return

Next == \/ \E t \in Workers : KernelThread(t) \/ KernelThreadFails(t)
        \/ IntrEnable \/ BootStep \/ Tick \/ Handle

Spec == Init /\ [][Next]_vars

\* The processor runs, and the clock keeps ticking.  Threads never finish:
\* thread_func is an endless loop.
FairSpec == /\ Spec
            /\ WF_vars(\E t \in Workers : KernelThread(t))
            /\ WF_vars(IntrEnable) /\ WF_vars(BootStep)
            /\ WF_vars(Tick) /\ WF_vars(Handle)

-----------------------------------------------------------------------------
\* Type correctness.
TypeOK == /\ queue \in [next : Link, prev : Link, len : Nat]
          /\ pids \subseteq 0 .. PidMapLen - 1
          /\ pid \in [Thread -> -1 .. PidMapLen]
          /\ todo \subseteq Workers
          /\ stage \in {"create", "call", "next", "prev", "len", "switch", "gone", "wild"}
          /\ next \in Node \cup {NULL}
          /\ cur \in Thread /\ mode \in {"off", "on", "irq", "ret"}
          /\ ticks \in 0 .. TickNum - 1
          /\ esp0 \in Workers \cup {NULL}

\* Except while kern_init is unlinking the first thread, every thread that was
\* created is either running or on the queue, exactly once, and the queue's
\* links agree in both directions: list.c's unlocked stores never meet an
\* interrupt that uses the queue.
Unlinking == cur = InitProc /\ stage \in {"prev", "len", "switch"}
QueueIntact ==
    ~Unlinking => \E s \in Orders : Holds(queue, s) /\ ToSet(s) = Created \ {cur}

\* schedule() never finds the queue empty and switches to nowhere.
NeverWild == stage # "wild"

\* No two threads have the same pid.
PidsDistinct == \A s, t \in Created \cup {InitProc} : pid[s] = pid[t] => s = t

\* The threads take turns, in the order in which they were created, for ever.
TurnOrder == (IF cur # InitProc THEN <<cur>>
              ELSE IF Unlinking THEN <<next>> ELSE <<>>) \o Contents(queue)
Turns     == INSTANCE RoundRobin WITH
                 Threads <- Workers, started <- cur # InitProc, order <- TurnOrder
TakeTurns == Turns!RRSpec
=============================================================================
