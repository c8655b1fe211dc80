-------------------------------- MODULE Ide ---------------------------------
(***************************************************************************)
(* One ATA channel of device/ide.c: threads that read and write sectors of *)
(* its two disks, the interrupt that ends a command, and the controller.   *)
(*                                                                         *)
(* Main executes ide_read and ide_write with interrupts on, a process with *)
(* interrupts off until it blocks; each register access and each access to *)
(* excepting_itr is a step.  The lock and disk_done are those of SyncOps.  *)
(* busy_wait sleeps with mtime_sleep of device/timer.c, which is here too,  *)
(* as nobody else calls it.                                                *)
(* At first only main uses the channel: ide_init identifies the disks,     *)
(* without the lock.                                                       *)
(***************************************************************************)
EXTENDS SyncOps, FiniteSetsExt

CONSTANTS
    Client,     \* the threads that read and write
    Disk,       \* the two disks of the channel
    Sector,     \* sector numbers, up to max_lba
    Value,      \* contents of a sector
    Unread,     \* no value
    Request,    \* what is asked of ide_read and ide_write
    Chunk,      \* 256, what the 8 bits of the sector count register hold
    TimeLimit,  \* 30 * 1000, where busy_wait starts to count down
    MaxBusy     \* bound: how often busy_wait finds the disk busy in a row

ASSUME ChannelAssumption ==
    /\ Client \subseteq Thread \ {Idle} /\ Main \in Client
    /\ Sector \subseteq Nat
    /\ Disk # {} /\ Value # {}
    /\ Unread \notin Value
    /\ Request \subseteq [kind: {"read", "write"}, disk: Disk, lba: Sector,
                          cnt: Nat \ {0}, val: Value]
    /\ Chunk \in Nat \ {0}
    /\ TimeLimit \in Nat /\ MaxBusy \in Nat /\ MaxBusy < TimeLimit

VARIABLES
    chlock,     \* channel->lock
    done,       \* channel->disk_done
    expecting,  \* channel->excepting_itr
    reg,        \* the registers: disk, lba, cnt
    dev,        \* the controller: command, buffer, busy and request bits, and
                \* the interrupt it has raised
    stored,     \* stored[d][s]: what is on the disks
    booted,     \* ide_init is over
    req,        \* req[t]:   the request t works on
    secs,       \* secs[t]:  secs_done
    limit,      \* limit[t]: time_limit of busy_wait
    asleep,     \* the threads in ticks_to_sleep that have had no tick since
    data,       \* data[t]:  the sectors read so far
    ret,        \* ret[t]:   history: what t's last ide_read returned
    committed   \* history: the disks as the finished requests left them

callVars == <<req, secs, limit, asleep, data, ret, committed>>
channelVars == <<sched, intr, pc, chlock, done, expecting, reg, dev, stored,
                 booted, callVars>>

ChannelPC == {"run", "lock", "select", "sector", "expect", "command", "down",
              "poll", "sleep", "transfer", "next", "release", "loop", "awake",
              "halted"}

\* Only main runs kernel code with interrupts on.
KernelFlag(t) == t = Main

Goto(t, label) == pc' = [pc EXCEPT ![t] = label]

\* What the disks hold in the first state
Zero == CHOOSE v \in Value : TRUE
NoSectors == [s \in Sector |-> Unread]
Identify(d) == [kind |-> "identify", disk |-> d, lba |-> 0, cnt |-> 1,
                val |-> Zero]
AnyDisk == CHOOSE d \in Disk : TRUE

\* The sectors of a request
Span(r) == r.lba .. r.lba + r.cnt - 1

ChannelInit ==
    /\ CpuInit
    /\ chlock = SemaInit(1)
    /\ done = SemaInit(0)
    /\ expecting = FALSE
    /\ reg = [disk |-> AnyDisk, lba |-> 0, cnt |-> 0]
    /\ dev = [cmd |-> "none", disk |-> AnyDisk, span |-> {},
              val |-> Unread, bsy |-> FALSE, drq |-> FALSE, irq |-> FALSE]
    /\ stored = [d \in Disk |-> [s \in Sector |-> Zero]]
    /\ booted = FALSE
    /\ req = [t \in Client |-> Identify(AnyDisk)]
    /\ secs = [t \in Client |-> 0]
    /\ limit = [t \in Client |-> TimeLimit]
    /\ asleep = {}
    /\ data = [t \in Client |-> NoSectors]
    /\ ret = [t \in Client |->
                  [of |-> Identify(AnyDisk), sectors |-> NoSectors]]
    /\ committed = stored

-----------------------------------------------------------------------------
(* The calls *)

\* identify_disk, called by ide_init: the channel is not locked.
CallIdentify(d) ==
    /\ At(Main, "run")
    /\ ~booted
    /\ req' = [req EXCEPT ![Main] = Identify(d)]
    /\ Goto(Main, "select")
    /\ UNCHANGED <<sched, intr, chlock, done, expecting, reg, dev, stored,
                   booted, secs, limit, asleep, data, ret, committed>>

\* ide_init ends.
Boot ==
    /\ At(Main, "run")
    /\ ~booted
    /\ booted' = TRUE
    /\ UNCHANGED <<sched, intr, pc, chlock, done, expecting, reg, dev, stored,
                   callVars>>

\* ide_read and ide_write: lock_acquire is next.  In ide_init main only reads,
\* in partition_scan.
Call(t, r) ==
    /\ At(t, "run")
    /\ booted \/ (t = Main /\ r.kind = "read")
    /\ req' = [req EXCEPT ![t] = r]
    /\ secs' = [secs EXCEPT ![t] = 0]
    /\ data' = [data EXCEPT ![t] = NoSectors]
    /\ intr' = [intr EXCEPT ![t] = KernelFlag(t)]
    /\ Goto(t, "lock")
    /\ UNCHANGED <<sched, chlock, done, expecting, reg, dev, stored, booted,
                   limit, asleep, ret, committed>>

\* lock_acquire
Acquire(t) ==
    /\ At(t, "lock")
    /\ sched' = DownSched(sched, chlock)
    /\ chlock' = Downed(sched, chlock)
    /\ intr' = [intr EXCEPT ![t] = KernelFlag(t) /\ ~MustWait(chlock)]
    /\ Goto(t, IF MustWait(chlock) THEN "lock" ELSE "select")
    /\ UNCHANGED <<done, expecting, reg, dev, stored, booted, callVars>>

\* select_disk
SelectDisk(t) ==
    /\ At(t, "select")
    /\ reg' = [reg EXCEPT !.disk = req[t].disk]
    /\ Goto(t, IF req[t].kind = "identify" THEN "expect" ELSE "sector")
    /\ UNCHANGED <<sched, intr, chlock, done, expecting, dev, stored, booted,
                   callVars>>

\* secs_op: how many sectors the next command is for
SecsOp(t) == Min({Chunk, req[t].cnt - secs[t]})

\* Mutated SelectSector: secs_done is not added to the address
SelectSector_SameLba(t) ==
    /\ At(t, "sector")
    /\ IF secs[t] < req[t].cnt
       THEN /\ reg' = [disk |-> req[t].disk, lba |-> req[t].lba,
                       cnt |-> SecsOp(t) % Chunk]
            /\ Goto(t, "expect")
       ELSE Goto(t, "release") /\ UNCHANGED reg
    /\ UNCHANGED <<sched, intr, chlock, done, expecting, dev, stored, booted,
                   callVars>>

\* The loop's test and select_sector; the count register keeps the low 8 bits.
SelectSector(t) ==
    /\ At(t, "sector")
    /\ IF secs[t] < req[t].cnt
       THEN /\ reg' = [disk |-> req[t].disk, lba |-> req[t].lba + secs[t],
                       cnt |-> SecsOp(t) % Chunk]
            /\ Goto(t, "expect")
       ELSE Goto(t, "release") /\ UNCHANGED reg
    /\ UNCHANGED <<sched, intr, chlock, done, expecting, dev, stored, booted,
                   callVars>>

\* Mutated Expect: excepting_itr is not set
Expect_Forgotten(t) ==
    /\ At(t, "expect")
    /\ Goto(t, "command")
    /\ UNCHANGED <<sched, intr, chlock, done, expecting, reg, dev, stored,
                   booted, callVars>>

\* cmd_out: excepting_itr first,
Expect(t) ==
    /\ At(t, "expect")
    /\ expecting' = TRUE
    /\ Goto(t, "command")
    /\ UNCHANGED <<sched, intr, chlock, done, reg, dev, stored, booted,
                   callVars>>

\* then the command register: the controller starts, and 0 in the count
\* register is Chunk sectors.
Command(t) ==
    /\ At(t, "command")
    /\ dev' = [dev EXCEPT
                  !.cmd = req[t].kind, !.disk = reg.disk, !.bsy = TRUE,
                  !.drq = FALSE,
                  !.span = reg.lba ..
                           reg.lba + (IF reg.cnt = 0 THEN Chunk ELSE reg.cnt) - 1]
    /\ limit' = [limit EXCEPT ![t] = TimeLimit]
    /\ Goto(t, IF req[t].kind = "write" THEN "poll" ELSE "down")
    /\ UNCHANGED <<sched, intr, chlock, done, expecting, reg, stored, booted,
                   req, secs, asleep, data, ret, committed>>

\* Mutated AwaitDone: no sema_down
AwaitDone_Skipped(t) ==
    /\ At(t, "down")
    /\ Goto(t, IF req[t].kind = "write" THEN "next" ELSE "poll")
    /\ UNCHANGED <<sched, intr, chlock, done, expecting, reg, dev, stored,
                   booted, callVars>>

\* sema_down(&disk_done): before the poll of a read, behind the data of a write
AwaitDone(t) ==
    /\ At(t, "down")
    /\ sched' = DownSched(sched, done)
    /\ done' = Downed(sched, done)
    /\ intr' = [intr EXCEPT ![t] = KernelFlag(t) /\ ~MustWait(done)]
    /\ Goto(t, IF MustWait(done) THEN "down"
               ELSE IF req[t].kind = "write" THEN "next" ELSE "poll")
    /\ UNCHANGED <<chlock, expecting, reg, dev, stored, booted, callVars>>

\* busy_wait.  time_limit goes down by one each time, and a busy disk costs a
\* sleep of 10 ms, which is one tick.  The disk is ready before the loop ends.
Poll(t) ==
    /\ At(t, "poll")
    /\ \/ /\ dev.bsy
          /\ limit[t] > TimeLimit - MaxBusy
          /\ limit' = [limit EXCEPT ![t] = @ - 1]
          /\ asleep' = asleep \cup {t}
          /\ Goto(t, "sleep")
          /\ UNCHANGED sched
       \/ /\ ~dev.bsy
          /\ sched' = IF dev.drq THEN sched ELSE Panic(sched)
          /\ Goto(t, "transfer")
          /\ UNCHANGED <<limit, asleep>>
    /\ UNCHANGED <<intr, chlock, done, expecting, reg, dev, stored, booted,
                   req, secs, data, ret, committed>>

\* ticks_to_sleep: ticks - start_ticks < 1 as long as there was no tick, also
\* when ticks wraps around.  A process yields with interrupts off.
Sleep(t) ==
    /\ At(t, "sleep")
    /\ IF t \in asleep
       THEN sched' = Yield(sched) /\ UNCHANGED pc
       ELSE Goto(t, "poll") /\ UNCHANGED sched
    /\ UNCHANGED <<intr, chlock, done, expecting, reg, dev, stored, booted,
                   callVars>>

\* read_from_sector or write2sector.  The controller supplies or takes the
\* sectors of its command; the call goes on for those it has in mind.
Transfer(t) ==
    /\ At(t, "transfer")
    /\ LET mine == req[t].lba + secs[t] .. req[t].lba + secs[t] + SecsOp(t) - 1
       IN  CASE req[t].kind = "read" ->
                  /\ data' = [data EXCEPT ![t] =
                        [s \in Sector |->
                            IF s \notin mine THEN @[s]
                            ELSE IF s - req[t].lba - secs[t] + Min(dev.span)
                                    \in dev.span \cap Sector
                            THEN stored[dev.disk][s - req[t].lba - secs[t]
                                                  + Min(dev.span)]
                            ELSE Zero]]
                  /\ dev' = [dev EXCEPT !.drq = FALSE, !.cmd = "none"]
                  /\ Goto(t, "next")
             [] req[t].kind = "write" ->
                  /\ dev' = [dev EXCEPT !.drq = FALSE, !.bsy = TRUE,
                                        !.val = req[t].val]
                  /\ Goto(t, "down")
                  /\ UNCHANGED data
             [] OTHER ->
                  /\ dev' = [dev EXCEPT !.drq = FALSE, !.cmd = "none"]
                  /\ Goto(t, "run")
                  /\ UNCHANGED data
    /\ UNCHANGED <<sched, intr, chlock, done, expecting, reg, stored, booted,
                   req, secs, limit, asleep, ret, committed>>

\* secs_done += secs_op
NextSectors(t) ==
    /\ At(t, "next")
    /\ secs' = [secs EXCEPT ![t] = @ + SecsOp(t)]
    /\ Goto(t, "sector")
    /\ UNCHANGED <<sched, intr, chlock, done, expecting, reg, dev, stored,
                   booted, req, limit, asleep, data, ret, committed>>

\* lock_release; the request is finished.
ReleaseChannel(t) ==
    /\ At(t, "release")
    /\ sched' = UpSched(sched, chlock)
    /\ chlock' = Upped(chlock)
    /\ intr' = [intr EXCEPT ![t] = TRUE]
    /\ Goto(t, "run")
    /\ IF req[t].kind = "read"
       THEN /\ ret' = [ret EXCEPT ![t] = [of |-> req[t], sectors |-> data[t]]]
            /\ UNCHANGED committed
       ELSE /\ committed' =
                  [committed EXCEPT ![req[t].disk] =
                      [s \in Sector |-> IF s \in Span(req[t]) THEN req[t].val
                                        ELSE @[s]]]
            /\ UNCHANGED ret
    /\ UNCHANGED <<done, expecting, reg, dev, stored, booted, req, secs,
                   limit, asleep, data>>

-----------------------------------------------------------------------------
(* The controller and its interrupt *)

\* A read or an identify has the sectors in its buffer: an interrupt.
ReadReady ==
    /\ Alive(sched)
    /\ dev.bsy /\ dev.cmd \in {"read", "identify"}
    /\ dev' = [dev EXCEPT !.bsy = FALSE, !.drq = TRUE, !.irq = TRUE]
    /\ UNCHANGED <<sched, intr, pc, chlock, done, expecting, reg, stored,
                   booted, callVars>>

\* A write has room for the data, without an interrupt; later the data are on
\* the disk: an interrupt.
WriteReady ==
    /\ Alive(sched)
    /\ dev.bsy /\ dev.cmd = "write" /\ dev.val = Unread
    /\ dev' = [dev EXCEPT !.bsy = FALSE, !.drq = TRUE]
    /\ UNCHANGED <<sched, intr, pc, chlock, done, expecting, reg, stored,
                   booted, callVars>>

WriteDone ==
    /\ Alive(sched)
    /\ dev.bsy /\ dev.cmd = "write" /\ dev.val # Unread
    /\ stored' = [stored EXCEPT ![dev.disk] =
                     [s \in Sector |-> IF s \in dev.span THEN dev.val ELSE @[s]]]
    /\ dev' = [dev EXCEPT !.bsy = FALSE, !.irq = TRUE, !.val = Unread,
                          !.cmd = "none"]
    /\ UNCHANGED <<sched, intr, pc, chlock, done, expecting, reg, booted,
                   callVars>>

\* Mutated DiskInterrupt: excepting_itr is not cleared
DiskInterrupt_StillExpecting ==
    /\ InterruptsOn
    /\ dev.irq
    /\ dev' = [dev EXCEPT !.irq = FALSE]
    /\ pc' = Interrupted
    /\ IF expecting
       THEN /\ sched' = UpSched(sched, done)
            /\ done' = Upped(done)
       ELSE UNCHANGED <<sched, done>>
    /\ UNCHANGED <<intr, chlock, expecting, reg, stored, booted, callVars>>

\* intr_hd_handler
DiskInterrupt ==
    /\ InterruptsOn
    /\ dev.irq
    /\ dev' = [dev EXCEPT !.irq = FALSE]
    /\ pc' = Interrupted
    /\ IF expecting
       THEN /\ expecting' = FALSE
            /\ sched' = UpSched(sched, done)
            /\ done' = Upped(done)
       ELSE UNCHANGED <<expecting, sched, done>>
    /\ UNCHANGED <<intr, chlock, reg, stored, booted, callVars>>

-----------------------------------------------------------------------------
Working(t) ==
    \/ Acquire(t) \/ SelectDisk(t) \/ SelectSector(t) \/ Expect(t)
    \/ Command(t) \/ AwaitDone(t) \/ Poll(t) \/ Sleep(t)
    \/ Transfer(t) \/ NextSectors(t) \/ ReleaseChannel(t)

otherVars == <<chlock, done, expecting, reg, dev, stored, booted, req, secs,
               limit, data, ret, committed>>

\* intr_timer_handler: ticks++
ClockTick == TimerInterrupt /\ asleep' = {} /\ UNCHANGED otherVars

IdleOnly == (IdleBlock \/ IdleHalt) /\ UNCHANGED <<otherVars, asleep>>

ChannelNext ==
    \/ ClockTick \/ IdleOnly
    \/ (\E d \in Disk : CallIdentify(d)) \/ Boot
    \/ ReadReady \/ WriteReady \/ WriteDone \/ DiskInterrupt
    \/ \E t \in Client : Working(t) \/ \E r \in Request : Call(t, r)

ChannelSpec == ChannelInit /\ [][ChannelNext]_channelVars

\* Threads on the processor run, the controller finishes its commands, and its
\* interrupt stays pending until it is served.
ChannelFairness ==
    /\ SF_channelVars(ClockTick)
    /\ WF_channelVars(IdleOnly)
    /\ \A t \in Client : SF_channelVars(Working(t))
    /\ WF_channelVars(ReadReady)
    /\ WF_channelVars(WriteReady) /\ WF_channelVars(WriteDone)
    /\ SF_channelVars(DiskInterrupt)

FairChannelSpec == ChannelSpec /\ ChannelFairness
-----------------------------------------------------------------------------
(* Properties *)

ChannelTypeOK ==
    /\ sched \in SchedState
    /\ intr \in [Thread -> BOOLEAN]
    /\ pc \in [Thread -> ChannelPC]
    /\ chlock \in Sema /\ done \in Sema
    /\ expecting \in BOOLEAN /\ booted \in BOOLEAN
    /\ reg.disk \in Disk /\ reg.lba \in Nat /\ reg.cnt \in 0 .. Chunk - 1
    /\ dev.span \subseteq Nat
    /\ stored \in [Disk -> [Sector -> Value]]
    /\ \A t \in Client : /\ req[t] \in Request \cup {Identify(d) : d \in Disk}
                         /\ secs[t] \in Nat
                         /\ limit[t] \in 0 .. TimeLimit
    /\ data \in [Client -> [Sector -> Value \cup {Unread}]]

\* disk_done is 0 when the interrupt raises it and at most 1 otherwise, and the
\* disk has data when busy_wait says so: no ASSERT fails, and nothing of a
\* finished request is left for the next one: when nobody uses the channel no
\* completion is counted, expected or pending.
ChannelQuiet ==
    /\ Alive(sched)
    /\ (\A t \in Client : pc[t] \in {"run", "lock"}) =>
          /\ done.value = 0
          /\ ~expecting
          /\ ~dev.irq /\ ~dev.bsy /\ ~dev.drq

\* No command is given to a controller that is still busy with another.
CommandsIdleController ==
    [][\A t \in Client : pc[t] = "command" /\ pc'[t] # "command" =>
          ~dev.bsy /\ ~dev.drq /\ ~dev.irq]_channelVars

\* A thread that has the channel finishes its request and lets it go, although
\* it sleeps on the disk with the lock held, and on the clock with interrupts
\* off: main may be waiting for that lock, so that the clock goes on only
\* because the init process stays in user mode (main.c:66).
RequestsEnd ==
    \A t \in Client :
        (pc[t] \notin {"run", "lock"}) ~> (pc[t] = "run")

Atomic == INSTANCE AtomicDisk WITH stored <- committed

\* Requests are atomic although they are cut into commands and share the
\* controller's registers: a read returns all its sectors as the finished
\* requests left them, never part of another thread's write or of the other
\* disk.
ImplementsAtomicDisk == Atomic!Spec

\* ide.c: busy_wait waits 30 seconds at most.
WaitsThirtySeconds ==
    \A t \in Client : 10 * (TimeLimit - limit[t]) <= TimeLimit
=============================================================================
