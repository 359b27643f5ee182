------------------------------ MODULE PoolWait ------------------------------
(***************************************************************************)
(* The blocking side of the ZAP pool (pool.c:359-622): threads that sleep  *)
(* on freeq or fifoq until another thread's pool_freebuf or pool_enqbuf    *)
(* wakes them, with the wake-up a step of its own after the unlock.        *)
(*                                                                         *)
(* wait_event_interruptible queues the thread first and tests the list     *)
(* afterwards, without the pool lock: that test is GetCond and DeqCond.    *)
(* wake_up_interruptible wakes every sleeper, they are not exclusive.      *)
(***************************************************************************)
EXTENDS Pool

CONSTANTS
  Threads,
  Flushers   \* those of them that call pool_flush

ASSUME ThreadsAssumption == Threads # {} /\ Flushers \subseteq Threads

VARIABLES
  pc,      \* where each thread is in the routine it called
  held,    \* the pbufs the pool has handed to each thread
  missed,  \* queues whose list pool_resize filled without a wake-up since
  asize,   \* the packet_size each thread's pool_flush has read
  anum     \* the num_packets it has read

wvars == <<packet_size, num_packets, freelist, fifolist, usedlist, pcur_list,
           desc, stuck, pc, held, missed, asize, anum>>
args == <<asize, anum>>

PCs == {"idle", "getlock", "getcond", "getsleep", "wakefree",
        "deqlock", "deqcond", "deqsleep", "wakefifo", "flushnum", "flushlock"}

Goto(t, l) == pc' = [pc EXCEPT ![t] = l]
Take(t, e) == held' = [held EXCEPT ![t] = @ \cup {pentry2pbuf(e)}]
Drop(p) == held' = [u \in Threads |-> held[u] \ {p}]

-----------------------------------------------------------------------------
(* pool_getbuf and pool_getbuf_timeout.                                    *)

GetCall(t) ==
  /\ pc[t] = "idle"
  /\ Goto(t, "getlock")
  /\ UNCHANGED <<pvars, held, missed>>

(* The loop's test and _getbuf, both under the lock.                       *)
GetLock(t) ==
  /\ pc[t] = "getlock" /\ ~ stuck
  /\ \/ /\ \E e \in Entries : getbuf(e) /\ Take(t, e)
        /\ Goto(t, "idle")
     \/ /\ ~ pool_buf_available
        /\ Goto(t, "getcond")
        /\ UNCHANGED <<pvars, held>>
  /\ UNCHANGED missed

GetCondNoRetest(t) ==
  /\ pc[t] = "getcond"
  /\ Goto(t, "getsleep")
  /\ UNCHANGED <<pvars, held, missed>>

(* Queued on freeq: go back for the lock, or sleep.                        *)
GetCond(t) ==
  /\ pc[t] = "getcond"
  /\ Goto(t, IF pool_buf_available THEN "getlock" ELSE "getsleep")
  /\ UNCHANGED <<pvars, held, missed>>

(* A signal, or the timer of the _timeout variant: the condition is tested *)
(* once more; if it still fails the routine returns -ERESTARTSYS, -EAGAIN. *)
GetGiveUp(t) ==
  /\ pc[t] = "getsleep"
  /\ Goto(t, IF pool_buf_available THEN "getlock" ELSE "idle")
  /\ UNCHANGED <<pvars, held, missed>>

(* pool_getbuf_try.                                                        *)
GetTry(t) ==
  /\ pc[t] = "idle"
  /\ \E e \in Entries : getbuf(e) /\ Take(t, e)
  /\ UNCHANGED <<pc, missed>>

-----------------------------------------------------------------------------
(* pool_deqbuf, pool_deqbuf_timeout and pool_deqbuf_try.                   *)

DeqCall(t) ==
  /\ pc[t] = "idle"
  /\ Goto(t, "deqlock")
  /\ UNCHANGED <<pvars, held, missed>>

DeqLock(t) ==
  /\ pc[t] = "deqlock" /\ ~ stuck
  /\ \/ /\ \E e \in Entries : deqbuf(e) /\ Take(t, e)
        /\ Goto(t, "idle")
     \/ /\ ~ pool_fifo_buf_available
        /\ Goto(t, "deqcond")
        /\ UNCHANGED <<pvars, held>>
  /\ UNCHANGED missed

DeqCond(t) ==
  /\ pc[t] = "deqcond"
  /\ Goto(t, IF pool_fifo_buf_available THEN "deqlock" ELSE "deqsleep")
  /\ UNCHANGED <<pvars, held, missed>>

DeqGiveUp(t) ==
  /\ pc[t] = "deqsleep"
  /\ Goto(t, IF pool_fifo_buf_available THEN "deqlock" ELSE "idle")
  /\ UNCHANGED <<pvars, held, missed>>

DeqTry(t) ==
  /\ pc[t] = "idle"
  /\ \E e \in Entries : deqbuf(e) /\ Take(t, e)
  /\ UNCHANGED <<pc, missed>>

-----------------------------------------------------------------------------
(* pool_freebuf and pool_enqbuf: the locked section, then the wake-up.     *)
(* The address may be any in the region, also a packet that another thread *)
(* holds; one the pool does not accept is refused and wakes nobody.        *)

Free(t) ==
  /\ pc[t] = "idle"
  /\ \E p \in 0 .. Size : freebuf(p) /\ Drop(p)
  /\ Goto(t, "wakefree")
  /\ UNCHANGED missed

FreeWake(t) ==
  /\ pc[t] = "wakefree"
  /\ pc' = [u \in Threads |-> IF u = t THEN "idle"
                              ELSE IF pc[u] = "getsleep" THEN "getcond"
                              ELSE pc[u]]
  /\ missed' = missed \ {"free"}
  /\ UNCHANGED <<pvars, held>>

Enq(t) ==
  /\ pc[t] = "idle"
  /\ \E p \in 0 .. Size, d \in Descs : enqbuf(p, d) /\ Drop(p)
  /\ Goto(t, "wakefifo")
  /\ UNCHANGED missed

EnqWake(t) ==
  /\ pc[t] = "wakefifo"
  /\ pc' = [u \in Threads |-> IF u = t THEN "idle"
                              ELSE IF pc[u] = "deqsleep" THEN "deqcond"
                              ELSE pc[u]]
  /\ UNCHANGED <<pvars, held, missed>>

(* The address behind the last packet, and the memory there reads as an    *)
(* entry in use.                                                           *)
Stray(t) ==
  /\ pc[t] = "idle"
  /\ \E p \in 0 .. Size : stray(p)
  /\ UNCHANGED <<pc, held, missed>>

(* pool_resize and pool_flush: nobody is woken.  "The user of the pool may *)
(* NOT use any more buffers while calling this routine" (pool.c:281): the  *)
(* callers give up what they hold.                                         *)
Emptied == held' = [u \in Threads |-> {}] /\ missed' = missed \cup {"free"}

Resize(t) ==
  /\ pc[t] = "idle"
  /\ \E ps \in PacketSizes : pool_resize(ps)
  /\ Emptied
  /\ UNCHANGED pc

(* pool_flush reads its two arguments without the lock: other threads may  *)
(* resize the pool before, between and after the reads.                    *)
FlushSize(t) ==
  /\ t \in Flushers /\ pc[t] = "idle"
  /\ asize' = [asize EXCEPT ![t] = packet_size]
  /\ Goto(t, "flushnum")
  /\ UNCHANGED <<pvars, held, missed, anum>>

FlushNum(t) ==
  /\ pc[t] = "flushnum"
  /\ anum' = [anum EXCEPT ![t] = num_packets]
  /\ Goto(t, "flushlock")
  /\ UNCHANGED <<pvars, held, missed, asize>>

Forget(t) ==
  /\ asize' = [asize EXCEPT ![t] = OpenSize]
  /\ anum' = [anum EXCEPT ![t] = 1]

FlushLock(t) ==
  /\ pc[t] = "flushlock"
  /\ pool_flush(asize[t], anum[t])
  /\ Emptied
  /\ Goto(t, "idle") /\ Forget(t)

(* No memory for the entries: -ENOMEM, with ppool->lock held for good.     *)
ResizeNoMem(t) ==
  /\ \/ /\ pc[t] = "idle"
        /\ \E ps \in PacketSizes : pool_resize_nomem(ps, MaxPackets)
     \/ /\ pc[t] = "flushlock"
        /\ pool_resize_nomem(asize[t], anum[t])
  /\ Goto(t, "idle") /\ Forget(t)
  /\ UNCHANGED <<held, missed>>

-----------------------------------------------------------------------------
WaitInit ==
  /\ PoolInit
  /\ pc = [t \in Threads |-> "idle"]
  /\ held = [t \in Threads |-> {}]
  /\ missed = {}
  /\ asize = [t \in Threads |-> OpenSize]
  /\ anum = [t \in Threads |-> 1]

(* A step of a thread outside pool_flush.                                  *)
ThreadStep(t) ==
  \/ GetCall(t) \/ GetLock(t) \/ GetCond(t) \/ GetGiveUp(t)
  \/ GetTry(t)
  \/ DeqCall(t) \/ DeqLock(t) \/ DeqCond(t) \/ DeqGiveUp(t)
  \/ DeqTry(t)
  \/ Free(t) \/ FreeWake(t) \/ Enq(t) \/ EnqWake(t)
  \/ Stray(t) \/ Resize(t)

WaitNext ==
  \E t \in Threads :
    \/ FlushSize(t) \/ FlushNum(t) \/ FlushLock(t) \/ ResizeNoMem(t)
    \/ ThreadStep(t) /\ UNCHANGED args

WaitSpec == WaitInit /\ [][WaitNext]_wvars

-----------------------------------------------------------------------------
(* The threads' state and what they hold, pbufs of the region.             *)
WaitTypeOK ==
  /\ PoolTypeOK
  /\ pc \in [Threads -> PCs]
  /\ held \in [Threads -> SUBSET (0 .. Size - 1)]
  /\ missed \subseteq {"free"}
  /\ asize \in [Threads -> Sizes] /\ anum \in [Threads -> 1 .. MaxPackets]

(* No wake-up is lost between the empty-list test, the sleep, the locked   *)
(* move of a buffer and the wake_up after the unlock: a thread never       *)
(* sleeps beside a buffer it waits for unless a wake_up is on its way, or  *)
(* pool_resize put the buffer there, which wakes nobody.                   *)
NoLostWakeup ==
  /\ (\E t \in Threads : pc[t] = "getsleep") /\ pool_buf_available =>
       "free" \in missed \/ \E u \in Threads : pc[u] = "wakefree"
  /\ (\E t \in Threads : pc[t] = "deqsleep") /\ pool_fifo_buf_available =>
       \E u \in Threads : pc[u] = "wakefifo"

(* A buffer the pool has handed out has one holder, and stays on the used  *)
(* list until somebody returns it: get, deq, free and enq calls of several *)
(* threads never give a buffer to two of them (zap.c:70-71).               *)
OneHolder ==
  (~ stuck /\ packet_size > 0) =>
    /\ \A t, u \in Threads : t # u => held[t] \cap held[u] = {}
    /\ \A p \in 0 .. Size - 1 : (\E t \in Threads : p \in held[t])
                                <=> (\E e \in usedlist : p = pentry2pbuf(e))
=============================================================================
