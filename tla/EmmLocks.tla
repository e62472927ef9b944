------------------------------ MODULE EmmLocks ------------------------------
(***************************************************************************)
(* The three locks of the EMM and the threads that take them, composed     *)
(* with the reserve heap (ReserveHeap) whose emalloc and efree they guard. *)
(*                                                                         *)
(*   VMMGR           SpinReentrantMutex<VmMgr>   (vmmgr.rs:50)             *)
(*   RSRV_ALLOCATOR  SpinMutex<Reserve>          (alloc.rs:63)             *)
(*   STATIC          LockedHeap<32>, a spin lock (alloc.rs:60)             *)
(*                                                                         *)
(* Every mm_* entry point locks VMMGR.  Inside VmMgr an EMA node is boxed  *)
(* or dropped with the allocator of its AllocType: RsrvAlloc locks RSRV    *)
(* and runs emalloc or efree.  When emalloc finds no room, add_chunks      *)
(* locks VMMGR again (the thread already holds it) and boxes the chunk's   *)
(* two EMAs with AllocType::Static, which locks STATIC; it drops its VMMGR *)
(* guard before write_chunk, and the heap step of ReserveHeap (add_chunks  *)
(* and the retry of alloc_from_chunks) completes.  The lock primitives are *)
(* in crate::sync, outside the tree: their behaviour is the specification's *)
(* (section 5): spin locks, VMMGR re-entrant, the two heaps' not.          *)
(*                                                                         *)
(* A thread waiting for a lock spins: Spin is a step that changes nothing. *)
(* Each heap operation stays one ReserveHeap step, taken under RSRV.       *)
(***************************************************************************)
EXTENDS ReserveHeap

CONSTANTS
    Threads,      \* enclave threads calling the mm_* functions
    NoThread      \* the holder of a free lock

ASSUME NoThread \notin Threads

VARIABLES
    pc,           \* thread -> where it is in its call
    req,          \* thread -> the size of the emalloc that runs add_chunks
    holder,       \* lock -> the thread holding it, or NoThread
    vmDepth       \* how many VMMGR guards its holder has

lockVars == <<pc, req, holder, vmDepth>>
allVars == <<vars, lockVars>>

Locks == {"VMMGR", "RSRV", "STATIC"}

-----------------------------------------------------------------------------
(* Lock primitives and the allocator choice.                               *)

\* SpinReentrantMutex::lock spins while another thread holds the lock.
VmBusy(t) == holder["VMMGR"] \notin {NoThread, t}

VmAcquire(t) ==
    /\ ~VmBusy(t)
    /\ holder' = [holder EXCEPT !["VMMGR"] = t]
    /\ vmDepth' = vmDepth + 1

\* Dropping a guard: the lock is free once the last guard is gone.
VmReleased(t) == IF vmDepth = 1 THEN NoThread ELSE t

VmRelease(t) ==
    /\ holder' = [holder EXCEPT !["VMMGR"] = VmReleased(t)]
    /\ vmDepth' = vmDepth - 1

\* AllocType::alloctor: an EMA node's allocator, named by the lock it takes.
NodeLock(tag) == IF tag = "Static" THEN "STATIC" ELSE "RSRV"

\* Mutant: add_chunks boxes its EMAs with the reserve heap.
ChunkAllocReserve == "Reserve"

\* The AllocType add_chunks gives both of its EmaOptions.
ChunkAlloc == "Static"

\* emalloc(bsize) finds no free block and no chunk with room: add_chunks.
NeedsChunk(bsize) == NoFreeBlock(bsize) /\ RoomIn(bsize) = 0

Goto(t, from, to) == pc[t] = from /\ pc' = [pc EXCEPT ![t] = to]

-----------------------------------------------------------------------------
(* A thread's steps.                                                       *)

\* An mm_* function is called.
Call(t) ==
    /\ Goto(t, "idle", "lock_vm")
    /\ UNCHANGED <<vars, req, holder, vmDepth>>

\* let mut vmmgr = VMMGR.get().unwrap().lock();
LockVm(t) ==
    /\ Goto(t, "lock_vm", "vm")
    /\ VmAcquire(t)
    /\ UNCHANGED <<vars, req>>

\* A VmMgr call that boxes or drops no reserve-heap node.
NoNode(t) ==
    /\ Goto(t, "vm", "vm_done")
    /\ UNCHANGED <<vars, req, holder, vmDepth>>

\* Box::new_in or Box::from_raw_in with RsrvAlloc:
\* RSRV_ALLOCATOR.get().unwrap().lock().emalloc(size) or .efree(ptr),
\* served from a free list or a chunk's bump area; the guard is dropped
\* at the end of the statement.
RsrvEmalloc(t) ==
    /\ Goto(t, "vm", "vm_done")
    /\ holder["RSRV"] = NoThread
    /\ \E size \in Sizes : ~NeedsChunk(BSize(size)) /\ Emalloc(size)
    /\ UNCHANGED <<req, holder, vmDepth>>

RsrvEfree(t) ==
    /\ Goto(t, "vm", "vm_done")
    /\ holder["RSRV"] = NoThread
    /\ \E p \in live : Efree(p)
    /\ UNCHANGED <<req, holder, vmDepth>>

\* emalloc finds no room and calls add_chunks, its RSRV guard held.
RsrvGrow(t) ==
    /\ Goto(t, "vm", "add_chunks")
    /\ holder["RSRV"] = NoThread
    /\ holder' = [holder EXCEPT !["RSRV"] = t]
    /\ Cardinality(live) < MaxLive
    /\ \E size \in Sizes : NeedsChunk(BSize(size)) /\ req' = [req EXCEPT ![t] = size]
    /\ UNCHANGED <<vars, vmDepth>>

\* add_chunks: let mut vmmgr = VMMGR.get().unwrap().lock(); then its
\* vmmgr.alloc calls box the chunk's EMAs with the allocator of
\* ChunkAlloc, whose lock is taken and dropped inside allocate.
AcAlloc(t) ==
    /\ Goto(t, "add_chunks", "ac_drop")
    /\ VmAcquire(t)
    /\ holder[NodeLock(ChunkAlloc)] = NoThread
    /\ UNCHANGED <<vars, req>>

\* drop(vmmgr) (or the guard's drop on an early return), the heap step
\* (write_chunk, incr_size, the retry of alloc_from_chunks), and the end
\* of allocate, which drops the RSRV_ALLOCATOR guard.
AcDrop(t) ==
    /\ Goto(t, "ac_drop", "vm_done")
    /\ vmDepth' = vmDepth - 1
    /\ holder' = [holder EXCEPT !["VMMGR"] = VmReleased(t), !["RSRV"] = NoThread]
    /\ Emalloc(req[t])
    /\ req' = [req EXCEPT ![t] = 0]

\* The mm_* function returns and drops its VMMGR guard.
UnlockVm(t) ==
    /\ Goto(t, "vm_done", "idle")
    /\ VmRelease(t)
    /\ UNCHANGED <<vars, req>>

\* A thread at a lock someone holds spins: a step that changes nothing.
Spin(t) ==
    /\ \/ pc[t] = "lock_vm" /\ VmBusy(t)
       \/ pc[t] = "add_chunks" /\ (VmBusy(t) \/ holder[NodeLock(ChunkAlloc)] # NoThread)
    /\ UNCHANGED allVars

Step(t) ==
    \/ LockVm(t) \/ NoNode(t)
    \/ RsrvEmalloc(t) \/ RsrvEfree(t) \/ RsrvGrow(t)
    \/ AcAlloc(t) \/ AcDrop(t) \/ UnlockVm(t)

\* init_emm has run: every lock is free and no thread is in a call.
LockInit ==
    /\ Init
    /\ pc = [t \in Threads |-> "idle"]
    /\ req = [t \in Threads |-> 0]
    /\ holder = [l \in Locks |-> NoThread]
    /\ vmDepth = 0

LockNext == \E t \in Threads : Call(t) \/ Step(t) \/ Spin(t)

(* The OS schedules every enclave thread: one that can take a step is     *)
(* not passed over forever (weak fairness of its steps).  Calling is the  *)
(* application's choice and is not fair; nor is a spin lock, so a thread  *)
(* waiting for a lock another keeps taking may starve.                     *)
LockSpec ==
    LockInit /\ [][LockNext]_allVars /\ \A t \in Threads : WF_allVars(Step(t))

-----------------------------------------------------------------------------
(* Properties.                                                             *)

InCall(t) == pc[t] # "idle"

Pcs == {"idle", "lock_vm", "vm", "add_chunks", "ac_drop", "vm_done"}

LocksTypeOK ==
    /\ TypeOK
    /\ pc \in [Threads -> Pcs]
    /\ req \in [Threads -> Sizes \cup {0}]
    /\ holder \in [Locks -> Threads \cup {NoThread}]
    /\ vmDepth \in 0..2

\* Whenever a thread is inside an mm_* call, it returns, or meanwhile some
\* other thread reaches its return: the locks never stop every thread.
\* A thread that grows the reserve heap holds VMMGR and RSRV and then
\* needs VMMGR again and the lock of its chunk's EMA nodes; were that
\* RSRV (AllocType::Reserve, alloc.rs:524, 533), or VMMGR not re-entrant,
\* it would spin on a lock it holds itself, and all others behind it.
Progress ==
    \A t \in Threads :
        InCall(t) ~> (~InCall(t) \/ \E u \in Threads \ {t} : pc[u] = "vm_done")

=============================================================================
