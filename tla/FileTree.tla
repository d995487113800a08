------------------------------ MODULE FileTree ------------------------------
(***************************************************************************)
(* xci::core::FileTree: a pool of threads which walks directory trees.     *)
(*                                                                         *)
(* The pool has a one-element queue (m_job) protected by m_mutex and m_cv, *)
(* and a counter m_busy which is changed outside of the mutex.  A thread   *)
(* that finds a directory either posts it as the job or reads it itself,   *)
(* recursively.  One action is one step that other threads can tell apart: *)
(* an access to m_busy outside of the mutex, a critical section, a notify, *)
(* or the thread-local work up to the next of those.                       *)
(***************************************************************************)
EXTENDS Integers, Sequences, FiniteSets

CONSTANTS
    Worker,     \* threads spawned by the constructor
    Main,       \* the thread which owns the FileTree and calls walk()
    Node,       \* files and directories of the walked trees
    Entries,    \* Entries[n]: the sorted listing of n
    MaybeDir,   \* entries whose d_type has the bits of DT_DIR, or is DT_UNKNOWN
    Inputs,     \* the nodes passed to walk(), in order
    None        \* null RcPtr

Thread == Worker \cup {Main}

IsEntry(n, p) == \E i \in DOMAIN Entries[p] : Entries[p][i] = n

IsInput(n) == \E i \in DOMAIN Inputs : Inputs[i] = n

ASSUME ThreadAssumption == IsFiniteSet(Worker) /\ Main \notin Worker

\* A listing names an entry once, an entry has one parent, and each walk()
\* makes a node of its own.
ASSUME TreeAssumption ==
    /\ None \notin Node
    /\ Entries \in [Node -> Seq(Node)]
    /\ Inputs \in Seq(Node)
    /\ \A p, q \in Node : \A i \in DOMAIN Entries[p], j \in DOMAIN Entries[q] :
           Entries[p][i] = Entries[q][j] => p = q /\ i = j
    /\ \A i, j \in DOMAIN Inputs : Inputs[i] = Inputs[j] => i = j
    /\ \A i \in DOMAIN Inputs, p \in Node : ~IsEntry(Inputs[i], p)

VARIABLES
    busy,       \* m_busy
    job,        \* m_job
    pc,         \* where each thread is
    stack,      \* stack[t]: the nested read() calls of t, innermost last
    node,       \* node[t]: the node t is about to enqueue or to release
    next,       \* index of the next input Main will walk
    walking,    \* Main did not call main_worker() yet
    fds,        \* nodes with m_fd # -1
    refs,       \* m_refcount, 0 when the node does not exist
    reports     \* calls of m_cb, by node

vars == <<busy, job, pc, stack, node, next, walking, fds, refs, reports>>

BusyMax == Cardinality(Worker) + 1

\* m_parent, or null for a node made by walk()
Parent(n) ==
    IF \E p \in Node : IsEntry(n, p) THEN CHOOSE p \in Node : IsEntry(n, p) ELSE None

Goto(t, label) == pc' = [pc EXCEPT ![t] = label]

\* m_mutex is held from one step to another only by a thread which was woken.
MutexFree == \A t \in Thread : pc[t] # "recheck"

-----------------------------------------------------------------------------
(* PathNode and the callback *)

\* Mutant: a child does not hold a reference to its parent.
MakeOrphan(n) == [m \in Node |-> IF m = n THEN 1 ELSE refs[m]]

\* PathNode::make: the new node is owned by the caller and holds a reference
\* to its parent.
MakeNode(n) ==
    [m \in Node |-> IF m = n THEN 1
                    ELSE IF m = Parent(n) THEN refs[m] + 1
                    ELSE refs[m]]

\* open_and_report: the node is not a directory, cannot be opened, or the
\* callback returned false for it.  The node is released by the caller again.
NotDescended(n) ==
    /\ \E type \in {"File", "OpenError", "Directory"} :
           reports' = [reports EXCEPT ![n] = Append(@, type)]
    /\ UNCHANGED <<fds, refs>>

\* open_and_report returned true: the node is open and goes to enqueue().
Descended(n) ==
    /\ reports' = [reports EXCEPT ![n] = Append(@, "Directory")]
    /\ fds' = fds \cup {n}
    /\ refs' = MakeNode(n)

-----------------------------------------------------------------------------
(* FileTree::walk, main_worker and the destructor: the main thread *)

Walk ==
    /\ pc[Main] = "walk"
    /\ next <= Len(Inputs)
    /\ next' = next + 1
    /\ LET n == Inputs[next] IN
           \/ /\ NotDescended(n)
              /\ UNCHANGED <<pc, node>>
           \/ /\ Descended(n)
              /\ node' = [node EXCEPT ![Main] = n]
              /\ Goto(Main, "enqueue")
    /\ UNCHANGED <<busy, job, stack, walking>>

\* The main worker is counted as busy from the start.
MainWorker ==
    /\ pc[Main] = "walk"
    /\ next > Len(Inputs)
    /\ busy' = busy - 1
    /\ walking' = FALSE
    /\ Goto(Main, "loop")
    /\ UNCHANGED <<job, stack, node, next, fds, refs, reports>>

Join ==
    /\ pc[Main] = "finished"
    /\ \A w \in Worker : pc[w] = "finished"
    /\ Goto(Main, "joined")
    /\ UNCHANGED <<busy, job, stack, node, next, walking, fds, refs, reports>>

-----------------------------------------------------------------------------
(* FileTree::enqueue *)

\* Where a thread continues when enqueue() or read() returns: in the calling
\* read(), in walk(), or in worker() after its job is done.
Return(t, frames) ==
    IF frames # <<>> THEN "read"
    ELSE IF t = Main /\ walking THEN "walk"
    ELSE "done"

\* read(): a new activation, before the directory is listed
Read(t, n) == stack' = [stack EXCEPT ![t] = Append(@, [dir |-> n, entry |-> 0])]

\* Skip the queue when all workers are (apparently) busy.
Enqueue(t) ==
    /\ pc[t] = "enqueue"
    /\ \/ /\ busy >= BusyMax
          /\ Read(t, node[t])
          /\ node' = [node EXCEPT ![t] = None]
          /\ Goto(t, "read")
       \/ /\ busy < BusyMax
          /\ Goto(t, "lock")
          /\ UNCHANGED <<stack, node>>
    /\ UNCHANGED <<busy, job, next, walking, fds, refs, reports>>

\* Mutant: the posted job is not counted.
PostUncounted(t) ==
    /\ pc[t] = "lock"
    /\ MutexFree
    /\ \/ /\ job = None
          /\ job' = node[t]
          /\ Goto(t, "notify")
          /\ UNCHANGED <<busy, stack>>
       \/ /\ job # None
          /\ Read(t, node[t])
          /\ Goto(t, "read")
          /\ UNCHANGED <<busy, job>>
    /\ node' = [node EXCEPT ![t] = None]
    /\ UNCHANGED <<next, walking, fds, refs, reports>>

\* The critical section: the job is posted, or it is read by this thread.
Post(t) ==
    /\ pc[t] = "lock"
    /\ MutexFree
    /\ \/ /\ job = None
          /\ busy' = busy + 1
          /\ job' = node[t]
          /\ Goto(t, "notify")
          /\ UNCHANGED stack
       \/ /\ job # None
          /\ Read(t, node[t])
          /\ Goto(t, "read")
          /\ UNCHANGED <<busy, job>>
    /\ node' = [node EXCEPT ![t] = None]
    /\ UNCHANGED <<next, walking, fds, refs, reports>>

\* notify_one, after the mutex was unlocked: any one of the waiting threads
\* is woken, or nobody waits and the call has no effect.
NotifyOne(t) ==
    /\ pc[t] = "notify"
    /\ \/ \E w \in Thread :
              /\ pc[w] = "wait"
              /\ pc' = [pc EXCEPT ![t] = Return(t, stack[t]), ![w] = "woken"]
       \/ /\ \A w \in Thread : pc[w] # "wait"
          /\ Goto(t, Return(t, stack[t]))
    /\ UNCHANGED <<busy, job, stack, node, next, walking, fds, refs, reports>>

-----------------------------------------------------------------------------
(* FileTree::read, of the directory on top of the stack of t *)

Top(t) == Len(stack[t])

Dir(t) == stack[t][Top(t)].dir

Position(t) == stack[t][Top(t)].entry

\* Mutant: the position moves backwards.
Retreat(t) == stack' = [stack EXCEPT ![t][Top(t)].entry = @ - 1]

Advance(t) == stack' = [stack EXCEPT ![t][Top(t)].entry = @ + 1]

\* The end of read(): the descriptor is closed and the activation ends; the
\* reference held by the path argument is dropped next.
LeaveRead(t) ==
    /\ fds' = fds \ {Dir(t)}
    /\ stack' = [stack EXCEPT ![t] = SubSeq(@, 1, Top(t) - 1)]
    /\ node' = [node EXCEPT ![t] = Dir(t)]
    /\ Goto(t, "drop")

ListDir(t) ==
    /\ pc[t] = "read"
    /\ Position(t) = 0
    /\ Advance(t)
    /\ UNCHANGED <<busy, job, pc, node, next, walking, fds, refs, reports>>

ListDirFails(t) ==
    /\ pc[t] = "read"
    /\ Position(t) = 0
    /\ reports' = [reports EXCEPT ![Dir(t)] = Append(@, "OpenDirError")]
    /\ LeaveRead(t)
    /\ UNCHANGED <<busy, job, next, walking, refs>>

\* One entry of the listing.
Entry(t) ==
    /\ pc[t] = "read"
    /\ Position(t) \in DOMAIN Entries[Dir(t)]
    /\ Advance(t)
    /\ LET n == Entries[Dir(t)][Position(t)] IN
           \/ /\ n \in MaybeDir
              /\ Descended(n)
              /\ node' = [node EXCEPT ![t] = n]
              /\ Goto(t, "enqueue")
           \/ /\ n \in MaybeDir
              /\ NotDescended(n)
              /\ UNCHANGED <<node, pc>>
           \/ /\ n \notin MaybeDir
              /\ reports' = [reports EXCEPT ![n] = Append(@, "File")]
              /\ UNCHANGED <<node, pc, fds, refs>>
    /\ UNCHANGED <<busy, job, next, walking>>

\* Mutant: the last entry is forgotten.
EndReadEarly(t) ==
    /\ pc[t] = "read"
    /\ Position(t) >= Len(Entries[Dir(t)])
    /\ LeaveRead(t)
    /\ UNCHANGED <<busy, job, next, walking, refs, reports>>

\* The whole listing is done.
EndRead(t) ==
    /\ pc[t] = "read"
    /\ Position(t) > Len(Entries[Dir(t)])
    /\ LeaveRead(t)
    /\ UNCHANGED <<busy, job, next, walking, refs, reports>>

\* PathNode::decref: the last reference destroys the node, which drops the
\* reference to its parent in turn.
Decref(t) ==
    /\ pc[t] = "drop"
    /\ LET n == node[t]
           last == refs[n] = 1 /\ Parent(n) # None
       IN  /\ refs' = [refs EXCEPT ![n] = @ - 1]
           /\ node' = [node EXCEPT ![t] = IF last THEN Parent(n) ELSE None]
           /\ Goto(t, IF last THEN "drop" ELSE Return(t, stack[t]))
    /\ UNCHANGED <<busy, job, stack, next, walking, fds, reports>>

-----------------------------------------------------------------------------
(* FileTree::worker *)

\* while (m_busy != 0), evaluated without the mutex
Loop(t) ==
    /\ pc[t] = "loop"
    /\ Goto(t, IF busy # 0 THEN "check" ELSE "finish")
    /\ UNCHANGED <<busy, job, stack, node, next, walking, fds, refs, reports>>

\* Mutant: the job is copied, not moved.
CopyJob(t) ==
    /\ job # None
    /\ Read(t, job)
    /\ Goto(t, "read")
    /\ UNCHANGED <<busy, job, node, next, walking, fds, refs, reports>>

\* Mutant: the job is done when it leaves the queue.
TakeJobUncounted(t) ==
    /\ job # None
    /\ Read(t, job)
    /\ job' = None
    /\ busy' = busy - 1
    /\ Goto(t, "read")
    /\ UNCHANGED <<node, next, walking, fds, refs, reports>>

\* The job is moved away from the queue and read.
TakeJob(t) ==
    /\ job # None
    /\ Read(t, job)
    /\ job' = None
    /\ Goto(t, "read")
    /\ UNCHANGED <<busy, node, next, walking, fds, refs, reports>>

WaitForJob(t) ==
    /\ job = None
    /\ Goto(t, "wait")
    /\ UNCHANGED <<busy, job, stack, node, next, walking, fds, refs, reports>>

\* The mutex is locked and the job tested; m_busy is not read again.
Check(t) ==
    /\ pc[t] = "check"
    /\ MutexFree
    /\ TakeJob(t) \/ WaitForJob(t)

\* wait() returns with the mutex locked, and m_busy is read.
Wake(t) ==
    /\ pc[t] = "woken"
    /\ MutexFree
    /\ Goto(t, IF busy = 0 THEN "finish" ELSE "recheck")
    /\ UNCHANGED <<busy, job, stack, node, next, walking, fds, refs, reports>>

\* Then the job is tested again.  The mutex is still locked, which does not
\* keep others from completing their job, leaving the loop and notifying.
Recheck(t) ==
    /\ pc[t] = "recheck"
    /\ TakeJob(t) \/ WaitForJob(t)

\* A wait() may return without a notification.
SpuriousWake(t) ==
    /\ pc[t] = "wait"
    /\ Goto(t, "woken")
    /\ UNCHANGED <<busy, job, stack, node, next, walking, fds, refs, reports>>

\* Mutant: the counter is not decremented.
JobDoneUncounted(t) ==
    /\ pc[t] = "done"
    /\ Goto(t, "loop")
    /\ UNCHANGED <<busy, job, stack, node, next, walking, fds, refs, reports>>

\* The job is done.
JobDone(t) ==
    /\ pc[t] = "done"
    /\ busy' = busy - 1
    /\ Goto(t, "loop")
    /\ UNCHANGED <<job, stack, node, next, walking, fds, refs, reports>>

\* Mutant: the waiting threads are not notified.
FinishSilently(t) ==
    /\ pc[t] = "finish"
    /\ Goto(t, "finished")
    /\ UNCHANGED <<busy, job, stack, node, next, walking, fds, refs, reports>>

\* notify_all
Finish(t) ==
    /\ pc[t] = "finish"
    /\ pc' = [u \in Thread |-> IF u = t THEN "finished"
                               ELSE IF pc[u] = "wait" THEN "woken"
                               ELSE pc[u]]
    /\ UNCHANGED <<busy, job, stack, node, next, walking, fds, refs, reports>>

-----------------------------------------------------------------------------
Init ==
    /\ busy = 1
    /\ job = None
    /\ pc = [t \in Thread |-> IF t = Main THEN "walk" ELSE "loop"]
    /\ stack = [t \in Thread |-> <<>>]
    /\ node = [t \in Thread |-> None]
    /\ next = 1
    /\ walking = TRUE
    /\ fds = {}
    /\ refs = [n \in Node |-> 0]
    /\ reports = [n \in Node |-> <<>>]

\* What t does when it runs
Step(t) ==
    \/ t = Main /\ (Walk \/ MainWorker \/ Join)
    \/ Enqueue(t) \/ Post(t) \/ NotifyOne(t)
    \/ ListDir(t) \/ ListDirFails(t) \/ Entry(t) \/ EndRead(t) \/ Decref(t)
    \/ Loop(t) \/ Check(t) \/ Wake(t) \/ Recheck(t) \/ JobDone(t) \/ Finish(t)

Next == \E t \in Thread : Step(t) \/ SpuriousWake(t)

Spec == Init /\ [][Next]_vars

\* The operating system runs every thread which can run, and a thread which
\* waits for the mutex gets it in the end, however often woken threads have
\* it meanwhile.  No spurious wakeup is promised.
Locks(t) == Post(t) \/ Check(t) \/ Wake(t)

FairSpec == Spec /\ \A t \in Thread : WF_vars(Step(t)) /\ SF_vars(Locks(t))

-----------------------------------------------------------------------------
(* Properties *)

Labels == {"walk", "enqueue", "lock", "notify", "read", "drop", "done",
           "loop", "check", "wait", "woken", "recheck", "finish", "finished", "joined"}

\* Every variable has its type: positions in a listing only grow.
TypeOK ==
    /\ busy \in Int
    /\ job \in Node \cup {None}
    /\ pc \in [Thread -> Labels]
    /\ stack \in [Thread -> Seq([dir : Node, entry : Nat])]
    /\ node \in [Thread -> Node \cup {None}]
    /\ next \in 1..(Len(Inputs) + 1)
    /\ walking \in BOOLEAN
    /\ fds \in SUBSET Node
    /\ refs \in [Node -> Int]
    /\ reports \in [Node -> Seq({"File", "OpenError", "Directory", "OpenDirError"})]

\* Where a thread is while it walks or processes a job, and after it left worker()
Working == {"walk", "enqueue", "lock", "notify", "read", "drop", "done"}

Left == {"finish", "finished", "joined"}

BusyThreads == {t \in Thread : pc[t] \in Working}

\* m_busy counts the posted job and the threads at work: the three purposes
\* of the counter listed in FileTree.h.
BusyExact ==
    busy = Cardinality(BusyThreads) + (IF job = None THEN 0 ELSE 1)

\* No thread leaves worker() while there is work, or somebody who could post
\* some: m_busy = 0 is seen only when the walk is complete.
NoEarlyExit ==
    (\E t \in Thread : pc[t] \in Left) => BusyThreads = {} /\ job = None

\* The places which own an open directory n: an activation of read(), a thread
\* on its way into enqueue(), and the queue.
Holders(n) ==
    (UNION {{<<t, i>> : i \in {i \in DOMAIN stack[t] : stack[t][i].dir = n}} : t \in Thread})
    \cup {<<t, 0>> : t \in {t \in Thread : node[t] = n /\ pc[t] # "drop"}}
    \cup (IF job = n THEN {<<None, 0>>} ELSE {})

\* A descriptor is open exactly while one place owns it: no directory is read
\* by two threads, lost in the hand-over, or left open after it was read.
DescriptorOwned ==
    \A n \in Node : Cardinality(Holders(n)) = IF n \in fds THEN 1 ELSE 0

\* The reference count of a node is the number of its owners, of decref() calls
\* under way and of existing children: the node outlives the use of its path
\* and descriptor by its children, and nothing keeps it alive after that.
RefsExact ==
    \A n \in Node :
        refs[n] = Cardinality(Holders(n))
                  + Cardinality({t \in Thread : pc[t] = "drop" /\ node[t] = n})
                  + Cardinality({c \in Node : refs[c] > 0 /\ Parent(c) = n})

\* The walk as the callback sees it (TreeWalk)
W == INSTANCE TreeWalk WITH open <- fds

\* Reports and open descriptors change as the steps of TreeWalk do.
WalkSpec == W!Spec

\* The work runs to completion: every input is reported, everything reported
\* as a directory to descend into is read and closed.
WalkCompletes == <>[](busy = 0 /\ fds = {} /\ \A i \in DOMAIN Inputs : reports[Inputs[i]] # <<>>)

\* A thread which found m_busy # 0 and no job is not waiting yet: before it
\* locks the mutex (from the test of the loop on), or behind a wait().
BeforeWait == {t \in Thread : pc[t] \in {"check", "recheck"}}

\* The only way to hang: a notify_all of a thread that leaves falls between
\* another thread's reading of m_busy and its wait, which the mutex does not
\* prevent (worker).
JoinedUnlessRace ==
    []((\E t \in Thread : pc[t] = "finish") => BeforeWait = {}) => <>(pc[Main] = "joined")

\* The owner of the FileTree gets past the destructor, which joins the threads.
Joined == <>(pc[Main] = "joined")
=============================================================================
