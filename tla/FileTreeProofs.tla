--------------------------- MODULE FileTreeProofs ---------------------------
(***************************************************************************)
(* Theorems about FileTree, for any number of threads and any tree: the    *)
(* counter and the exits of threads first, then the walk.                  *)
(***************************************************************************)
EXTENDS FileTree, FiniteSetTheorems, SequenceTheorems, TLAPS

Frame == [dir : Node, entry : Nat]

\* Where a thread is tells what its local variables hold.
Placed ==
    \A t \in Thread :
        /\ pc[t] \in {"enqueue", "lock", "drop"} => node[t] \in Node
        /\ pc[t] = "read" => stack[t] # <<>>
        /\ pc[t] = "walk" => t = Main

\* The inductive invariant behind NoEarlyExit
Quiet == TypeOK /\ Placed /\ BusyExact /\ NoEarlyExit

LEMMA ThreadFinite == IsFiniteSet(Thread)
BY ThreadAssumption, FS_AddElement DEF Thread

LEMMA BusyFinite == IsFiniteSet(BusyThreads) /\ Cardinality(BusyThreads) \in Nat
<1>1. BusyThreads \in SUBSET Thread
  BY DEF BusyThreads
<1>2. QED
  BY <1>1, ThreadFinite, FS_Subset, FS_CardinalityType

\* The parent of a node is a node.
LEMMA ParentType == ASSUME NEW n PROVE Parent(n) \in Node \cup {None}
<1>1. CASE \E p \in Node : IsEntry(n, p)
  BY <1>1 DEF Parent
<1>2. CASE ~(\E p \in Node : IsEntry(n, p))
  BY <1>2 DEF Parent
<1>3. QED
  BY <1>1, <1>2

\* A new activation of read() on top of a well-formed stack.
LEMMA ReadStack ==
    ASSUME TypeOK, NEW t \in Thread, NEW n \in Node, Read(t, n)
    PROVE  /\ stack' \in [Thread -> Seq(Frame)]
           /\ stack'[t] # <<>>
           /\ Len(stack'[t]) = Len(stack[t]) + 1
           /\ stack'[t][Len(stack[t]) + 1] = [dir |-> n, entry |-> 0]
           /\ \A i \in 1..Len(stack[t]) : stack'[t][i] = stack[t][i]
           /\ \A u \in Thread : u # t => stack'[u] = stack[u]
<1> DEFINE f == [dir |-> n, entry |-> 0]
<1>1. f \in Frame
  BY DEF Frame
<1>2. stack \in [Thread -> Seq(Frame)]
  BY DEF TypeOK, Frame
<1>3. /\ Append(stack[t], f) \in Seq(Frame)
      /\ Append(stack[t], f) # <<>>
      /\ Len(Append(stack[t], f)) = Len(stack[t]) + 1
      /\ Append(stack[t], f)[Len(stack[t]) + 1] = f
      /\ \A i \in 1..Len(stack[t]) : Append(stack[t], f)[i] = stack[t][i]
  <2> HIDE DEF f
  <2>1. stack[t] \in Seq(Frame)
    BY <1>2
  <2>2. QED
    BY <1>1, <2>1, AppendProperties
<1>4. stack' = [stack EXCEPT ![t] = Append(stack[t], f)]
  BY DEF Read
<1>5. QED
  BY <1>2, <1>3, <1>4

\* The innermost activation.
LEMMA TopFrame ==
    ASSUME TypeOK, NEW t \in Thread, stack[t] # <<>>
    PROVE  /\ Top(t) \in 1..Len(stack[t])
           /\ Top(t) = Len(stack[t]) /\ Len(stack[t]) \in Nat \ {0}
           /\ stack[t] \in Seq(Frame)
           /\ Dir(t) \in Node
           /\ Position(t) \in Nat
<1>1. stack[t] \in Seq(Frame)
  BY DEF TypeOK, Frame
<1>2. Len(stack[t]) \in Nat \ {0}
  BY <1>1, EmptySeq
<1>3. stack[t][Len(stack[t])] \in Frame
  BY <1>1, <1>2, ElementOfSeq
<1>4. QED
  BY <1>1, <1>2, <1>3 DEF Frame, Dir, Position, Top

\* The stack after the innermost activation has ended.
LEMMA PopStack ==
    ASSUME TypeOK, NEW t \in Thread, stack[t] # <<>>,
           stack' = [stack EXCEPT ![t] = SubSeq(@, 1, Top(t) - 1)]
    PROVE  /\ stack' \in [Thread -> Seq(Frame)]
           /\ Len(stack'[t]) = Len(stack[t]) - 1
           /\ \A i \in 1..Len(stack[t]) - 1 : stack'[t][i] = stack[t][i]
           /\ \A u \in Thread : u # t => stack'[u] = stack[u]
<1> DEFINE s == SubSeq(stack[t], 1, Top(t) - 1)
<1>1. stack \in [Thread -> Seq(Frame)]
  BY DEF TypeOK, Frame
<1>2. Top(t) - 1 \in Nat /\ \A i \in 1..Top(t) - 1 : stack[t][i] \in Frame
  BY TopFrame
<1>3. /\ s \in Seq(Frame)
      /\ Len(s) = Top(t) - 1
      /\ \A i \in 1..Top(t) - 1 : s[i] = stack[t][i]
  BY <1>2, SubSeqProperties
<1>4. stack' = [stack EXCEPT ![t] = s]
  OBVIOUS
<1> HIDE DEF s
<1>5. QED
  BY <1>1, <1>3, <1>4, TopFrame

\* The stack after the innermost activation moved to the next entry.
LEMMA AdvanceStack ==
    ASSUME TypeOK, NEW t \in Thread, stack[t] # <<>>, Advance(t)
    PROVE  /\ stack' \in [Thread -> Seq(Frame)]
           /\ stack'[t] # <<>>
           /\ Len(stack'[t]) = Len(stack[t])
           /\ \A i \in 1..Len(stack[t]) :
                  stack'[t][i] = IF i = Top(t) THEN [dir |-> Dir(t), entry |-> Position(t) + 1]
                                 ELSE stack[t][i]
           /\ \A u \in Thread : u # t => stack'[u] = stack[u]
<1> DEFINE f == [dir |-> Dir(t), entry |-> Position(t) + 1]
           s == [stack[t] EXCEPT ![Top(t)] = f]
<1>1. stack \in [Thread -> Seq(Frame)]
  BY DEF TypeOK, Frame
<1>2. f \in Frame
  BY TopFrame DEF Frame
<1>3. /\ s \in Seq(Frame)
      /\ Len(s) = Len(stack[t])
      /\ \A i \in 1..Len(stack[t]) : s[i] = IF i = Top(t) THEN f ELSE stack[t][i]
  BY <1>2, TopFrame, ExceptSeq
<1>4. stack[t][Top(t)] \in Frame
  BY TopFrame
<1>5. [stack[t][Top(t)] EXCEPT !.entry = stack[t][Top(t)].entry + 1] = f
  BY <1>4 DEF Frame, Dir, Position
<1>6. stack' = [stack EXCEPT ![t] = s]
  BY <1>5 DEF Advance
<1>7. s # <<>>
  BY <1>3, TopFrame
<1> HIDE DEF s, f
<1>8. QED
  BY <1>1, <1>3, <1>6, <1>7 DEF f

-----------------------------------------------------------------------------
(* Type correctness *)

\* reports and refs keep their types in every way a node is reported.
LEMMA NotDescendedType ==
    ASSUME TypeOK, NEW n \in Node, NotDescended(n)
    PROVE  reports' \in [Node -> Seq({"File", "OpenError", "Directory", "OpenDirError"})]
           /\ fds' \in SUBSET Node /\ refs' \in [Node -> Int]
BY DEF TypeOK, NotDescended

LEMMA DescendedType ==
    ASSUME TypeOK, NEW n \in Node, Descended(n)
    PROVE  reports' \in [Node -> Seq({"File", "OpenError", "Directory", "OpenDirError"})]
           /\ fds' \in SUBSET Node /\ refs' \in [Node -> Int]
BY DEF TypeOK, Descended, MakeNode

LEMMA LeaveReadType ==
    ASSUME TypeOK, NEW t \in Thread, stack[t] # <<>>, LeaveRead(t)
    PROVE  /\ fds' \in SUBSET Node
           /\ stack' \in [Thread -> Seq(Frame)]
           /\ node' \in [Thread -> Node \cup {None}]
           /\ pc' \in [Thread -> Labels]
           /\ Placed => Placed'
BY TopFrame, PopStack DEF TypeOK, Frame, LeaveRead, Goto, Labels, Placed

\* Every variable has its type, and the local variables of a thread are set
\* where it is about to use them.
LEMMA TypeStep == TypeOK /\ Placed /\ [Next]_vars => TypeOK' /\ Placed'
<1> SUFFICES ASSUME TypeOK, Placed, [Next]_vars
             PROVE  TypeOK' /\ Placed'
  OBVIOUS
<1> USE DEF Labels
<1>main. Main \in Thread
  BY DEF Thread
<1>1. ASSUME Walk PROVE TypeOK' /\ Placed'
  <2>1. next \in DOMAIN Inputs /\ Inputs[next] \in Node
    BY <1>1, TreeAssumption DEF Walk, TypeOK
  <2>2. next' \in 1..(Len(Inputs) + 1)
    BY <1>1, TreeAssumption DEF Walk, TypeOK
  <2>3. CASE NotDescended(Inputs[next]) /\ UNCHANGED <<pc, node>>
    BY <2>1, <2>2, <2>3, <1>1, NotDescendedType DEF Walk, TypeOK, Placed
  <2>4. CASE Descended(Inputs[next]) /\ node' = [node EXCEPT ![Main] = Inputs[next]]
             /\ Goto(Main, "enqueue")
    BY <2>1, <2>2, <2>4, <1>1, <1>main, DescendedType DEF Walk, TypeOK, Placed, Goto
  <2>5. QED
    BY <2>3, <2>4, <1>1 DEF Walk
<1>2. ASSUME MainWorker PROVE TypeOK' /\ Placed'
  <2>1. busy' \in Int
    BY <1>2 DEF MainWorker, TypeOK
  <2>2. QED
    BY <2>1, <1>2, <1>main DEF MainWorker, TypeOK, Placed, Goto
<1>3. ASSUME Join PROVE TypeOK' /\ Placed'
  BY <1>3, <1>main DEF Join, TypeOK, Placed, Goto
<1>4. ASSUME NEW t \in Thread, Enqueue(t) PROVE TypeOK' /\ Placed'
  <2>1. node[t] \in Node
    BY <1>4 DEF Placed, Enqueue
  <2>2. CASE Read(t, node[t]) /\ node' = [node EXCEPT ![t] = None] /\ Goto(t, "read")
    BY <2>1, <2>2, <1>4, ReadStack DEF Enqueue, TypeOK, Placed, Goto, Frame
  <2>3. CASE Goto(t, "lock") /\ UNCHANGED <<stack, node>>
    BY <2>1, <2>3, <1>4 DEF Enqueue, TypeOK, Placed, Goto
  <2>4. QED
    BY <2>2, <2>3, <1>4 DEF Enqueue
<1>5. ASSUME NEW t \in Thread, Post(t) PROVE TypeOK' /\ Placed'
  <2>1. node[t] \in Node
    BY <1>5 DEF Placed, Post
  <2>2. CASE job = None /\ busy' = busy + 1 /\ job' = node[t] /\ Goto(t, "notify")
             /\ UNCHANGED stack
    <3>1. busy' \in Int
      BY <2>2 DEF TypeOK
    <3>2. QED
      BY <3>1, <2>1, <2>2, <1>5 DEF Post, TypeOK, Placed, Goto
  <2>3. CASE Read(t, node[t]) /\ Goto(t, "read") /\ UNCHANGED <<busy, job>>
    BY <2>1, <2>3, <1>5, ReadStack DEF Post, TypeOK, Placed, Goto, Frame
  <2>4. QED
    BY <2>2, <2>3, <1>5 DEF Post
<1>6. ASSUME NEW t \in Thread, NotifyOne(t) PROVE TypeOK' /\ Placed'
  BY <1>6 DEF NotifyOne, TypeOK, Placed, Goto, Return
<1>7. ASSUME NEW t \in Thread, ListDir(t) PROVE TypeOK' /\ Placed'
  BY <1>7, AdvanceStack DEF ListDir, TypeOK, Placed, Frame
<1>8. ASSUME NEW t \in Thread, ListDirFails(t) PROVE TypeOK' /\ Placed'
  <2>1. stack[t] # <<>> /\ Dir(t) \in Node
    BY <1>8, TopFrame DEF ListDirFails, Placed
  <2>2. reports' \in [Node -> Seq({"File", "OpenError", "Directory", "OpenDirError"})]
    BY <2>1, <1>8 DEF ListDirFails, TypeOK
  <2>3. QED
    BY <2>1, <2>2, <1>8, LeaveReadType DEF ListDirFails, TypeOK, Frame
<1>9. ASSUME NEW t \in Thread, Entry(t) PROVE TypeOK' /\ Placed'
  <2> DEFINE n == Entries[Dir(t)][Position(t)]
  <2>1. stack[t] # <<>> /\ Dir(t) \in Node
    BY <1>9, TopFrame DEF Entry, Placed
  <2>2. n \in Node
    BY <2>1, <1>9, TreeAssumption DEF Entry
  <2>3. stack' \in [Thread -> Seq(Frame)] /\ stack'[t] # <<>>
        /\ \A u \in Thread : u # t => stack'[u] = stack[u]
    BY <2>1, <1>9, AdvanceStack DEF Entry
  <2>4. CASE Descended(n) /\ node' = [node EXCEPT ![t] = n] /\ Goto(t, "enqueue")
    <3> HIDE DEF n
    <3>1. QED
      BY <2>2, <2>3, <2>4, <1>9, DescendedType DEF Entry, TypeOK, Placed, Goto, Frame
  <2>5. CASE NotDescended(n) /\ UNCHANGED <<node, pc>>
    <3> HIDE DEF n
    <3>1. QED
      BY <2>2, <2>3, <2>5, <1>9, NotDescendedType DEF Entry, TypeOK, Placed, Frame
  <2>6. CASE reports' = [reports EXCEPT ![n] = Append(@, "File")]
             /\ UNCHANGED <<node, pc, fds, refs>>
    <3> HIDE DEF n
    <3>1. reports' \in [Node -> Seq({"File", "OpenError", "Directory", "OpenDirError"})]
      BY <2>2, <2>6 DEF TypeOK
    <3>2. QED
      BY <3>1, <2>2, <2>3, <2>6, <1>9 DEF Entry, TypeOK, Placed, Frame
  <2>7. QED
    BY <2>4, <2>5, <2>6, <1>9 DEF Entry
<1>10. ASSUME NEW t \in Thread, EndRead(t) PROVE TypeOK' /\ Placed'
  <2>1. stack[t] # <<>>
    BY <1>10 DEF EndRead, Placed
  <2>2. QED
    BY <2>1, <1>10, LeaveReadType DEF EndRead, TypeOK, Frame
<1>11. ASSUME NEW t \in Thread, Decref(t) PROVE TypeOK' /\ Placed'
  <2>1. node[t] \in Node /\ Parent(node[t]) \in Node \cup {None}
    BY <1>11, ParentType DEF Placed, Decref
  <2>2. refs' \in [Node -> Int]
    BY <2>1, <1>11 DEF Decref, TypeOK
  <2>3. CASE refs[node[t]] = 1 /\ Parent(node[t]) # None
    BY <2>1, <2>2, <2>3, <1>11 DEF Decref, TypeOK, Placed, Goto
  <2>4. CASE ~(refs[node[t]] = 1 /\ Parent(node[t]) # None)
    BY <2>1, <2>2, <2>4, <1>11 DEF Decref, TypeOK, Placed, Goto, Return
  <2>5. QED
    BY <2>3, <2>4
<1>12. ASSUME NEW t \in Thread, Loop(t) PROVE TypeOK' /\ Placed'
  BY <1>12 DEF Loop, TypeOK, Placed, Goto
<1>13. ASSUME NEW t \in Thread, TakeJob(t) PROVE TypeOK' /\ Placed'
  <2>1. job \in Node
    BY <1>13 DEF TakeJob, TypeOK
  <2>2. QED
    BY <2>1, <1>13, ReadStack DEF TakeJob, TypeOK, Placed, Goto, Frame
<1>14. ASSUME NEW t \in Thread, WaitForJob(t) PROVE TypeOK' /\ Placed'
  BY <1>14 DEF WaitForJob, TypeOK, Placed, Goto
<1>15. ASSUME NEW t \in Thread, Check(t) PROVE TypeOK' /\ Placed'
  BY <1>13, <1>14, <1>15 DEF Check
<1>16. ASSUME NEW t \in Thread, Wake(t) PROVE TypeOK' /\ Placed'
  BY <1>16 DEF Wake, TypeOK, Placed, Goto
<1>21. ASSUME NEW t \in Thread, Recheck(t) PROVE TypeOK' /\ Placed'
  BY <1>13, <1>14, <1>21 DEF Recheck
<1>17. ASSUME NEW t \in Thread, SpuriousWake(t) PROVE TypeOK' /\ Placed'
  BY <1>17 DEF SpuriousWake, TypeOK, Placed, Goto
<1>18. ASSUME NEW t \in Thread, JobDone(t) PROVE TypeOK' /\ Placed'
  <2>1. busy' \in Int
    BY <1>18 DEF JobDone, TypeOK
  <2>2. QED
    BY <2>1, <1>18 DEF JobDone, TypeOK, Placed, Goto
<1>19. ASSUME NEW t \in Thread, Finish(t) PROVE TypeOK' /\ Placed'
  BY <1>19 DEF Finish, TypeOK, Placed
<1>20. CASE UNCHANGED vars
  BY <1>20 DEF vars, TypeOK, Placed
<1>22. QED
  BY <1>1, <1>2, <1>3, <1>4, <1>5, <1>6, <1>7, <1>8, <1>9, <1>10, <1>11, <1>12,
     <1>15, <1>16, <1>17, <1>18, <1>19, <1>20, <1>21 DEF Next, Step

LEMMA TypeInit == Init => TypeOK /\ Placed
BY ThreadAssumption, TreeAssumption DEF Init, TypeOK, Placed, Labels

\* Every variable keeps its type.
THEOREM TypeCorrect == Spec => []TypeOK
<1>1. TypeOK /\ Placed /\ [Next]_vars => (TypeOK /\ Placed)'
  BY TypeStep
<1>2. QED
  BY TypeInit, <1>1, PTL DEF Spec

-----------------------------------------------------------------------------
(* The busy counter *)

\* A thread which moves between two labels of a kind does not change the set.
LEMMA BusyStays ==
    ASSUME TypeOK, NEW t \in Thread, NEW l, Goto(t, l), pc[t] \in Working <=> l \in Working
    PROVE  BusyThreads' = BusyThreads
BY DEF BusyThreads, Goto, TypeOK

LEMMA BusyEnters ==
    ASSUME TypeOK, NEW t \in Thread, NEW l \in Working, Goto(t, l), pc[t] \notin Working
    PROVE  Cardinality(BusyThreads') = Cardinality(BusyThreads) + 1
<1>1. BusyThreads' = BusyThreads \cup {t} /\ t \notin BusyThreads
  BY DEF BusyThreads, Goto, TypeOK
<1>2. QED
  BY <1>1, BusyFinite, FS_AddElement

LEMMA BusyLeaves ==
    ASSUME TypeOK, NEW t \in Thread, NEW l, l \notin Working, Goto(t, l), pc[t] \in Working
    PROVE  Cardinality(BusyThreads') = Cardinality(BusyThreads) - 1
<1>1. BusyThreads' = BusyThreads \ {t} /\ t \in BusyThreads
  BY DEF BusyThreads, Goto, TypeOK
<1>2. QED
  BY <1>1, BusyFinite, FS_RemoveElement

\* m_busy = 0 means that nobody works and nothing is posted.
LEMMA ZeroIsQuiet ==
    ASSUME BusyExact, busy = 0
    PROVE  BusyThreads = {} /\ job = None
<1>1. Cardinality(BusyThreads) = 0 /\ job = None
  BY BusyFinite DEF BusyExact
<1>2. QED
  BY <1>1, BusyFinite, FS_EmptySet

\* What a working thread may do to the counter without anybody leaving.
LEMMA WorkingStep ==
    ASSUME Quiet, NEW t \in Thread, pc[t] \in Working,
           NEW l, l \notin Left, Goto(t, l)
    PROVE  NoEarlyExit'
<1>1. \A u \in Thread : pc[u] \notin Left
  BY DEF Quiet, NoEarlyExit, BusyThreads
<1>2. \A u \in Thread : pc'[u] \notin Left
  BY <1>1 DEF Goto, Quiet, TypeOK
<1>3. QED
  BY <1>2 DEF NoEarlyExit

\* A step inside of the work: nothing that the counter counts changes.
LEMMA InnerStep ==
    ASSUME Quiet, NEW t \in Thread, pc[t] \in Working,
           NEW l \in Working, Goto(t, l), UNCHANGED <<busy, job>>
    PROVE  BusyExact' /\ NoEarlyExit'
<1>1. BusyThreads' = BusyThreads
  BY BusyStays DEF Quiet
<1>2. BusyExact'
  BY <1>1 DEF Quiet, BusyExact
<1>3. l \notin Left
  BY DEF Working, Left
<1>4. QED
  BY <1>2, <1>3, WorkingStep

\* A step of an idle thread which stays idle.
LEMMA IdleStep ==
    ASSUME Quiet, NEW t \in Thread, pc[t] \notin Working,
           NEW l, l \notin Working, Goto(t, l), UNCHANGED <<busy, job>>,
           l \in Left => BusyThreads = {} /\ job = None
    PROVE  BusyExact' /\ NoEarlyExit'
<1>1. BusyThreads' = BusyThreads
  BY BusyStays DEF Quiet
<1>2. BusyExact'
  BY <1>1 DEF Quiet, BusyExact
<1>3. NoEarlyExit'
  BY <1>1 DEF Quiet, NoEarlyExit, Goto, TypeOK
<1>4. QED
  BY <1>2, <1>3

\* Where enqueue() and read() return to is still work.
LEMMA ReturnWorks == ASSUME NEW t \in Thread, NEW frames PROVE Return(t, frames) \in Working
BY DEF Return, Working

LEMMA QuietStep == Quiet /\ [Next]_vars => BusyExact' /\ NoEarlyExit'
<1> SUFFICES ASSUME Quiet, [Next]_vars
             PROVE  BusyExact' /\ NoEarlyExit'
  OBVIOUS
<1>pc. pc \in [Thread -> Labels] /\ Main \in Thread /\ busy \in Int
  BY DEF Quiet, TypeOK, Thread
<1>sets. \A l \in Working : l \notin Left
  BY DEF Working, Left
<1>1. ASSUME Walk PROVE BusyExact' /\ NoEarlyExit'
  <2>1. pc[Main] \in Working /\ UNCHANGED <<busy, job>>
    BY <1>1 DEF Walk, Working
  <2>2. Goto(Main, "walk") \/ Goto(Main, "enqueue")
    BY <1>1, <1>pc DEF Walk, Goto
  <2>3. QED
    BY <2>1, <2>2, <1>pc, InnerStep DEF Working
<1>2. ASSUME MainWorker PROVE BusyExact' /\ NoEarlyExit'
  <2>1. pc[Main] \in Working /\ Goto(Main, "loop") /\ busy' = busy - 1 /\ job' = job
    BY <1>2 DEF MainWorker, Working
  <2>2. "loop" \notin Working /\ "loop" \notin Left
    BY DEF Working, Left
  <2>3. BusyExact'
    BY <2>1, <2>2, <1>pc, BusyLeaves, BusyFinite DEF Quiet, BusyExact
  <2>4. NoEarlyExit'
    BY <2>1, <2>2, <1>pc, WorkingStep
  <2>5. QED
    BY <2>3, <2>4
<1>3. ASSUME Join PROVE BusyExact' /\ NoEarlyExit'
  <2>1. pc[Main] = "finished" /\ Goto(Main, "joined") /\ UNCHANGED <<busy, job>>
    BY <1>3 DEF Join
  <2>2. pc[Main] \in Left /\ pc[Main] \notin Working /\ "joined" \notin Working
    BY <2>1 DEF Left, Working
  <2>3. BusyThreads = {} /\ job = None
    BY <2>2, <1>pc DEF Quiet, NoEarlyExit
  <2>4. QED
    BY <2>1, <2>2, <2>3, <1>pc, IdleStep
<1>4. ASSUME NEW t \in Thread, Enqueue(t) PROVE BusyExact' /\ NoEarlyExit'
  <2>1. pc[t] \in Working /\ UNCHANGED <<busy, job>> /\ (Goto(t, "read") \/ Goto(t, "lock"))
    BY <1>4 DEF Enqueue, Working
  <2>2. QED
    BY <2>1, InnerStep DEF Working
<1>5. ASSUME NEW t \in Thread, Post(t) PROVE BusyExact' /\ NoEarlyExit'
  <2>1. pc[t] \in Working
    BY <1>5 DEF Post, Working
  <2>2. CASE job = None /\ busy' = busy + 1 /\ job' = node[t] /\ Goto(t, "notify")
    <3>1. BusyThreads' = BusyThreads
      BY <2>1, <2>2, BusyStays DEF Quiet, Working
    <3>2. job' # None
      BY <2>2, <1>5, TreeAssumption DEF Post, Quiet, Placed
    <3>3. BusyExact'
      BY <3>1, <3>2, <2>2, BusyFinite, <1>pc DEF Quiet, BusyExact
    <3>4. NoEarlyExit'
      BY <2>1, <2>2, WorkingStep DEF Left
    <3>5. QED
      BY <3>3, <3>4
  <2>3. CASE Goto(t, "read") /\ UNCHANGED <<busy, job>>
    BY <2>1, <2>3, InnerStep DEF Working
  <2>4. QED
    BY <2>2, <2>3, <1>5 DEF Post
<1>6. ASSUME NEW t \in Thread, NotifyOne(t) PROVE BusyExact' /\ NoEarlyExit'
  <2>1. pc[t] \in Working /\ UNCHANGED <<busy, job>> /\ Return(t, stack[t]) \in Working
    BY <1>6, ReturnWorks DEF NotifyOne, Working
  <2>2. ASSUME NEW w \in Thread, pc[w] = "wait",
               pc' = [pc EXCEPT ![t] = Return(t, stack[t]), ![w] = "woken"]
        PROVE  BusyExact' /\ NoEarlyExit'
    <3>1. w # t /\ "woken" \notin Working /\ "woken" \notin Left /\ "wait" \notin Working
      BY <2>1, <2>2, <1>6 DEF NotifyOne, Working, Left
    <3>2. BusyThreads' = BusyThreads
      BY <2>1, <2>2, <3>1, <1>pc DEF BusyThreads
    <3>3. \A u \in Thread : pc[u] \notin Left
      BY <2>1 DEF Quiet, NoEarlyExit, BusyThreads
    <3>4. \A u \in Thread : pc'[u] \notin Left
      BY <2>1, <2>2, <3>1, <3>3, <1>pc, <1>sets
    <3>5. QED
      BY <2>1, <3>2, <3>4 DEF Quiet, BusyExact, NoEarlyExit
  <2>3. CASE Goto(t, Return(t, stack[t]))
    BY <2>1, <2>3, InnerStep
  <2>4. QED
    BY <2>2, <2>3, <1>6 DEF NotifyOne
<1>7. ASSUME NEW t \in Thread, ListDir(t) PROVE BusyExact' /\ NoEarlyExit'
  <2>1. pc[t] \in Working /\ Goto(t, pc[t]) /\ UNCHANGED <<busy, job>>
    BY <1>7, <1>pc DEF ListDir, Goto, Working
  <2>2. QED
    BY <2>1, InnerStep
<1>8. ASSUME NEW t \in Thread, ListDirFails(t) \/ EndRead(t) PROVE BusyExact' /\ NoEarlyExit'
  <2>1. pc[t] \in Working /\ Goto(t, "drop") /\ UNCHANGED <<busy, job>>
    BY <1>8 DEF ListDirFails, EndRead, LeaveRead, Working
  <2>2. QED
    BY <2>1, InnerStep DEF Working
<1>9. ASSUME NEW t \in Thread, Entry(t) PROVE BusyExact' /\ NoEarlyExit'
  <2>1. pc[t] \in Working /\ UNCHANGED <<busy, job>>
    BY <1>9 DEF Entry, Working
  <2>2. Goto(t, "enqueue") \/ Goto(t, pc[t])
    BY <1>9, <1>pc DEF Entry, Goto
  <2>3. QED
    BY <2>1, <2>2, InnerStep DEF Working
<1>10. ASSUME NEW t \in Thread, Decref(t) PROVE BusyExact' /\ NoEarlyExit'
  <2>1. pc[t] \in Working /\ UNCHANGED <<busy, job>>
    BY <1>10 DEF Decref, Working
  <2>2. Goto(t, "drop") \/ Goto(t, Return(t, stack[t]))
    BY <1>10 DEF Decref
  <2>3. QED
    BY <2>1, <2>2, ReturnWorks, InnerStep DEF Working
<1>11. ASSUME NEW t \in Thread, Loop(t) PROVE BusyExact' /\ NoEarlyExit'
  <2>1. pc[t] \notin Working /\ UNCHANGED <<busy, job>>
    BY <1>11 DEF Loop, Working
  <2>2. CASE busy # 0
    <3>1. Goto(t, "check") /\ "check" \notin Working /\ "check" \notin Left
      BY <2>2, <1>11 DEF Loop, Working, Left
    <3>2. QED
      BY <2>1, <3>1, IdleStep
  <2>3. CASE busy = 0
    <3>1. Goto(t, "finish") /\ "finish" \notin Working
      BY <2>3, <1>11 DEF Loop, Working
    <3>2. QED
      BY <2>1, <2>3, <3>1, IdleStep, ZeroIsQuiet DEF Quiet
  <2>4. QED
    BY <2>2, <2>3
<1>12. ASSUME NEW t \in Thread, pc[t] \in {"check", "recheck"}, TakeJob(t)
       PROVE BusyExact' /\ NoEarlyExit'
  <2>1. pc[t] \notin Working /\ "read" \in Working /\ Goto(t, "read") /\ busy' = busy
    BY <1>12 DEF TakeJob, Working
  <2>2. job # None /\ job' = None
    BY <1>12 DEF TakeJob
  <2>3. Cardinality(BusyThreads') = Cardinality(BusyThreads) + 1
    BY <2>1, BusyEnters DEF Quiet
  <2>4. BusyExact'
    BY <2>1, <2>2, <2>3, BusyFinite DEF Quiet, BusyExact
  <2>5. \A u \in Thread : pc[u] \notin Left
    BY <2>2 DEF Quiet, NoEarlyExit
  <2>6. \A u \in Thread : pc'[u] \notin Left
    BY <2>1, <2>5, <1>pc DEF Goto, Left
  <2>7. QED
    BY <2>4, <2>6 DEF NoEarlyExit
<1>13. ASSUME NEW t \in Thread, pc[t] \in {"check", "recheck"}, WaitForJob(t)
       PROVE BusyExact' /\ NoEarlyExit'
  <2>1. pc[t] \notin Working /\ UNCHANGED <<busy, job>> /\ Goto(t, "wait")
    BY <1>13 DEF WaitForJob, Working
  <2>2. "wait" \notin Working /\ "wait" \notin Left
    BY DEF Working, Left
  <2>3. QED
    BY <2>1, <2>2, IdleStep
<1>14. ASSUME NEW t \in Thread, Check(t) PROVE BusyExact' /\ NoEarlyExit'
  BY <1>12, <1>13, <1>14 DEF Check
<1>15. ASSUME NEW t \in Thread, Wake(t) PROVE BusyExact' /\ NoEarlyExit'
  <2>1. CASE busy = 0
    <3>1. Goto(t, "finish") /\ "finish" \notin Working /\ pc[t] \notin Working
          /\ UNCHANGED <<busy, job>>
      BY <2>1, <1>15 DEF Wake, Working
    <3>2. QED
      BY <2>1, <3>1, IdleStep, ZeroIsQuiet DEF Quiet
  <2>2. CASE busy # 0
    <3>1. Goto(t, "recheck") /\ "recheck" \notin Working /\ "recheck" \notin Left
          /\ pc[t] \notin Working /\ UNCHANGED <<busy, job>>
      BY <2>2, <1>15 DEF Wake, Working, Left
    <3>2. QED
      BY <3>1, IdleStep
  <2>3. QED
    BY <2>1, <2>2
<1>21. ASSUME NEW t \in Thread, Recheck(t) PROVE BusyExact' /\ NoEarlyExit'
  BY <1>12, <1>13, <1>21 DEF Recheck
<1>16. ASSUME NEW t \in Thread, SpuriousWake(t) PROVE BusyExact' /\ NoEarlyExit'
  <2>1. pc[t] \notin Working /\ UNCHANGED <<busy, job>> /\ Goto(t, "woken")
    BY <1>16 DEF SpuriousWake, Working
  <2>2. "woken" \notin Working /\ "woken" \notin Left
    BY DEF Working, Left
  <2>3. QED
    BY <2>1, <2>2, IdleStep
<1>17. ASSUME NEW t \in Thread, JobDone(t) PROVE BusyExact' /\ NoEarlyExit'
  <2>1. pc[t] \in Working /\ Goto(t, "loop") /\ busy' = busy - 1 /\ job' = job
    BY <1>17 DEF JobDone, Working
  <2>2. "loop" \notin Working /\ "loop" \notin Left
    BY DEF Working, Left
  <2>3. BusyExact'
    BY <2>1, <2>2, <1>pc, BusyLeaves, BusyFinite DEF Quiet, BusyExact
  <2>4. NoEarlyExit'
    BY <2>1, <2>2, WorkingStep
  <2>5. QED
    BY <2>3, <2>4
<1>18. ASSUME NEW t \in Thread, Finish(t) PROVE BusyExact' /\ NoEarlyExit'
  <2>1. pc[t] = "finish" /\ UNCHANGED <<busy, job>>
    BY <1>18 DEF Finish
  <2>2. BusyThreads = {} /\ job = None
    BY <2>1 DEF Quiet, NoEarlyExit, Left
  <2>3. BusyThreads' = BusyThreads
    BY <1>18 DEF Finish, BusyThreads, Working
  <2>4. QED
    BY <2>1, <2>2, <2>3 DEF Quiet, BusyExact, NoEarlyExit
<1>19. CASE UNCHANGED vars
  BY <1>19 DEF vars, Quiet, BusyExact, NoEarlyExit, BusyThreads
<1>20. QED
  BY <1>1, <1>2, <1>3, <1>4, <1>5, <1>6, <1>7, <1>8, <1>9, <1>10, <1>11, <1>14,
     <1>15, <1>16, <1>17, <1>18, <1>19, <1>21 DEF Next, Step

LEMMA QuietInit == Init => Quiet
<1> SUFFICES ASSUME Init PROVE BusyExact /\ NoEarlyExit
  BY TypeInit DEF Quiet
<1>1. BusyThreads = {Main}
  BY ThreadAssumption DEF Init, BusyThreads, Working, Thread
<1>2. Cardinality(BusyThreads) = 1
  BY <1>1, FS_Singleton
<1>3. BusyExact
  BY <1>2 DEF Init, BusyExact
<1>4. \A t \in Thread : pc[t] \notin Left
  BY DEF Init, Left
<1>5. QED
  BY <1>3, <1>4 DEF NoEarlyExit

LEMMA QuietInvariant == Spec => []Quiet
<1>1. Quiet /\ [Next]_vars => Quiet'
  BY TypeStep, QuietStep DEF Quiet
<1>2. QED
  BY QuietInit, <1>1, PTL DEF Spec

\* m_busy is exact at every moment, with any number of threads.
THEOREM BusyCounterExact == Spec => []BusyExact
<1>1. Quiet => BusyExact
  BY DEF Quiet
<1>2. QED
  BY QuietInvariant, <1>1, PTL

\* No thread leaves worker() before the walk is complete.
THEOREM NoThreadLeavesEarly == Spec => []NoEarlyExit
<1>1. Quiet => NoEarlyExit
  BY DEF Quiet
<1>2. QED
  BY QuietInvariant, <1>1, PTL

-----------------------------------------------------------------------------
(***************************************************************************)
(* FileTree implements TreeWalk: however the threads hand directories over *)
(* to each other, every node is reported once, in an open directory, and a *)
(* directory is closed once, after all its entries were reported.          *)
(***************************************************************************)

\* With the open descriptors F and the reports R: the directory d is open, and
\* the first k - 1 of its entries were reported; with k = 0 it was not listed yet.
Started(F, R, d, k) ==
    /\ d \in F
    /\ k = 0 => R[d] = <<"Directory">>
    /\ \A j \in DOMAIN Entries[d] : R[Entries[d][j]] # <<>> <=> j < k

Handing(t) == pc[t] \in {"enqueue", "lock"}

\* Every place that owns a directory agrees with what was reported of it.
OwnersStarted ==
    /\ \A t \in Thread : \A i \in 1..Len(stack[t]) :
           Started(fds, reports, stack[t][i].dir, stack[t][i].entry)
    /\ \A t \in Thread : Handing(t) => Started(fds, reports, node[t], 0)
    /\ job # None => Started(fds, reports, job, 0)

\* No two places own one directory.
OwnersDistinct ==
    /\ \A t, u \in Thread : \A i \in 1..Len(stack[t]), j \in 1..Len(stack[u]) :
           stack[t][i].dir = stack[u][j].dir => t = u /\ i = j
    /\ \A t, u \in Thread : \A i \in 1..Len(stack[t]) :
           Handing(u) => stack[t][i].dir # node[u]
    /\ \A t, u \in Thread : Handing(t) /\ Handing(u) /\ t # u => node[t] # node[u]
    /\ \A t \in Thread : \A i \in 1..Len(stack[t]) : stack[t][i].dir # job
    /\ \A t \in Thread : Handing(t) => node[t] # job

\* Nodes are reported from the inputs downwards.
ReportsOrdered ==
    /\ \A n \in fds : reports[n] # <<>>
    /\ \A p \in Node : \A j \in DOMAIN Entries[p] :
           reports[Entries[p][j]] # <<>> => reports[p] # <<>>
    /\ \A k \in DOMAIN Inputs : reports[Inputs[k]] # <<>> <=> k < next

Owned == TypeOK /\ Placed /\ OwnersStarted /\ OwnersDistinct /\ ReportsOrdered

Ownership == OwnersStarted /\ OwnersDistinct /\ ReportsOrdered

\* The directories on the stacks are nodes.
LEMMA StackType ==
    ASSUME TypeOK, NEW t \in Thread
    PROVE  /\ Len(stack[t]) \in Nat
           /\ \A i \in 1..Len(stack[t]) : stack[t][i].dir \in Node /\ stack[t][i].entry \in Nat
<1>1. stack[t] \in Seq(Frame)
  BY DEF TypeOK, Frame
<1>2. \A i \in 1..Len(stack[t]) : stack[t][i] \in Frame
  BY <1>1, ElementOfSeq
<1>3. QED
  BY <1>1, <1>2 DEF Frame

-----------------------------------------------------------------------------
(* Steps which report nothing *)

\* A step which moves no directory between the places.
LEMMA SamePlaces ==
    ASSUME Owned, UNCHANGED <<stack, job, fds, reports, next>>,
           \A t \in Thread : Handing(t)' => Handing(t) /\ node'[t] = node[t]
    PROVE  Ownership'
<1>1. OwnersStarted'
  BY DEF Owned, OwnersStarted
<1>2. OwnersDistinct'
  BY DEF Owned, OwnersDistinct
<1>3. ReportsOrdered'
  BY DEF Owned, ReportsOrdered
<1>4. QED
  BY <1>1, <1>2, <1>3 DEF Ownership

\* The directory handed to enqueue() is read by the same thread.
LEMMA HandToStack ==
    ASSUME Owned, NEW t \in Thread, Handing(t), Read(t, node[t]), ~Handing(t)',
           UNCHANGED <<job, fds, reports, next>>,
           \A u \in Thread : u # t => pc'[u] = pc[u] /\ node'[u] = node[u]
    PROVE  Ownership'
<1> DEFINE n == node[t]
           f == [dir |-> n, entry |-> 0]
<1>1. n \in Node
  BY DEF Owned, Placed, Handing
<1>2. /\ Len(stack'[t]) = Len(stack[t]) + 1 /\ Len(stack[t]) \in Nat
      /\ stack'[t][Len(stack[t]) + 1] = f
      /\ \A i \in 1..Len(stack[t]) : stack'[t][i] = stack[t][i]
      /\ \A u \in Thread : u # t => stack'[u] = stack[u]
  BY <1>1, ReadStack, StackType DEF Owned
<1>3. \A u \in Thread : Handing(u)' => u # t /\ Handing(u) /\ node'[u] = node[u]
  BY DEF Handing
<1>4. \A u \in Thread : \A i \in 1..Len(stack'[u]) :
         \/ u = t /\ i = Len(stack[t]) + 1 /\ stack'[u][i] = f
         \/ i \in 1..Len(stack[u]) /\ stack'[u][i] = stack[u][i]
  BY <1>2
<1>5. f.dir = n /\ f.entry = 0
  OBVIOUS
<1> HIDE DEF f
<1>6. OwnersStarted'
  <2>1. Started(fds, reports, n, 0)
    BY DEF Owned, OwnersStarted
  <2>2. QED
    BY <1>3, <1>4, <1>5, <2>1 DEF Owned, OwnersStarted
<1>7. OwnersDistinct'
  <2>1. ASSUME NEW u \in Thread, NEW v \in Thread,
               NEW i \in 1..Len(stack'[u]), NEW j \in 1..Len(stack'[v]),
               stack'[u][i].dir = stack'[v][j].dir
        PROVE  u = v /\ i = j
    <3>1. CASE i \in 1..Len(stack[u]) /\ stack'[u][i] = stack[u][i]
      <4>1. CASE j \in 1..Len(stack[v]) /\ stack'[v][j] = stack[v][j]
        BY <2>1, <3>1, <4>1 DEF Owned, OwnersDistinct
      <4>2. CASE v = t /\ j = Len(stack[t]) + 1 /\ stack'[v][j] = f
        BY <2>1, <3>1, <4>2, <1>5 DEF Owned, OwnersDistinct
      <4>3. QED
        BY <4>1, <4>2, <1>4
    <3>2. CASE u = t /\ i = Len(stack[t]) + 1 /\ stack'[u][i] = f
      <4>1. CASE j \in 1..Len(stack[v]) /\ stack'[v][j] = stack[v][j]
        BY <2>1, <3>2, <4>1, <1>5 DEF Owned, OwnersDistinct
      <4>2. CASE v = t /\ j = Len(stack[t]) + 1 /\ stack'[v][j] = f
        BY <3>2, <4>2
      <4>3. QED
        BY <4>1, <4>2, <1>4
    <3>3. QED
      BY <3>1, <3>2, <1>4
  <2>2. ASSUME NEW u \in Thread, NEW v \in Thread, NEW i \in 1..Len(stack'[u]), Handing(v)'
        PROVE  stack'[u][i].dir # node'[v]
    <3>1. v # t /\ Handing(v) /\ node'[v] = node[v]
      BY <2>2, <1>3
    <3>2. CASE i \in 1..Len(stack[u]) /\ stack'[u][i] = stack[u][i]
      BY <3>1, <3>2 DEF Owned, OwnersDistinct
    <3>3. CASE u = t /\ i = Len(stack[t]) + 1 /\ stack'[u][i] = f
      BY <3>1, <3>3, <1>5 DEF Owned, OwnersDistinct
    <3>4. QED
      BY <3>2, <3>3, <1>4
  <2>3. ASSUME NEW u \in Thread, NEW i \in 1..Len(stack'[u])
        PROVE  stack'[u][i].dir # job
    <3>1. CASE i \in 1..Len(stack[u]) /\ stack'[u][i] = stack[u][i]
      BY <3>1 DEF Owned, OwnersDistinct
    <3>2. CASE u = t /\ i = Len(stack[t]) + 1 /\ stack'[u][i] = f
      BY <3>2, <1>5 DEF Owned, OwnersDistinct
    <3>3. QED
      BY <3>1, <3>2, <1>4
  <2>4. QED
    BY <1>3, <2>1, <2>2, <2>3 DEF Owned, OwnersDistinct
<1>8. ReportsOrdered'
  BY DEF Owned, ReportsOrdered
<1>9. QED
  BY <1>6, <1>7, <1>8 DEF Ownership

\* The directory handed to enqueue() becomes the job.
LEMMA HandToQueue ==
    ASSUME Owned, NEW t \in Thread, Handing(t), job = None, job' = node[t], ~Handing(t)',
           UNCHANGED <<stack, fds, reports, next>>,
           \A u \in Thread : u # t => pc'[u] = pc[u] /\ node'[u] = node[u]
    PROVE  Ownership'
<1>1. \A u \in Thread : Handing(u)' => u # t /\ Handing(u) /\ node'[u] = node[u]
  BY DEF Handing
<1>2. Started(fds, reports, node[t], 0)
  BY DEF Owned, OwnersStarted
<1>3. OwnersStarted'
  BY <1>1, <1>2 DEF Owned, OwnersStarted
<1>4. OwnersDistinct'
  BY <1>1 DEF Owned, OwnersDistinct
<1>5. ReportsOrdered'
  BY DEF Owned, ReportsOrdered
<1>6. QED
  BY <1>3, <1>4, <1>5 DEF Ownership

\* A worker moves the job to its stack.
LEMMA QueueToStack ==
    ASSUME Owned, NEW t \in Thread, TakeJob(t), ~Handing(t)
    PROVE  Ownership'
<1> DEFINE f == [dir |-> job, entry |-> 0]
<1>1. job \in Node /\ job' = None
  BY DEF Owned, TypeOK, TakeJob
<1>2. /\ Len(stack'[t]) = Len(stack[t]) + 1 /\ Len(stack[t]) \in Nat
      /\ stack'[t][Len(stack[t]) + 1] = f
      /\ \A i \in 1..Len(stack[t]) : stack'[t][i] = stack[t][i]
      /\ \A u \in Thread : u # t => stack'[u] = stack[u]
  BY <1>1, ReadStack, StackType DEF Owned, TakeJob
<1>3. \A u \in Thread : Handing(u)' => u # t /\ Handing(u) /\ node'[u] = node[u]
  BY DEF Handing, TakeJob, Goto, Owned, TypeOK
<1>4. \A u \in Thread : \A i \in 1..Len(stack'[u]) :
         \/ u = t /\ i = Len(stack[t]) + 1 /\ stack'[u][i] = f
         \/ i \in 1..Len(stack[u]) /\ stack'[u][i] = stack[u][i]
  BY <1>2
<1>5. f.dir = job /\ f.entry = 0
  OBVIOUS
<1> HIDE DEF f
<1>6. UNCHANGED <<fds, reports, next>>
  BY DEF TakeJob
<1>7. OwnersStarted'
  <2>1. Started(fds, reports, job, 0)
    BY DEF Owned, OwnersStarted, TakeJob
  <2>2. QED
    BY <1>1, <1>3, <1>4, <1>5, <1>6, <2>1 DEF Owned, OwnersStarted
<1>8. OwnersDistinct'
  <2>1. ASSUME NEW u \in Thread, NEW v \in Thread,
               NEW i \in 1..Len(stack'[u]), NEW j \in 1..Len(stack'[v]),
               stack'[u][i].dir = stack'[v][j].dir
        PROVE  u = v /\ i = j
    <3>1. CASE i \in 1..Len(stack[u]) /\ stack'[u][i] = stack[u][i]
      <4>1. CASE j \in 1..Len(stack[v]) /\ stack'[v][j] = stack[v][j]
        BY <2>1, <3>1, <4>1 DEF Owned, OwnersDistinct
      <4>2. CASE v = t /\ j = Len(stack[t]) + 1 /\ stack'[v][j] = f
        BY <2>1, <3>1, <4>2, <1>5 DEF Owned, OwnersDistinct
      <4>3. QED
        BY <4>1, <4>2, <1>4
    <3>2. CASE u = t /\ i = Len(stack[t]) + 1 /\ stack'[u][i] = f
      <4>1. CASE j \in 1..Len(stack[v]) /\ stack'[v][j] = stack[v][j]
        BY <2>1, <3>2, <4>1, <1>5 DEF Owned, OwnersDistinct
      <4>2. CASE v = t /\ j = Len(stack[t]) + 1 /\ stack'[v][j] = f
        BY <3>2, <4>2
      <4>3. QED
        BY <4>1, <4>2, <1>4
    <3>3. QED
      BY <3>1, <3>2, <1>4
  <2>2. ASSUME NEW u \in Thread, NEW v \in Thread, NEW i \in 1..Len(stack'[u]), Handing(v)'
        PROVE  stack'[u][i].dir # node'[v]
    <3>1. v # t /\ Handing(v) /\ node'[v] = node[v]
      BY <2>2, <1>3
    <3>2. CASE i \in 1..Len(stack[u]) /\ stack'[u][i] = stack[u][i]
      BY <3>1, <3>2 DEF Owned, OwnersDistinct
    <3>3. CASE u = t /\ i = Len(stack[t]) + 1 /\ stack'[u][i] = f
      BY <3>1, <3>3, <1>5 DEF Owned, OwnersDistinct
    <3>4. QED
      BY <3>2, <3>3, <1>4
  <2>3. ASSUME NEW u \in Thread, NEW i \in 1..Len(stack'[u])
        PROVE  stack'[u][i].dir # None
    <3>1. CASE i \in 1..Len(stack[u]) /\ stack'[u][i] = stack[u][i]
      BY <3>1, StackType, TreeAssumption DEF Owned
    <3>2. CASE u = t /\ i = Len(stack[t]) + 1 /\ stack'[u][i] = f
      BY <3>2, <1>1, <1>5, TreeAssumption
    <3>3. QED
      BY <3>1, <3>2, <1>4
  <2>4. ASSUME NEW u \in Thread, Handing(u)' PROVE node'[u] # None
    BY <2>4, <1>3, TreeAssumption DEF Owned, Placed, Handing
  <2>5. QED
    BY <1>1, <1>3, <2>1, <2>2, <2>3, <2>4 DEF Owned, OwnersDistinct
<1>9. ReportsOrdered'
  BY <1>6 DEF Owned, ReportsOrdered
<1>10. QED
  BY <1>7, <1>8, <1>9 DEF Ownership

\* Owners which stay where they are, or disappear, remain distinct.
LEMMA DistinctKept ==
    ASSUME OwnersDistinct, job' = job,
           \A u \in Thread : Handing(u)' => Handing(u) /\ node'[u] = node[u],
           \A u \in Thread : \A i \in 1..Len(stack'[u]) :
               i \in 1..Len(stack[u]) /\ stack'[u][i].dir = stack[u][i].dir
    PROVE  OwnersDistinct'
<1>1. ASSUME NEW u \in Thread, NEW v \in Thread,
             NEW i \in 1..Len(stack'[u]), NEW j \in 1..Len(stack'[v]),
             stack'[u][i].dir = stack'[v][j].dir
      PROVE  u = v /\ i = j
  <2>1. i \in 1..Len(stack[u]) /\ j \in 1..Len(stack[v]) /\ stack[u][i].dir = stack[v][j].dir
    BY <1>1
  <2>2. QED
    BY <2>1 DEF OwnersDistinct
<1>2. ASSUME NEW u \in Thread, NEW v \in Thread, NEW i \in 1..Len(stack'[u]), Handing(v)'
      PROVE  stack'[u][i].dir # node'[v]
  <2>1. i \in 1..Len(stack[u]) /\ stack'[u][i].dir = stack[u][i].dir
    BY <1>2
  <2>2. QED
    BY <1>2, <2>1 DEF OwnersDistinct
<1>3. ASSUME NEW u \in Thread, NEW i \in 1..Len(stack'[u])
      PROVE  stack'[u][i].dir # job'
  BY DEF OwnersDistinct
<1>4. QED
  BY <1>1, <1>2, <1>3 DEF OwnersDistinct

\* The listing of the directory is obtained: its entries come next.
LEMMA ListStep ==
    ASSUME Owned, NEW t \in Thread, ListDir(t)
    PROVE  Ownership'
<1> DEFINE f == [dir |-> Dir(t), entry |-> Position(t) + 1]
<1>1. stack[t] # <<>> /\ Position(t) = 0 /\ UNCHANGED <<busy, job, pc, node, next, fds, refs, reports>>
  BY DEF Owned, Placed, ListDir
<1>2. /\ \A u \in Thread : Len(stack'[u]) = Len(stack[u])
      /\ \A u \in Thread : \A i \in 1..Len(stack[u]) :
             stack'[u][i] = IF u = t /\ i = Top(t) THEN f ELSE stack[u][i]
  BY <1>1, AdvanceStack DEF Owned, ListDir
<1>3. f.dir = stack[t][Top(t)].dir /\ f.entry = 1 /\ stack[t][Top(t)].entry = 0
      /\ Top(t) \in 1..Len(stack[t])
  BY <1>1, TopFrame DEF Dir, Position, Owned
<1>4. \A u \in Thread : \A i \in 1..Len(stack'[u]) : stack'[u][i].dir = stack[u][i].dir
  BY <1>2, <1>3
<1>5. OwnersStarted'
  <2>1. ASSUME NEW u \in Thread, NEW i \in 1..Len(stack'[u])
        PROVE  Started(fds', reports', stack'[u][i].dir, stack'[u][i].entry)
    <3>1. Started(fds, reports, stack[u][i].dir, stack[u][i].entry)
      BY <1>2 DEF Owned, OwnersStarted
    <3>2. CASE u = t /\ i = Top(t)
      <4>1. Started(fds, reports, f.dir, 0)
        BY <3>1, <3>2, <1>3
      <4>2. \A j \in DOMAIN Entries[f.dir] : j \in Nat /\ j >= 1
        BY <1>3, <1>1, TopFrame, TreeAssumption DEF Owned
      <4>3. Started(fds, reports, f.dir, 1)
        BY <4>1, <4>2 DEF Started
      <4>4. QED
        BY <4>3, <3>2, <1>1, <1>2, <1>3
    <3>3. CASE ~(u = t /\ i = Top(t))
      BY <3>1, <3>3, <1>1, <1>2
    <3>4. QED
      BY <3>2, <3>3
  <2>2. QED
    BY <2>1, <1>1 DEF Owned, OwnersStarted, Handing
<1>6. OwnersDistinct'
  <2>1. \A u \in Thread : Handing(u)' => Handing(u) /\ node'[u] = node[u]
    BY <1>1 DEF Handing
  <2>2. \A u \in Thread : \A i \in 1..Len(stack'[u]) :
           i \in 1..Len(stack[u]) /\ stack'[u][i].dir = stack[u][i].dir
    BY <1>2, <1>4
  <2>3. QED
    BY <1>1, <2>1, <2>2, DistinctKept DEF Owned
<1>7. ReportsOrdered'
  BY <1>1 DEF Owned, ReportsOrdered
<1>8. QED
  BY <1>5, <1>6, <1>7 DEF Ownership

\* The innermost activation of t ends: its directory is closed.  R is what is
\* reported after the step; nothing is reported of other nodes.
LEMMA LeaveStep ==
    ASSUME Owned, NEW t \in Thread, pc[t] = "read", LeaveRead(t),
           UNCHANGED <<job, next>>,
           reports' \in [Node -> Seq({"File", "OpenError", "Directory", "OpenDirError"})],
           \A m \in Node : reports'[m] # <<>> <=> reports[m] # <<>>,
           \A m \in Node : m # Dir(t) => reports'[m] = reports[m]
    PROVE  Ownership'
<1> DEFINE d == Dir(t)
<1>1. stack[t] # <<>>
  BY DEF Owned, Placed
<1>2. /\ Len(stack[t]) \in Nat \ {0} /\ Top(t) = Len(stack[t]) /\ d = stack[t][Top(t)].dir
      /\ d \in Node
  BY <1>1, TopFrame DEF Owned, Dir
<1>3. /\ Len(stack'[t]) = Len(stack[t]) - 1
      /\ \A i \in 1..Len(stack[t]) - 1 : stack'[t][i] = stack[t][i]
      /\ \A u \in Thread : u # t => stack'[u] = stack[u]
  BY <1>1, PopStack DEF LeaveRead, Owned
<1>4. \A u \in Thread : \A i \in 1..Len(stack'[u]) :
         i \in 1..Len(stack[u]) /\ stack'[u][i] = stack[u][i] /\ ~(u = t /\ i = Top(t))
  <2> SUFFICES ASSUME NEW u \in Thread, NEW i \in 1..Len(stack'[u])
               PROVE  i \in 1..Len(stack[u]) /\ stack'[u][i] = stack[u][i] /\ ~(u = t /\ i = Top(t))
    OBVIOUS
  <2>1. CASE u = t
    <3>1. i \in 1..Len(stack[t]) - 1
      BY <1>3, <2>1
    <3>2. i \in 1..Len(stack[t]) /\ i # Top(t)
      BY <1>2, <3>1
    <3>3. stack'[t][i] = stack[t][i]
      BY <1>3, <3>1
    <3>4. QED
      BY <2>1, <3>2, <3>3
  <2>2. CASE u # t
    <3>1. stack'[u] = stack[u]
      BY <1>3, <2>2
    <3>2. QED
      BY <2>2, <3>1
  <2>3. QED
    BY <2>1, <2>2
<1>5. \A u \in Thread : Handing(u)' => Handing(u) /\ node'[u] = node[u]
  BY DEF LeaveRead, Goto, Handing, Owned, TypeOK
<1>6. fds' = fds \ {d}
  BY DEF LeaveRead
<1> HIDE DEF d
<1>7. ASSUME NEW m \in Node, NEW k \in Nat, m # d, Started(fds, reports, m, k)
      PROVE  Started(fds', reports', m, k)
  <2>1. \A j \in DOMAIN Entries[m] : Entries[m][j] \in Node
    BY TreeAssumption
  <2>2. QED
    BY <2>1, <1>6, <1>7 DEF Started, d
<1>8. OwnersStarted'
  <2>1. ASSUME NEW u \in Thread, NEW i \in 1..Len(stack'[u])
        PROVE  Started(fds', reports', stack'[u][i].dir, stack'[u][i].entry)
    <3>1. stack[u][i].dir # d
      BY <1>2, <1>4 DEF Owned, OwnersDistinct
    <3>2. stack[u][i].dir \in Node /\ stack[u][i].entry \in Nat
      BY <1>4, StackType DEF Owned
    <3>3. QED
      BY <3>1, <3>2, <1>4, <1>7 DEF Owned, OwnersStarted
  <2>2. ASSUME NEW u \in Thread, Handing(u)'
        PROVE  Started(fds', reports', node'[u], 0)
    <3>1. node[u] # d /\ node[u] \in Node
      BY <2>2, <1>2, <1>5 DEF Owned, OwnersDistinct, Placed, Handing
    <3>2. QED
      BY <3>1, <2>2, <1>5, <1>7 DEF Owned, OwnersStarted
  <2>3. ASSUME job' # None PROVE Started(fds', reports', job', 0)
    <3>1. job # d /\ job \in Node
      BY <2>3, <1>2 DEF Owned, OwnersDistinct, TypeOK
    <3>2. QED
      BY <3>1, <2>3, <1>7 DEF Owned, OwnersStarted
  <2>4. QED
    BY <2>1, <2>2, <2>3 DEF OwnersStarted
<1>9. OwnersDistinct'
  BY <1>4, <1>5, DistinctKept DEF Owned
<1>10. ReportsOrdered'
  <2>1. \A n \in fds' : reports'[n] # <<>>
    BY <1>6 DEF Owned, ReportsOrdered, TypeOK
  <2>2. \A p \in Node : \A j \in DOMAIN Entries[p] : Entries[p][j] \in Node
    BY TreeAssumption
  <2>3. \A k \in DOMAIN Inputs : Inputs[k] \in Node
    BY TreeAssumption
  <2>4. QED
    BY <2>1, <2>2, <2>3 DEF Owned, ReportsOrdered
<1>11. QED
  BY <1>8, <1>9, <1>10 DEF Ownership

-----------------------------------------------------------------------------
(* Steps which report a node *)

\* n is reported for the first time, as type.
FirstReport(n, type) ==
    /\ n \in Node
    /\ reports[n] = <<>>
    /\ reports'[n] = <<type>>
    /\ \A m \in Node : m # n => reports'[m] = reports[m]

LEMMA SingleReport ==
    /\ \A type : <<type>> # <<>>
    /\ \A type : Append(<<>>, type) = <<type>>
OBVIOUS

\* A directory without the node among its entries is not affected.
LEMMA OthersStarted ==
    ASSUME Owned, NEW n, NEW type, FirstReport(n, type), fds \subseteq fds',
           NEW m \in Node, NEW k \in Nat, Started(fds, reports, m, k),
           \A j \in DOMAIN Entries[m] : Entries[m][j] # n
    PROVE  Started(fds', reports', m, k)
<1>1. m # n
  BY DEF Owned, ReportsOrdered, Started, FirstReport
<1>2. \A j \in DOMAIN Entries[m] : Entries[m][j] \in Node
  BY TreeAssumption
<1>3. QED
  BY <1>1, <1>2 DEF Started, FirstReport

\* A directory found for the first time is ready to be listed.
LEMMA FoundStarted ==
    ASSUME Owned, NEW n, FirstReport(n, "Directory"), fds' = fds \cup {n},
           \A j \in DOMAIN Entries[n] : Entries[n][j] # n
    PROVE  Started(fds', reports', n, 0)
<1>1. \A j \in DOMAIN Entries[n] : j \in Nat /\ j >= 1 /\ Entries[n][j] \in Node
  BY TreeAssumption DEF FirstReport
<1>2. \A j \in DOMAIN Entries[n] : reports[Entries[n][j]] = <<>>
  BY DEF Owned, ReportsOrdered, FirstReport
<1>3. QED
  BY <1>1, <1>2 DEF Started, FirstReport

\* Nothing owns a node which was not reported.
LEMMA FoundUnowned ==
    ASSUME Owned, NEW n, NEW type, FirstReport(n, type)
    PROVE  /\ \A t \in Thread : \A i \in 1..Len(stack[t]) : stack[t][i].dir # n
           /\ \A t \in Thread : Handing(t) => node[t] # n
           /\ job # n
BY TreeAssumption DEF Owned, OwnersStarted, Started, ReportsOrdered, FirstReport

LEMMA FoundDistinct ==
    ASSUME Owned, NEW n, NEW type, FirstReport(n, type), job' = job, NEW t \in Thread,
           Handing(t)' => node'[t] = n,
           \A u \in Thread : u # t => (Handing(u)' <=> Handing(u)) /\ node'[u] = node[u],
           \A u \in Thread : \A i \in 1..Len(stack'[u]) :
               i \in 1..Len(stack[u]) /\ stack'[u][i].dir = stack[u][i].dir
    PROVE  OwnersDistinct'
<1>1. ASSUME NEW u \in Thread, NEW v \in Thread,
             NEW i \in 1..Len(stack'[u]), NEW j \in 1..Len(stack'[v]),
             stack'[u][i].dir = stack'[v][j].dir
      PROVE  u = v /\ i = j
  <2>1. i \in 1..Len(stack[u]) /\ j \in 1..Len(stack[v]) /\ stack[u][i].dir = stack[v][j].dir
    BY <1>1
  <2>2. QED
    BY <2>1 DEF Owned, OwnersDistinct
<1>2. ASSUME NEW u \in Thread, NEW v \in Thread, NEW i \in 1..Len(stack'[u]), Handing(v)'
      PROVE  stack'[u][i].dir # node'[v]
  <2>1. i \in 1..Len(stack[u]) /\ stack'[u][i].dir = stack[u][i].dir
    BY <1>2
  <2>2. QED
    BY <1>2, <2>1, FoundUnowned DEF Owned, OwnersDistinct
<1>3. ASSUME NEW u \in Thread, NEW i \in 1..Len(stack'[u])
      PROVE  stack'[u][i].dir # job'
  BY DEF Owned, OwnersDistinct
<1>4. ASSUME NEW u \in Thread, NEW v \in Thread, Handing(u)', Handing(v)', u # v
      PROVE  node'[u] # node'[v]
  BY <1>4, FoundUnowned DEF Owned, OwnersDistinct
<1>5. ASSUME NEW u \in Thread, Handing(u)' PROVE node'[u] # job'
  BY <1>5, FoundUnowned DEF Owned, OwnersDistinct
<1>6. QED
  BY <1>1, <1>2, <1>3, <1>4, <1>5 DEF OwnersDistinct

LEMMA WalkStep ==
    ASSUME Owned, Walk
    PROVE  Ownership' /\ W!Next
<1> DEFINE n == Inputs[next]
<1>1. /\ next \in DOMAIN Inputs /\ n \in Node /\ next \in Nat
      /\ \A k \in DOMAIN Inputs : k \in Nat /\ (Inputs[k] = n => k = next)
      /\ \A m \in Node : \A j \in DOMAIN Entries[m] : Entries[m][j] # n
  <2>1. next \in 1..Len(Inputs) /\ DOMAIN Inputs = 1..Len(Inputs)
    BY TreeAssumption DEF Walk, Owned, TypeOK
  <2>2. \A m \in Node : \A j \in DOMAIN Entries[m] : Entries[m][j] # n
    BY <2>1, TreeAssumption DEF IsEntry
  <2>3. QED
    BY <2>1, <2>2, TreeAssumption
<1>2. next' = next + 1 /\ UNCHANGED <<job, stack>> /\ Main \in Thread /\ ~Handing(Main)
  BY DEF Walk, Thread, Handing
<1>3. reports[n] = <<>> /\ W!Reachable(n)
  BY <1>1 DEF Owned, ReportsOrdered, W!Reachable
<1>4. \A u \in Thread : u # Main => (Handing(u)' <=> Handing(u)) /\ node'[u] = node[u]
  BY DEF Walk, Goto, Handing, Owned, TypeOK
<1> HIDE DEF n
<1>5. ASSUME NEW type, FirstReport(n, type), fds \subseteq fds', fds' \subseteq fds \cup {n},
             Handing(Main)' => node'[Main] = n /\ Started(fds', reports', n, 0)
      PROVE  Ownership'
  <2>1. OwnersStarted'
    <3>1. ASSUME NEW m \in Node, NEW k \in Nat, Started(fds, reports, m, k)
          PROVE  Started(fds', reports', m, k)
      BY <1>1, <1>5, <3>1, OthersStarted
    <3>2. ASSUME NEW u \in Thread, NEW i \in 1..Len(stack'[u])
          PROVE  Started(fds', reports', stack'[u][i].dir, stack'[u][i].entry)
      <4>1. i \in 1..Len(stack[u]) /\ stack'[u][i] = stack[u][i]
        BY <1>2
      <4>2. stack[u][i].dir \in Node /\ stack[u][i].entry \in Nat
        BY <4>1, StackType DEF Owned
      <4>3. Started(fds, reports, stack[u][i].dir, stack[u][i].entry)
        BY <4>1 DEF Owned, OwnersStarted
      <4>4. QED
        BY <4>1, <4>2, <4>3, <3>1
    <3>3. ASSUME NEW u \in Thread, Handing(u)'
          PROVE  Started(fds', reports', node'[u], 0)
      <4>1. CASE u = Main
        BY <4>1, <1>5, <3>3
      <4>2. CASE u # Main
        <5>1. Handing(u) /\ node'[u] = node[u] /\ node[u] \in Node
          BY <4>2, <3>3, <1>4 DEF Owned, Placed, Handing
        <5>2. Started(fds, reports, node[u], 0)
          BY <5>1 DEF Owned, OwnersStarted
        <5>3. QED
          BY <5>1, <5>2, <3>1
      <4>3. QED
        BY <4>1, <4>2
    <3>4. job' # None => Started(fds', reports', job', 0)
      BY <1>2, <3>1 DEF Owned, OwnersStarted, TypeOK
    <3>5. QED
      BY <3>2, <3>3, <3>4 DEF OwnersStarted
  <2>2. OwnersDistinct'
    BY <1>2, <1>4, <1>5, FoundDistinct
  <2>3. ReportsOrdered'
    <3>0. /\ n \in Node /\ reports'[n] # <<>>
          /\ \A m \in Node : m # n => reports'[m] = reports[m]
          /\ \A m \in fds : m \in Node
      BY <1>5, SingleReport DEF FirstReport, Owned, TypeOK
    <3>1. \A m \in fds' : reports'[m] # <<>>
      BY <3>0, <1>5 DEF Owned, ReportsOrdered
    <3>2. ASSUME NEW p \in Node, NEW j \in DOMAIN Entries[p], reports'[Entries[p][j]] # <<>>
          PROVE  reports'[p] # <<>>
      <4>1. Entries[p][j] \in Node /\ Entries[p][j] # n
        BY <1>1, TreeAssumption
      <4>2. reports[Entries[p][j]] # <<>>
        BY <3>0, <3>2, <4>1
      <4>3. reports[p] # <<>>
        BY <4>2 DEF Owned, ReportsOrdered
      <4>4. QED
        BY <3>0, <4>3
    <3>3. ASSUME NEW k \in DOMAIN Inputs
          PROVE  reports'[Inputs[k]] # <<>> <=> k < next'
      <4>1. Inputs[k] \in Node /\ k \in Nat /\ (reports[Inputs[k]] # <<>> <=> k < next)
        BY <1>1, TreeAssumption DEF Owned, ReportsOrdered
      <4>2. CASE k = next
        BY <4>1, <4>2, <3>0, <1>2 DEF n
      <4>3. CASE k # next
        <5>1. Inputs[k] # n
          BY <4>3, <1>1
        <5>2. reports'[Inputs[k]] = reports[Inputs[k]]
          BY <4>1, <5>1, <3>0
        <5>3. k < next' <=> k < next
          BY <4>1, <4>3, <1>1, <1>2
        <5>4. QED
          BY <4>1, <5>2, <5>3
      <4>4. QED
        BY <4>2, <4>3
    <3>4. QED
      BY <3>1, <3>2, <3>3 DEF ReportsOrdered
  <2>4. QED
    BY <2>1, <2>2, <2>3 DEF Ownership
<1>6. CASE NotDescended(n) /\ UNCHANGED <<pc, node>>
  <2>1. PICK type \in {"File", "OpenError", "Directory"} :
            reports' = [reports EXCEPT ![n] = Append(@, type)]
    BY <1>6 DEF NotDescended
  <2>2. reports' = [reports EXCEPT ![n] = <<type>>] /\ fds' = fds
    BY <1>3, <1>6, <2>1, SingleReport DEF NotDescended
  <2>3. FirstReport(n, type)
    BY <1>1, <1>3, <2>2 DEF FirstReport, Owned, TypeOK
  <2>4. ~Handing(Main)'
    BY <1>2, <1>6 DEF Handing
  <2>5. Ownership'
    BY <1>5, <2>2, <2>3, <2>4
  <2>6. W!Report(n)
    BY <1>3, <2>2 DEF W!Report, W!Unseen
  <2>7. QED
    BY <1>1, <2>5, <2>6 DEF W!Next
<1>7. CASE Descended(n) /\ node' = [node EXCEPT ![Main] = n] /\ Goto(Main, "enqueue")
  <2>1. reports' = [reports EXCEPT ![n] = <<"Directory">>] /\ fds' = fds \cup {n}
    BY <1>3, <1>7, SingleReport DEF Descended
  <2>2. FirstReport(n, "Directory")
    BY <1>1, <1>3, <2>1 DEF FirstReport, Owned, TypeOK
  <2>3. Started(fds', reports', n, 0)
    BY <1>1, <2>1, <2>2, FoundStarted
  <2>4. node'[Main] = n
    BY <1>2, <1>7 DEF Owned, TypeOK
  <2>5. Ownership'
    BY <1>5, <2>1, <2>2, <2>3, <2>4
  <2>6. W!Descend(n)
    BY <1>3, <2>1 DEF W!Descend, W!Unseen
  <2>7. QED
    BY <1>1, <2>5, <2>6 DEF W!Next
<1>8. QED
  BY <1>6, <1>7 DEF Walk, n

\* An entry of the directory t is reading is found.
LEMMA EntryStep ==
    ASSUME Owned, NEW t \in Thread, Entry(t)
    PROVE  Ownership' /\ W!Next
<1> DEFINE p == Dir(t)
           k == Position(t)
           n == Entries[p][k]
<1>1. /\ pc[t] = "read" /\ k \in DOMAIN Entries[p] /\ Advance(t)
      /\ UNCHANGED <<job, next>>
      /\ \/ Descended(n) /\ node' = [node EXCEPT ![t] = n] /\ Goto(t, "enqueue")
         \/ NotDescended(n) /\ UNCHANGED <<node, pc>>
         \/ reports' = [reports EXCEPT ![n] = Append(@, "File")] /\ UNCHANGED <<node, pc, fds, refs>>
  BY DEF Entry
<1>2. stack[t] # <<>>
  BY <1>1 DEF Owned, Placed
<1>3. /\ Top(t) \in 1..Len(stack[t]) /\ p \in Node /\ k \in Nat /\ n \in Node
      /\ p = stack[t][Top(t)].dir /\ k = stack[t][Top(t)].entry
      /\ \A j \in DOMAIN Entries[p] : j \in Nat /\ Entries[p][j] \in Node
  <2>1. Top(t) \in 1..Len(stack[t]) /\ p \in Node /\ k \in Nat
    BY <1>2, TopFrame DEF Owned
  <2>2. p = stack[t][Top(t)].dir /\ k = stack[t][Top(t)].entry
    BY DEF Dir, Position
  <2>3. \A j \in DOMAIN Entries[p] : j \in Nat /\ Entries[p][j] \in Node
    BY <2>1, TreeAssumption
  <2>4. n \in Node
    BY <1>1, <2>3
  <2>5. QED
    BY <2>1, <2>2, <2>3, <2>4
<1>4. /\ \A u \in Thread : Len(stack'[u]) = Len(stack[u])
      /\ \A u \in Thread : \A i \in 1..Len(stack[u]) :
             stack'[u][i] = IF u = t /\ i = Top(t) THEN [dir |-> p, entry |-> k + 1] ELSE stack[u][i]
  BY <1>1, <1>2, AdvanceStack DEF Owned
<1>5. /\ \A m \in Node : \A j \in DOMAIN Entries[m] : Entries[m][j] = n => m = p /\ j = k
      /\ \A i \in DOMAIN Inputs : Inputs[i] # n
  <2>1. \A m \in Node : \A j \in DOMAIN Entries[m] : Entries[m][j] = n => m = p /\ j = k
    BY <1>1, <1>3, TreeAssumption
  <2>2. \A i \in DOMAIN Inputs : Inputs[i] # n
    BY <1>1, <1>3, TreeAssumption DEF IsEntry
  <2>3. QED
    BY <2>1, <2>2
<1>6. Started(fds, reports, p, k)
  BY <1>3 DEF Owned, OwnersStarted
<1>7. /\ p \in fds /\ reports[n] = <<>> /\ reports[p] # <<>> /\ W!Reachable(n)
      /\ \A j \in DOMAIN Entries[p] : reports[Entries[p][j]] # <<>> <=> j < k
  <2>1. p \in fds /\ \A j \in DOMAIN Entries[p] : reports[Entries[p][j]] # <<>> <=> j < k
    BY <1>6 DEF Started
  <2>2. reports[n] = <<>>
    <3>1. reports[n] # <<>> <=> k < k
      BY <1>1, <2>1
    <3>2. ~(k < k)
      BY <1>3
    <3>3. QED
      BY <3>1, <3>2
  <2>3. reports[p] # <<>>
    BY <2>1 DEF Owned, ReportsOrdered
  <2>4. W!Reachable(n)
    BY <1>1, <2>1 DEF W!Reachable
  <2>5. QED
    BY <2>1, <2>2, <2>3, <2>4
<1>8. \A j \in DOMAIN Entries[n] : Entries[n][j] # n
  BY <1>3, <1>5, <1>7
<1>9. \A u \in Thread : u # t => (Handing(u)' <=> Handing(u)) /\ node'[u] = node[u]
  BY <1>1 DEF Goto, Handing, Owned, TypeOK
<1>10. ~Handing(t)
  BY <1>1 DEF Handing
<1> HIDE DEF n, p, k
<1>11. ASSUME NEW type, FirstReport(n, type), fds \subseteq fds', fds' \subseteq fds \cup {n},
              Handing(t)' => node'[t] = n /\ Started(fds', reports', n, 0)
       PROVE  Ownership'
  <2>0. /\ n \in Node /\ reports'[n] # <<>>
        /\ \A m \in Node : m # n => reports'[m] = reports[m]
        /\ \A m \in fds : m \in Node
    BY <1>11, SingleReport DEF FirstReport, Owned, TypeOK
  <2>1. OwnersStarted'
    <3>1. ASSUME NEW m \in Node, m # p, NEW q \in Nat, Started(fds, reports, m, q)
          PROVE  Started(fds', reports', m, q)
      BY <1>5, <1>11, <3>1, OthersStarted
    <3>2. Started(fds', reports', p, k + 1)
      <4>1. ASSUME NEW j \in DOMAIN Entries[p]
            PROVE  reports'[Entries[p][j]] # <<>> <=> j < k + 1
        <5>1. CASE j = k
          BY <5>1, <2>0, <1>3 DEF n
        <5>2. CASE j # k
          <6>1. Entries[p][j] # n /\ Entries[p][j] \in Node /\ j \in Nat
            BY <5>2, <1>3, <1>5
          <6>2. reports'[Entries[p][j]] = reports[Entries[p][j]]
            BY <6>1, <2>0
          <6>3. j < k + 1 <=> j < k
            BY <5>2, <6>1, <1>3
          <6>4. QED
            BY <6>2, <6>3, <1>7
        <5>3. QED
          BY <5>1, <5>2
      <4>2. p \in fds' /\ k + 1 # 0
        BY <1>3, <1>7, <1>11
      <4>3. QED
        BY <4>1, <4>2 DEF Started
    <3>3. ASSUME NEW u \in Thread, NEW i \in 1..Len(stack'[u])
          PROVE  Started(fds', reports', stack'[u][i].dir, stack'[u][i].entry)
      <4>1. i \in 1..Len(stack[u])
        BY <1>4
      <4>2. CASE u = t /\ i = Top(t)
        <5>1. stack'[u][i] = [dir |-> p, entry |-> k + 1]
          BY <4>1, <4>2, <1>4
        <5>2. QED
          BY <5>1, <3>2
      <4>3. CASE ~(u = t /\ i = Top(t))
        <5>1. stack'[u][i] = stack[u][i]
          BY <4>1, <4>3, <1>4
        <5>2. stack[u][i].dir # p
          BY <4>1, <4>3, <1>3 DEF Owned, OwnersDistinct
        <5>3. stack[u][i].dir \in Node /\ stack[u][i].entry \in Nat
          BY <4>1, StackType DEF Owned
        <5>4. Started(fds, reports, stack[u][i].dir, stack[u][i].entry)
          BY <4>1 DEF Owned, OwnersStarted
        <5>5. QED
          BY <5>1, <5>2, <5>3, <5>4, <3>1
      <4>4. QED
        BY <4>2, <4>3
    <3>4. ASSUME NEW u \in Thread, Handing(u)'
          PROVE  Started(fds', reports', node'[u], 0)
      <4>1. CASE u = t
        BY <4>1, <1>11, <3>4
      <4>2. CASE u # t
        <5>1. Handing(u) /\ node'[u] = node[u] /\ node[u] \in Node
          BY <4>2, <3>4, <1>9 DEF Owned, Placed, Handing
        <5>2. node[u] # p
          BY <5>1, <1>3 DEF Owned, OwnersDistinct
        <5>3. Started(fds, reports, node[u], 0)
          BY <5>1 DEF Owned, OwnersStarted
        <5>4. QED
          BY <5>1, <5>2, <5>3, <3>1
      <4>3. QED
        BY <4>1, <4>2
    <3>5. ASSUME job' # None PROVE Started(fds', reports', job', 0)
      <4>1. job' = job /\ job \in Node /\ job # p
        BY <3>5, <1>1, <1>3 DEF Owned, OwnersDistinct, TypeOK
      <4>2. Started(fds, reports, job, 0)
        BY <3>5, <4>1 DEF Owned, OwnersStarted
      <4>3. QED
        BY <4>1, <4>2, <3>1
    <3>6. QED
      BY <3>3, <3>4, <3>5 DEF OwnersStarted
  <2>2. OwnersDistinct'
    <3>1. \A u \in Thread : \A i \in 1..Len(stack'[u]) :
             i \in 1..Len(stack[u]) /\ stack'[u][i].dir = stack[u][i].dir
      BY <1>3, <1>4
    <3>2. QED
      BY <3>1, <1>1, <1>9, <1>11, FoundDistinct
  <2>3. ReportsOrdered'
    <3>1. \A m \in fds' : reports'[m] # <<>>
      BY <2>0, <1>11 DEF Owned, ReportsOrdered
    <3>2. ASSUME NEW m \in Node, NEW j \in DOMAIN Entries[m], reports'[Entries[m][j]] # <<>>
          PROVE  reports'[m] # <<>>
      <4>1. Entries[m][j] \in Node
        BY TreeAssumption
      <4>2. CASE Entries[m][j] = n
        <5>1. m = p
          BY <4>2, <1>5
        <5>2. QED
          BY <5>1, <2>0, <1>7
      <4>3. CASE Entries[m][j] # n
        <5>1. reports[m] # <<>>
          BY <4>1, <4>3, <3>2, <2>0 DEF Owned, ReportsOrdered
        <5>2. QED
          BY <5>1, <2>0
      <4>4. QED
        BY <4>2, <4>3
    <3>3. ASSUME NEW i \in DOMAIN Inputs
          PROVE  reports'[Inputs[i]] # <<>> <=> i < next'
      <4>1. Inputs[i] \in Node /\ Inputs[i] # n
        BY <1>5, TreeAssumption
      <4>2. QED
        BY <4>1, <2>0, <1>1 DEF Owned, ReportsOrdered
    <3>4. QED
      BY <3>1, <3>2, <3>3 DEF ReportsOrdered
  <2>4. QED
    BY <2>1, <2>2, <2>3 DEF Ownership
<1>12. ASSUME NEW type \in {"File", "OpenError", "Directory"},
              reports' = [reports EXCEPT ![n] = Append(@, type)], fds' = fds, pc' = pc
       PROVE  Ownership' /\ W!Next
  <2>1. reports' = [reports EXCEPT ![n] = <<type>>]
    BY <1>7, <1>12, SingleReport
  <2>2. FirstReport(n, type)
    BY <1>3, <1>7, <2>1 DEF FirstReport, Owned, TypeOK
  <2>3. ~Handing(t)'
    BY <1>10, <1>12 DEF Handing
  <2>4. Ownership'
    BY <1>11, <1>12, <2>2, <2>3
  <2>5. W!Report(n)
    BY <1>7, <1>12, <2>1 DEF W!Report, W!Unseen
  <2>6. QED
    BY <1>3, <2>4, <2>5 DEF W!Next
<1>13. CASE Descended(n) /\ node' = [node EXCEPT ![t] = n] /\ Goto(t, "enqueue")
  <2>1. reports' = [reports EXCEPT ![n] = <<"Directory">>] /\ fds' = fds \cup {n}
    BY <1>7, <1>13, SingleReport DEF Descended
  <2>2. FirstReport(n, "Directory")
    BY <1>3, <1>7, <2>1 DEF FirstReport, Owned, TypeOK
  <2>3. Started(fds', reports', n, 0)
    BY <1>8, <2>1, <2>2, FoundStarted
  <2>4. node'[t] = n
    BY <1>13 DEF Owned, TypeOK
  <2>5. Ownership'
    BY <1>11, <2>1, <2>2, <2>3, <2>4
  <2>6. W!Descend(n)
    BY <1>7, <2>1 DEF W!Descend, W!Unseen
  <2>7. QED
    BY <1>3, <2>5, <2>6 DEF W!Next
<1>14. CASE NotDescended(n) /\ UNCHANGED <<node, pc>>
  BY <1>12, <1>14 DEF NotDescended
<1>15. CASE reports' = [reports EXCEPT ![n] = Append(@, "File")] /\ UNCHANGED <<node, pc, fds, refs>>
  BY <1>12, <1>15
<1>16. QED
  BY <1>1, <1>13, <1>14, <1>15 DEF n, p, k

-----------------------------------------------------------------------------
(* Steps which close a directory *)

\* The listing of the directory fails.
LEMMA FailStep ==
    ASSUME Owned, NEW t \in Thread, ListDirFails(t)
    PROVE  Ownership' /\ W!Next
<1> DEFINE d == Dir(t)
<1>1. /\ pc[t] = "read" /\ Position(t) = 0 /\ LeaveRead(t) /\ UNCHANGED <<job, next>>
      /\ reports' = [reports EXCEPT ![d] = Append(@, "OpenDirError")]
  BY DEF ListDirFails
<1>2. stack[t] # <<>>
  BY <1>1 DEF Owned, Placed
<1>3. d \in Node /\ Top(t) \in 1..Len(stack[t])
  BY <1>2, TopFrame DEF Owned
<1>4. Started(fds, reports, d, 0)
  BY <1>1, <1>3 DEF Owned, OwnersStarted, Dir, Position
<1>5. d \in fds /\ reports[d] = <<"Directory">>
  BY <1>4 DEF Started
<1>6. ASSUME NEW j \in DOMAIN Entries[d] PROVE W!Unseen(Entries[d][j])
  <2>1. j \in Nat /\ j >= 1
    BY <1>3, TreeAssumption
  <2>2. QED
    BY <1>4, <2>1 DEF Started, W!Unseen
<1> HIDE DEF d
<1>7. \A s \in Seq({"File", "OpenError", "Directory", "OpenDirError"}) :
          Append(s, "OpenDirError") # <<>>
  BY AppendProperties
<1>8. reports \in [Node -> Seq({"File", "OpenError", "Directory", "OpenDirError"})]
  BY DEF Owned, TypeOK
<1>9. /\ reports' \in [Node -> Seq({"File", "OpenError", "Directory", "OpenDirError"})]
      /\ \A m \in Node : m # d => reports'[m] = reports[m]
      /\ reports'[d] # <<>> /\ reports[d] # <<>>
  BY <1>1, <1>3, <1>5, <1>7, <1>8
<1>10. Ownership'
  <2>1. \A m \in Node : reports'[m] # <<>> <=> reports[m] # <<>>
    BY <1>9
  <2>2. QED
    BY <1>1, <1>9, <2>1, LeaveStep DEF d
<1>11. W!Fail(d)
  BY <1>1, <1>5, <1>6 DEF W!Fail, LeaveRead, d
<1>12. QED
  BY <1>3, <1>10, <1>11 DEF W!Next

\* The listing of the directory is at its end.
LEMMA EndStep ==
    ASSUME Owned, NEW t \in Thread, EndRead(t)
    PROVE  Ownership' /\ W!Next
<1> DEFINE d == Dir(t)
           k == Position(t)
<1>1. /\ pc[t] = "read" /\ k > Len(Entries[d]) /\ LeaveRead(t) /\ UNCHANGED <<job, next, reports>>
  BY DEF EndRead
<1>2. stack[t] # <<>>
  BY <1>1 DEF Owned, Placed
<1>3. d \in Node /\ k \in Nat /\ Top(t) \in 1..Len(stack[t])
  BY <1>2, TopFrame DEF Owned
<1>4. Started(fds, reports, d, k)
  BY <1>3 DEF Owned, OwnersStarted, Dir, Position
<1>5. ASSUME NEW j \in DOMAIN Entries[d] PROVE ~W!Unseen(Entries[d][j])
  <2>1. j < k
    BY <1>1, <1>3, TreeAssumption
  <2>2. QED
    BY <1>4, <2>1 DEF Started, W!Unseen
<1>6. Ownership'
  BY <1>1, LeaveStep DEF Owned, TypeOK
<1>7. W!Close(d)
  BY <1>1, <1>4, <1>5 DEF W!Close, LeaveRead, Started
<1>8. QED
  BY <1>3, <1>6, <1>7 DEF W!Next

-----------------------------------------------------------------------------
(* The refinement *)

LEMMA OwnedStep == Owned /\ [Next]_vars => Ownership' /\ [W!Next]_<<reports, fds>>
<1> SUFFICES ASSUME Owned, [Next]_vars
             PROVE  Ownership' /\ [W!Next]_<<reports, fds>>
  OBVIOUS
<1> USE DEF Thread
<1>pc. pc \in [Thread -> Labels] /\ Main \in Thread
  BY DEF Owned, TypeOK
<1>1. ASSUME Walk PROVE Ownership' /\ W!Next
  BY <1>1, WalkStep
<1>2. ASSUME MainWorker \/ Join
      PROVE  Ownership' /\ UNCHANGED <<reports, fds>>
  <2>1. /\ UNCHANGED <<stack, job, fds, reports, next, node>>
        /\ Goto(Main, "loop") \/ Goto(Main, "joined")
    BY <1>2 DEF MainWorker, Join
  <2>2. \A u \in Thread : Handing(u)' => Handing(u)
    BY <2>1, <1>pc DEF Goto, Handing
  <2>3. QED
    BY <2>1, <2>2, SamePlaces
<1>3. ASSUME NEW t \in Thread, Enqueue(t) PROVE Ownership' /\ UNCHANGED <<reports, fds>>
  <2>1. CASE Read(t, node[t]) /\ node' = [node EXCEPT ![t] = None] /\ Goto(t, "read")
    <3>1. Handing(t) /\ ~Handing(t)'
      BY <2>1, <1>3, <1>pc DEF Enqueue, Handing, Goto
    <3>2. \A u \in Thread : u # t => pc'[u] = pc[u] /\ node'[u] = node[u]
      BY <2>1, <1>pc DEF Goto, Owned, TypeOK
    <3>3. QED
      BY <2>1, <3>1, <3>2, <1>3, HandToStack DEF Enqueue
  <2>2. CASE Goto(t, "lock") /\ UNCHANGED <<stack, node>>
    <3>1. \A u \in Thread : Handing(u)' => Handing(u)
      BY <2>2, <1>3, <1>pc DEF Enqueue, Handing, Goto
    <3>2. QED
      BY <2>2, <3>1, <1>3, SamePlaces DEF Enqueue
  <2>3. QED
    BY <2>1, <2>2, <1>3 DEF Enqueue
<1>4. ASSUME NEW t \in Thread, Post(t) PROVE Ownership' /\ UNCHANGED <<reports, fds>>
  <2>1. Handing(t) /\ node' = [node EXCEPT ![t] = None] /\ UNCHANGED <<fds, reports, next>>
    BY <1>4 DEF Post, Handing
  <2>2. CASE job = None /\ job' = node[t] /\ Goto(t, "notify") /\ UNCHANGED stack
    <3>1. ~Handing(t)' /\ \A u \in Thread : u # t => pc'[u] = pc[u] /\ node'[u] = node[u]
      BY <2>1, <2>2, <1>pc DEF Goto, Handing, Owned, TypeOK
    <3>2. QED
      BY <2>1, <2>2, <3>1, HandToQueue
  <2>3. CASE Read(t, node[t]) /\ Goto(t, "read") /\ UNCHANGED <<busy, job>>
    <3>1. ~Handing(t)' /\ \A u \in Thread : u # t => pc'[u] = pc[u] /\ node'[u] = node[u]
      BY <2>1, <2>3, <1>pc DEF Goto, Handing, Owned, TypeOK
    <3>2. QED
      BY <2>1, <2>3, <3>1, HandToStack
  <2>4. QED
    BY <2>2, <2>3, <1>4 DEF Post
<1>5. ASSUME NEW t \in Thread, NotifyOne(t) PROVE Ownership' /\ UNCHANGED <<reports, fds>>
  <2>1. \A u \in Thread : Handing(u)' => Handing(u)
    BY <1>5, <1>pc DEF NotifyOne, Goto, Return, Handing
  <2>2. QED
    BY <2>1, <1>5, SamePlaces DEF NotifyOne
<1>6. ASSUME NEW t \in Thread, ListDir(t) PROVE Ownership' /\ UNCHANGED <<reports, fds>>
  BY <1>6, ListStep DEF ListDir
<1>7. ASSUME NEW t \in Thread, ListDirFails(t) \/ Entry(t) \/ EndRead(t)
      PROVE  Ownership' /\ W!Next
  BY <1>7, FailStep, EntryStep, EndStep
<1>8. ASSUME NEW t \in Thread, Decref(t) \/ Loop(t) \/ JobDone(t) \/ SpuriousWake(t)
      PROVE  Ownership' /\ UNCHANGED <<reports, fds>>
  <2>1. UNCHANGED <<stack, job, fds, reports, next>> /\ ~Handing(t)
        /\ \E l \in Labels \ {"enqueue", "lock"} : Goto(t, l)
    BY <1>8 DEF Decref, Loop, JobDone, SpuriousWake, Handing, Labels, Return
  <2>2. \A u \in Thread : u # t => node'[u] = node[u]
    BY <1>8 DEF Decref, Loop, JobDone, SpuriousWake, Owned, TypeOK
  <2>3. \A u \in Thread : Handing(u)' => Handing(u) /\ u # t
    BY <2>1, <1>pc DEF Goto, Handing
  <2>4. QED
    BY <2>1, <2>2, <2>3, SamePlaces
<1>9. ASSUME NEW t \in Thread, pc[t] \in {"check", "recheck"}, TakeJob(t) \/ WaitForJob(t)
      PROVE  Ownership' /\ UNCHANGED <<reports, fds>>
  <2>1. ~Handing(t)
    BY <1>9 DEF Handing
  <2>2. CASE TakeJob(t)
    BY <2>1, <2>2, QueueToStack DEF TakeJob
  <2>3. CASE WaitForJob(t)
    <3>1. \A u \in Thread : Handing(u)' => Handing(u)
      BY <2>3, <1>pc DEF WaitForJob, Goto, Handing
    <3>2. QED
      BY <2>3, <3>1, SamePlaces DEF WaitForJob
  <2>4. QED
    BY <2>2, <2>3, <1>9
<1>10. ASSUME NEW t \in Thread, Check(t) PROVE Ownership' /\ UNCHANGED <<reports, fds>>
  BY <1>9, <1>10 DEF Check
<1>11. ASSUME NEW t \in Thread, Wake(t) PROVE Ownership' /\ UNCHANGED <<reports, fds>>
  <2>1. \A u \in Thread : Handing(u)' => Handing(u)
    BY <1>11, <1>pc DEF Wake, Goto, Handing
  <2>2. QED
    BY <2>1, <1>11, SamePlaces DEF Wake
<1>15. ASSUME NEW t \in Thread, Recheck(t) PROVE Ownership' /\ UNCHANGED <<reports, fds>>
  BY <1>9, <1>15 DEF Recheck
<1>12. ASSUME NEW t \in Thread, Finish(t) PROVE Ownership' /\ UNCHANGED <<reports, fds>>
  <2>1. \A u \in Thread : Handing(u)' => Handing(u)
    BY <1>12 DEF Finish, Handing
  <2>2. QED
    BY <2>1, <1>12, SamePlaces DEF Finish
<1>13. CASE UNCHANGED vars
  BY <1>13, SamePlaces DEF vars, Handing
<1>14. QED
  BY <1>1, <1>2, <1>3, <1>4, <1>5, <1>6, <1>7, <1>8, <1>10, <1>11, <1>12, <1>13, <1>15
     DEF Next, Step

LEMMA OwnedInit == Init => Owned
<1> SUFFICES ASSUME Init PROVE Ownership
  BY TypeInit DEF Owned, Ownership
<1>1. \A t \in Thread : stack[t] = <<>> /\ ~Handing(t)
  BY DEF Init, Handing
<1>2. job = None /\ fds = {} /\ next = 1 /\ \A n \in Node : reports[n] = <<>>
  BY DEF Init
<1>3. OwnersStarted
  BY <1>1, <1>2 DEF OwnersStarted
<1>4. OwnersDistinct
  BY <1>1 DEF OwnersDistinct
<1>5. ReportsOrdered
  BY <1>2, TreeAssumption DEF ReportsOrdered
<1>6. QED
  BY <1>3, <1>4, <1>5 DEF Ownership

\* The pool of threads does what a walk promises, with any number of threads,
\* any tree and every order in which they find, post and read the directories.
THEOREM Implements == Spec => WalkSpec
<1>1. Owned /\ [Next]_vars => Owned'
  BY TypeStep, OwnedStep DEF Owned, Ownership
<1>2. Owned /\ [Next]_vars => [W!Next]_(W!walk)
  BY OwnedStep DEF W!walk
<1>3. Init => W!Init
  BY DEF Init, W!Init
<1>4. QED
  BY OwnedInit, <1>1, <1>2, <1>3, PTL DEF Spec, WalkSpec, W!Spec

-----------------------------------------------------------------------------
(***************************************************************************)
(* Every open directory has exactly one owner: an activation of read(), a  *)
(* thread on its way into enqueue(), or the queue; and the reference       *)
(* counts of nodes are exact.                                              *)
(***************************************************************************)

\* The places that own a directory
OnStack(n) == \E t \in Thread : \E i \in 1..Len(stack[t]) : stack[t][i].dir = n

InHand(n) == \E t \in Thread : Handing(t) /\ node[t] = n

Held(n) == OnStack(n) \/ InHand(n) \/ job = n

NoneForgotten == \A n \in fds : Held(n)

\* Other threads have nothing in their hands.
HandsEmpty == \A t \in Thread : Handing(t) \/ pc[t] = "drop" \/ node[t] = None

Kept == Owned /\ NoneForgotten /\ HandsEmpty

\* What an activation of read() has, it keeps.
StacksKeep ==
    \A t \in Thread : \A i \in 1..Len(stack[t]) :
        i \in 1..Len(stack'[t]) /\ stack'[t][i].dir = stack[t][i].dir

\* Some place owns n after the step.
HeldNext(n) ==
    \/ \E t \in Thread : \E i \in 1..Len(stack'[t]) : stack'[t][i].dir = n
    \/ \E t \in Thread : Handing(t)' /\ node'[t] = n
    \/ job' = n

\* The place an owner hands its directory to owns it.
LEMMA HandedOver ==
    ASSUME NoneForgotten, StacksKeep,
           \A t \in Thread : Handing(t) => HeldNext(node[t]),
           job # None => HeldNext(job), None \notin fds,
           \A n \in fds' : n \in fds \/ HeldNext(n)
    PROVE  NoneForgotten'
<1> SUFFICES ASSUME NEW n \in fds, n \in fds' PROVE HeldNext(n)
  BY DEF NoneForgotten, Held, OnStack, InHand, HeldNext
<1>1. CASE OnStack(n)
  BY <1>1 DEF OnStack, StacksKeep, HeldNext
<1>2. CASE InHand(n)
  BY <1>2 DEF InHand
<1>3. CASE job = n
  BY <1>3
<1>4. QED
  BY <1>1, <1>2, <1>3 DEF NoneForgotten, Held

\* A step of one thread, after which its hands are empty or hold a directory.
LEMMA HandsStep ==
    ASSUME Kept, NEW t \in Thread, NEW l, Goto(t, l),
           \A u \in Thread : u # t => node'[u] = node[u],
           l \in {"enqueue", "lock", "drop"} \/ node'[t] = None
    PROVE  HandsEmpty'
BY DEF Kept, Owned, TypeOK, HandsEmpty, Handing, Goto

\* A step which moves no directory.
LEMMA NothingMoved ==
    ASSUME Kept, UNCHANGED <<job, fds>>, StacksKeep,
           \A t \in Thread : Handing(t) => Handing(t)' /\ node'[t] = node[t]
    PROVE  NoneForgotten'
<1>1. None \notin fds
  BY TreeAssumption DEF Kept, Owned, TypeOK
<1>2. \A t \in Thread : Handing(t) => HeldNext(node[t])
  BY DEF HeldNext
<1>3. QED
  BY <1>1, <1>2, HandedOver DEF Kept, HeldNext

LEMMA SameStacks == ASSUME UNCHANGED stack PROVE StacksKeep
BY DEF StacksKeep

\* The directory n gets on the stack of t.
LEMMA ReadHolds ==
    ASSUME TypeOK, NEW t \in Thread, NEW n \in Node, Read(t, n)
    PROVE  StacksKeep /\ HeldNext(n)
<1>1. /\ Len(stack[t]) \in Nat /\ Len(stack'[t]) = Len(stack[t]) + 1
      /\ stack'[t][Len(stack[t]) + 1].dir = n
      /\ \A i \in 1..Len(stack[t]) : stack'[t][i] = stack[t][i]
      /\ \A u \in Thread : u # t => stack'[u] = stack[u]
  <2>1. /\ Len(stack'[t]) = Len(stack[t]) + 1
        /\ stack'[t][Len(stack[t]) + 1] = [dir |-> n, entry |-> 0]
        /\ \A i \in 1..Len(stack[t]) : stack'[t][i] = stack[t][i]
        /\ \A u \in Thread : u # t => stack'[u] = stack[u]
    BY ReadStack
  <2>2. Len(stack[t]) \in Nat
    BY StackType
  <2>3. [dir |-> n, entry |-> 0].dir = n
    OBVIOUS
  <2>4. QED
    BY ONLY <2>1, <2>2, <2>3
<1>2. StacksKeep
  BY <1>1 DEF StacksKeep
<1>3. Len(stack[t]) + 1 \in 1..Len(stack'[t])
  BY <1>1
<1>4. QED
  BY <1>1, <1>2, <1>3 DEF HeldNext

LEMMA AdvanceKeeps ==
    ASSUME TypeOK, NEW t \in Thread, stack[t] # <<>>, Advance(t)
    PROVE  StacksKeep
<1>1. /\ Len(stack'[t]) = Len(stack[t])
      /\ \A i \in 1..Len(stack[t]) : stack'[t][i].dir = stack[t][i].dir
      /\ \A u \in Thread : u # t => stack'[u] = stack[u]
  <2>1. /\ Len(stack'[t]) = Len(stack[t])
        /\ \A i \in 1..Len(stack[t]) :
               stack'[t][i] = IF i = Top(t) THEN [dir |-> Dir(t), entry |-> Position(t) + 1]
                              ELSE stack[t][i]
        /\ \A u \in Thread : u # t => stack'[u] = stack[u]
    BY AdvanceStack
  <2>2. ASSUME NEW i \in 1..Len(stack[t]) PROVE stack'[t][i].dir = stack[t][i].dir
    <3>1. CASE i = Top(t)
      BY <2>1, <3>1 DEF Dir
    <3>2. CASE i # Top(t)
      BY <2>1, <3>2
    <3>3. QED
      BY <3>1, <3>2
  <2>3. QED
    BY <2>1, <2>2
<1>2. QED
  BY <1>1 DEF StacksKeep

\* The thread t, whose hands were empty, gets the directory it has opened.
LEMMA OpenedInHand ==
    ASSUME Kept, NEW t \in Thread, ~Handing(t), NEW n \in Node,
           Goto(t, "enqueue"), node' = [node EXCEPT ![t] = n],
           fds' = fds \cup {n}, UNCHANGED job, StacksKeep
    PROVE  NoneForgotten' /\ HandsEmpty'
<1>1. /\ node'[t] = n /\ Handing(t)'
      /\ \A u \in Thread : u # t => node'[u] = node[u] /\ (Handing(u)' <=> Handing(u))
  BY DEF Kept, Owned, TypeOK, Goto, Handing
<1>2. HeldNext(n)
  BY <1>1 DEF HeldNext
<1>3. \A u \in Thread : Handing(u) => HeldNext(node[u])
  BY <1>1 DEF HeldNext
<1>4. job # None => HeldNext(job)
  BY DEF HeldNext
<1>5. None \notin fds
  BY TreeAssumption DEF Kept, Owned, TypeOK
<1>6. NoneForgotten'
  BY <1>2, <1>3, <1>4, <1>5, HandedOver DEF Kept
<1>7. QED
  BY <1>1, <1>6, HandsStep

\* The directory in the hand of t is handed over, by enqueue().
LEMMA HandedBy ==
    ASSUME Kept, NEW t \in Thread, Handing(t), NEW l, Goto(t, l),
           node' = [node EXCEPT ![t] = None], UNCHANGED fds,
           StacksKeep, HeldNext(node[t]), job # None => job' = job
    PROVE  NoneForgotten' /\ HandsEmpty'
<1>1. /\ node'[t] = None
      /\ \A u \in Thread : u # t => node'[u] = node[u] /\ (Handing(u)' <=> Handing(u))
  BY DEF Kept, Owned, TypeOK, Goto, Handing
<1>2. \A u \in Thread : Handing(u) => HeldNext(node[u])
  BY <1>1 DEF HeldNext
<1>3. job # None => HeldNext(job)
  BY DEF HeldNext
<1>4. None \notin fds
  BY TreeAssumption DEF Kept, Owned, TypeOK
<1>5. NoneForgotten'
  BY <1>2, <1>3, <1>4, HandedOver DEF Kept
<1>6. QED
  BY <1>1, <1>5, HandsStep

\* The directory on top of the stack of t is closed.
LEMMA ClosedByOwner ==
    ASSUME Kept, NEW t \in Thread, pc[t] = "read", LeaveRead(t), UNCHANGED job
    PROVE  NoneForgotten' /\ HandsEmpty'
<1> DEFINE d == Dir(t)
<1>1. /\ stack[t] # <<>> /\ TypeOK
      /\ \A u \in Thread : node[u] \in Node \cup {None}
  BY DEF Kept, Owned, Placed, TypeOK
<1>2. /\ Len(stack[t]) \in Nat \ {0} /\ Top(t) = Len(stack[t]) /\ d = stack[t][Top(t)].dir
      /\ fds' = fds \ {d} /\ stack' = [stack EXCEPT ![t] = SubSeq(@, 1, Top(t) - 1)]
      /\ node' = [node EXCEPT ![t] = d] /\ Goto(t, "drop")
  BY <1>1, TopFrame DEF LeaveRead, Dir
<1> HIDE DEF d
<1>3. /\ Len(stack'[t]) = Len(stack[t]) - 1
      /\ \A i \in 1..Len(stack[t]) - 1 : stack'[t][i] = stack[t][i]
      /\ \A u \in Thread : u # t => stack'[u] = stack[u]
  BY <1>1, <1>2, PopStack
<1>4. \A u \in Thread : u # t => node'[u] = node[u] /\ (Handing(u)' <=> Handing(u))
  BY <1>2 DEF Kept, Owned, TypeOK, Goto, Handing
<1>5. ~Handing(t)
  BY DEF Handing
<1>6. ASSUME NEW n \in fds, n # d PROVE HeldNext(n)
  <2>1. CASE OnStack(n)
    <3>0. PICK u \in Thread : \E i \in 1..Len(stack[u]) : stack[u][i].dir = n
      BY <2>1 DEF OnStack
    <3>1. PICK i \in 1..Len(stack[u]) : stack[u][i].dir = n
      BY <3>0
    <3>2. i \in 1..Len(stack'[u]) /\ stack'[u][i] = stack[u][i]
      BY <3>1, <1>2, <1>3, <1>6
    <3>3. QED
      BY <3>1, <3>2 DEF HeldNext
  <2>2. CASE InHand(n)
    BY <2>2, <1>4, <1>5 DEF HeldNext, InHand
  <2>3. CASE job = n
    BY <2>3 DEF HeldNext
  <2>4. QED
    BY <2>1, <2>2, <2>3 DEF Kept, NoneForgotten, Held
<1>7. NoneForgotten'
  BY <1>2, <1>6 DEF NoneForgotten, Held, OnStack, InHand, HeldNext
<1>8. QED
  BY <1>2, <1>4, <1>7, HandsStep

-----------------------------------------------------------------------------
LEMMA KeptStep == Kept /\ [Next]_vars => NoneForgotten' /\ HandsEmpty'
<1> SUFFICES ASSUME Kept, [Next]_vars
             PROVE  NoneForgotten' /\ HandsEmpty'
  OBVIOUS
<1>type. TypeOK /\ Placed /\ Main \in Thread /\ pc \in [Thread -> Labels]
         /\ node \in [Thread -> Node \cup {None}]
  BY DEF Kept, Owned, TypeOK, Thread
<1>1. ASSUME Walk PROVE NoneForgotten' /\ HandsEmpty'
  <2> DEFINE n == Inputs[next]
  <2>1. pc[Main] = "walk" /\ n \in Node /\ UNCHANGED <<stack, job>> /\ ~Handing(Main)
    BY <1>1, <1>type, TreeAssumption DEF Walk, Handing, TypeOK
  <2>2. CASE NotDescended(n) /\ UNCHANGED <<pc, node>>
    BY <2>1, <2>2, SameStacks, NothingMoved DEF NotDescended, Handing, Kept, HandsEmpty
  <2>3. CASE Descended(n) /\ node' = [node EXCEPT ![Main] = n] /\ Goto(Main, "enqueue")
    BY <2>1, <2>3, <1>type, SameStacks, OpenedInHand DEF Descended
  <2>4. QED
    BY <1>1, <2>2, <2>3 DEF Walk
<1>2. ASSUME NEW t \in Thread, ~Handing(t), UNCHANGED <<stack, job, fds>>,
             NEW l \in Labels, Goto(t, l),
             \A u \in Thread : u # t => node'[u] = node[u],
             l = "drop" \/ node'[t] = None
      PROVE  NoneForgotten' /\ HandsEmpty'
  <2>1. \A u \in Thread : Handing(u) => Handing(u)' /\ node'[u] = node[u]
    BY <1>2, <1>type DEF Goto, Handing
  <2>2. QED
    BY <1>2, <2>1, SameStacks, NothingMoved, HandsStep
<1>3. ASSUME MainWorker \/ Join PROVE NoneForgotten' /\ HandsEmpty'
  <2>1. /\ ~Handing(Main) /\ node[Main] = None /\ UNCHANGED <<stack, job, fds, node>>
        /\ Goto(Main, "loop") \/ Goto(Main, "joined")
    BY <1>3, <1>type DEF MainWorker, Join, Handing, Kept, HandsEmpty
  <2>2. QED
    BY <2>1, <1>2, <1>type DEF Labels
<1>4. ASSUME NEW t \in Thread, Enqueue(t) PROVE NoneForgotten' /\ HandsEmpty'
  <2>1. Handing(t) /\ node[t] \in Node /\ UNCHANGED <<job, fds>>
    BY <1>4, <1>type DEF Enqueue, Handing, Placed
  <2>2. CASE Read(t, node[t]) /\ node' = [node EXCEPT ![t] = None] /\ Goto(t, "read")
    BY <2>1, <2>2, <1>type, ReadHolds, HandedBy
  <2>3. CASE Goto(t, "lock") /\ UNCHANGED <<stack, node>>
    <3>1. \A u \in Thread : Handing(u) => Handing(u)' /\ node'[u] = node[u]
      BY <2>3, <1>type DEF Goto, Handing
    <3>2. QED
      BY <2>1, <2>3, <3>1, SameStacks, NothingMoved, HandsStep
  <2>4. QED
    BY <1>4, <2>2, <2>3 DEF Enqueue
<1>5. ASSUME NEW t \in Thread, Post(t) PROVE NoneForgotten' /\ HandsEmpty'
  <2>1. /\ Handing(t) /\ node[t] \in Node /\ UNCHANGED fds
        /\ node' = [node EXCEPT ![t] = None]
    BY <1>5, <1>type DEF Post, Handing, Placed
  <2>2. CASE job = None /\ job' = node[t] /\ Goto(t, "notify") /\ UNCHANGED stack
    BY <2>1, <2>2, SameStacks, HandedBy DEF HeldNext
  <2>3. CASE Read(t, node[t]) /\ Goto(t, "read") /\ UNCHANGED <<busy, job>>
    BY <2>1, <2>3, <1>type, ReadHolds, HandedBy
  <2>4. QED
    BY <1>5, <2>2, <2>3 DEF Post
<1>6. ASSUME NEW t \in Thread, NotifyOne(t) PROVE NoneForgotten' /\ HandsEmpty'
  <2>1. UNCHANGED <<stack, job, node, fds>> /\ pc[t] = "notify"
    BY <1>6 DEF NotifyOne
  <2>2. \A u \in Thread : u # t => pc'[u] = pc[u] \/ (pc[u] = "wait" /\ pc'[u] = "woken")
    BY <1>6, <1>type DEF NotifyOne, Goto
  <2>3. \A u \in Thread : Handing(u) => Handing(u)' /\ pc'[u] # "drop"
    BY <2>1, <2>2 DEF Handing
  <2>4. \A u \in Thread : pc[u] = "drop" => pc'[u] = "drop"
    BY <2>1, <2>2
  <2>5. HandsEmpty'
    BY <2>1, <2>3, <2>4 DEF Kept, HandsEmpty
  <2>6. QED
    BY <2>1, <2>3, <2>5, SameStacks, NothingMoved
<1>7. ASSUME NEW t \in Thread, ListDir(t) PROVE NoneForgotten' /\ HandsEmpty'
  <2>1. stack[t] # <<>> /\ Advance(t) /\ UNCHANGED <<job, pc, node, fds>>
    BY <1>7, <1>type DEF ListDir, Placed
  <2>2. StacksKeep
    BY <2>1, <1>type, AdvanceKeeps
  <2>3. QED
    BY <2>1, <2>2, NothingMoved DEF Handing, Kept, HandsEmpty
<1>8. ASSUME NEW t \in Thread, Entry(t) PROVE NoneForgotten' /\ HandsEmpty'
  <2> DEFINE n == Entries[Dir(t)][Position(t)]
  <2>1. /\ pc[t] = "read" /\ stack[t] # <<>> /\ Advance(t) /\ UNCHANGED job
        /\ Position(t) \in DOMAIN Entries[Dir(t)]
    BY <1>8, <1>type DEF Entry, Placed
  <2>2. StacksKeep /\ ~Handing(t) /\ n \in Node
    <3>1. Dir(t) \in Node
      BY <2>1, <1>type, TopFrame
    <3>2. Entries[Dir(t)] \in Seq(Node)
      BY <3>1, TreeAssumption
    <3>3. QED
      BY <2>1, <3>2, <1>type, AdvanceKeeps, ElementOfSeq DEF Handing
  <2> HIDE DEF n
  <2>3. CASE Descended(n) /\ node' = [node EXCEPT ![t] = n] /\ Goto(t, "enqueue")
    BY <2>1, <2>2, <2>3, OpenedInHand DEF Descended
  <2>4. CASE UNCHANGED <<node, pc, fds>>
    BY <2>1, <2>2, <2>4, NothingMoved DEF Handing, Kept, HandsEmpty
  <2>5. QED
    BY <1>8, <2>3, <2>4 DEF Entry, NotDescended, n
<1>9. ASSUME NEW t \in Thread, ListDirFails(t) \/ EndRead(t)
      PROVE  NoneForgotten' /\ HandsEmpty'
  BY <1>9, ClosedByOwner DEF ListDirFails, EndRead
<1>10. ASSUME NEW t \in Thread, Decref(t) PROVE NoneForgotten' /\ HandsEmpty'
  <2> DEFINE last == refs[node[t]] = 1 /\ Parent(node[t]) # None
             l == IF last THEN "drop" ELSE Return(t, stack[t])
  <2>1. /\ ~Handing(t) /\ UNCHANGED <<stack, job, fds>> /\ Goto(t, l)
        /\ node' = [node EXCEPT ![t] = IF last THEN Parent(node[t]) ELSE None]
    BY <1>10 DEF Decref, Handing
  <2>2. l \in Labels
    BY DEF Labels, Return
  <2>3. \A u \in Thread : u # t => node'[u] = node[u]
    BY <2>1, <1>type
  <2>4. l = "drop" \/ node'[t] = None
    BY <2>1, <1>type
  <2> HIDE DEF l
  <2>5. QED
    BY <2>1, <2>2, <2>3, <2>4, <1>2
<1>11. ASSUME NEW t \in Thread, Loop(t) \/ JobDone(t) \/ SpuriousWake(t)
       PROVE  NoneForgotten' /\ HandsEmpty'
  <2>1. /\ ~Handing(t) /\ node[t] = None /\ UNCHANGED <<stack, job, fds, node>>
        /\ \E l \in Labels : Goto(t, l)
    BY <1>11 DEF Loop, JobDone, SpuriousWake, Handing, Labels, Kept, HandsEmpty
  <2>2. QED
    BY <2>1, <1>2
<1>12. ASSUME NEW t \in Thread, pc[t] \in {"check", "recheck"}, TakeJob(t) \/ WaitForJob(t)
       PROVE  NoneForgotten' /\ HandsEmpty'
  <2>1. ~Handing(t) /\ node[t] = None /\ UNCHANGED <<node, fds>>
    BY <1>12 DEF Handing, Kept, HandsEmpty, TakeJob, WaitForJob
  <2>2. CASE TakeJob(t)
    <3>1. job \in Node /\ Read(t, job) /\ Goto(t, "read")
      BY <2>2, <1>type DEF TakeJob, TypeOK
    <3>2. StacksKeep /\ HeldNext(job)
      BY <3>1, <1>type, ReadHolds
    <3>3. \A u \in Thread : Handing(u) => Handing(u)'
      BY <2>1, <3>1, <1>type DEF Goto, Handing
    <3>4. \A u \in Thread : Handing(u) => HeldNext(node[u])
      BY <2>1, <3>3 DEF HeldNext
    <3>5. None \notin fds
      BY <1>type, TreeAssumption DEF TypeOK
    <3>6. NoneForgotten'
      BY <2>1, <3>2, <3>4, <3>5, HandedOver DEF Kept
    <3>7. QED
      BY <2>1, <3>1, <3>6, HandsStep
  <2>3. CASE WaitForJob(t)
    BY <2>1, <2>3, <1>2 DEF WaitForJob, Labels
  <2>4. QED
    BY <1>12, <2>2, <2>3
<1>13. ASSUME NEW t \in Thread, Check(t) PROVE NoneForgotten' /\ HandsEmpty'
  BY <1>12, <1>13 DEF Check
<1>14. ASSUME NEW t \in Thread, Wake(t) PROVE NoneForgotten' /\ HandsEmpty'
  <2>1. ~Handing(t) /\ node[t] = None
    BY <1>14 DEF Wake, Handing, Kept, HandsEmpty
  <2>2. QED
    BY <2>1, <1>14, <1>2 DEF Wake, Labels
<1>18. ASSUME NEW t \in Thread, Recheck(t) PROVE NoneForgotten' /\ HandsEmpty'
  BY <1>12, <1>18 DEF Recheck
<1>15. ASSUME NEW t \in Thread, Finish(t) PROVE NoneForgotten' /\ HandsEmpty'
  <2>1. UNCHANGED <<stack, job, node, fds>>
    BY <1>15 DEF Finish
  <2>2. \A u \in Thread : /\ Handing(u) => Handing(u)'
                          /\ pc[u] = "drop" => pc'[u] = "drop"
    BY <1>15 DEF Finish, Handing
  <2>3. HandsEmpty'
    BY <2>1, <2>2 DEF Kept, HandsEmpty
  <2>4. QED
    BY <2>1, <2>2, <2>3, SameStacks, NothingMoved
<1>16. CASE UNCHANGED vars
  BY <1>16, SameStacks, NothingMoved DEF vars, Handing, Kept, HandsEmpty
<1>17. QED
  BY <1>1, <1>3, <1>4, <1>5, <1>6, <1>7, <1>8, <1>9, <1>10, <1>11, <1>13, <1>14, <1>15, <1>16,
     <1>18
     DEF Next, Step

LEMMA KeptInit == Init => Kept
<1> SUFFICES ASSUME Init PROVE NoneForgotten /\ HandsEmpty
  BY OwnedInit DEF Kept
<1>1. QED
  BY DEF Init, NoneForgotten, HandsEmpty

-----------------------------------------------------------------------------
(* One place, counted *)

\* The holders of n are its places.
LEMMA HoldersPlaces ==
    ASSUME Kept, NEW n \in Node, NEW h
    PROVE  h \in Holders(n) <=>
             \/ \E t \in Thread : \E i \in 1..Len(stack[t]) :
                    stack[t][i].dir = n /\ h = <<t, i>>
             \/ \E t \in Thread : Handing(t) /\ node[t] = n /\ h = <<t, 0>>
             \/ job = n /\ h = <<None, 0>>
<1> DEFINE A == UNION {{<<t, i>> : i \in {i \in DOMAIN stack[t] : stack[t][i].dir = n}} :
                       t \in Thread}
           B == {<<t, 0>> : t \in {t \in Thread : node[t] = n /\ pc[t] # "drop"}}
           C == IF job = n THEN {<<None, 0>>} ELSE {}
<1>1. \A t \in Thread : node[t] = n /\ pc[t] # "drop" <=> Handing(t) /\ node[t] = n
  BY TreeAssumption DEF Kept, HandsEmpty, Handing
<1>2. \A t \in Thread : DOMAIN stack[t] = 1..Len(stack[t])
  BY DEF Kept, Owned, TypeOK
<1>3. h \in A <=> \E t \in Thread : \E i \in 1..Len(stack[t]) : stack[t][i].dir = n /\ h = <<t, i>>
  BY <1>2
<1>4. h \in B <=> \E t \in Thread : Handing(t) /\ node[t] = n /\ h = <<t, 0>>
  BY <1>1
<1>5. h \in C <=> job = n /\ h = <<None, 0>>
  OBVIOUS
<1>6. Holders(n) = A \cup B \cup C
  BY Zenon DEF Holders
<1> HIDE DEF A, B, C
<1>7. QED
  BY <1>3, <1>4, <1>5, <1>6

LEMMA OneHolder == ASSUME Kept PROVE DescriptorOwned
<1> SUFFICES ASSUME NEW n \in Node
             PROVE  Cardinality(Holders(n)) = IF n \in fds THEN 1 ELSE 0
  BY DEF DescriptorOwned
<1>1. ASSUME NEW h, h \in Holders(n) PROVE n \in fds
  <2>1. /\ \A t \in Thread : \A i \in 1..Len(stack[t]) : stack[t][i].dir \in fds
        /\ \A t \in Thread : Handing(t) => node[t] \in fds
        /\ job # None => job \in fds
    BY DEF Kept, Owned, OwnersStarted, Started
  <2>2. n # None
    BY TreeAssumption
  <2>3. \/ \E t \in Thread : \E i \in 1..Len(stack[t]) : stack[t][i].dir = n
        \/ \E t \in Thread : Handing(t) /\ node[t] = n
        \/ job = n
    BY <1>1, HoldersPlaces
  <2>4. QED
    BY <2>1, <2>2, <2>3
<1>2. ASSUME NEW g, NEW h, g \in Holders(n), h \in Holders(n) PROVE g = h
  <2> DEFINE S(x) == \E t \in Thread : \E i \in 1..Len(stack[t]) :
                         stack[t][i].dir = n /\ x = <<t, i>>
             H(x) == \E t \in Thread : Handing(t) /\ node[t] = n /\ x = <<t, 0>>
             J(x) == job = n /\ x = <<None, 0>>
  <2>1. (S(g) \/ H(g) \/ J(g)) /\ (S(h) \/ H(h) \/ J(h))
    BY <1>2, HoldersPlaces
  <2>2. OwnersDistinct
    BY DEF Kept, Owned
  <2>3. S(g) => ~H(h) /\ ~J(h)
    BY <2>2 DEF OwnersDistinct
  <2>4. S(h) => ~H(g) /\ ~J(g)
    BY <2>2 DEF OwnersDistinct
  <2>5. H(g) => ~J(h)
    BY <2>2 DEF OwnersDistinct
  <2>6. H(h) => ~J(g)
    BY <2>2 DEF OwnersDistinct
  <2>7. S(g) /\ S(h) => g = h
    BY <2>2 DEF OwnersDistinct
  <2>8. H(g) /\ H(h) => g = h
    BY <2>2 DEF OwnersDistinct
  <2>9. J(g) /\ J(h) => g = h
    OBVIOUS
  <2> HIDE DEF S, H, J
  <2>10. QED
    BY <2>1, <2>3, <2>4, <2>5, <2>6, <2>7, <2>8, <2>9
<1>3. CASE n \in fds
  <2>1. Held(n)
    BY <1>3 DEF Kept, NoneForgotten
  <2>2. \E h : h \in Holders(n)
    <3>1. ASSUME NEW t \in Thread, NEW i \in 1..Len(stack[t]), stack[t][i].dir = n
          PROVE  <<t, i>> \in Holders(n)
      BY <3>1, HoldersPlaces
    <3>2. ASSUME NEW t \in Thread, Handing(t), node[t] = n
          PROVE  <<t, 0>> \in Holders(n)
      BY <3>2, HoldersPlaces
    <3>3. ASSUME job = n PROVE <<None, 0>> \in Holders(n)
      BY <3>3, HoldersPlaces
    <3>4. QED
      BY <2>1, <3>1, <3>2, <3>3 DEF Held, OnStack, InHand
  <2>3. PICK h : Holders(n) = {h}
    BY <2>2, <1>2
  <2>4. QED
    BY <2>3, <1>3, FS_Singleton
<1>4. CASE n \notin fds
  <2>1. Holders(n) = {}
    BY <1>1, <1>4
  <2>2. QED
    BY <2>1, <1>4, FS_EmptySet
<1>5. QED
  BY <1>3, <1>4

\* Every open descriptor has one owner, with any number of threads and any
\* tree: no directory is read twice, lost on its way, or left open.
THEOREM DescriptorsOwned == Spec => []DescriptorOwned
<1>1. Kept /\ [Next]_vars => Kept'
  BY TypeStep, OwnedStep, KeptStep DEF Kept, Owned, Ownership
<1>2. QED
  BY KeptInit, OneHolder, <1>1, PTL DEF Spec

-----------------------------------------------------------------------------
(* The reference counts *)

\* decref() calls under way, and the children that exist
Droppers(n) == {t \in Thread : pc[t] = "drop" /\ node[t] = n}

Children(n) == {c \in Node : refs[c] > 0 /\ Parent(c) = n}

Opened(n) == IF n \in fds THEN 1 ELSE 0

Counts ==
    \A n \in Node :
        refs[n] = Opened(n) + Cardinality(Droppers(n)) + Cardinality(Children(n))

\* Only what was reported has references.
Discovered == \A n \in Node : refs[n] > 0 => reports[n] # <<>>

Counted == Kept /\ Counts /\ Discovered

EntriesOf(n) == {Entries[n][i] : i \in DOMAIN Entries[n]}

LEMMA EntriesFinite == ASSUME NEW n \in Node PROVE IsFiniteSet(EntriesOf(n))
<1>1. Entries[n] \in Seq(Node)
  BY TreeAssumption
<1>2. DOMAIN Entries[n] = 1..Len(Entries[n]) /\ Len(Entries[n]) \in Nat
  BY <1>1
<1>3. IsFiniteSet(DOMAIN Entries[n])
  BY <1>2, FS_Interval
<1>4. Entries[n] \in [DOMAIN Entries[n] -> EntriesOf(n)]
  BY <1>1 DEF EntriesOf
<1>5. \A c \in EntriesOf(n) : \E i \in DOMAIN Entries[n] : Entries[n][i] = c
  BY DEF EntriesOf
<1>6. Entries[n] \in Surjection(DOMAIN Entries[n], EntriesOf(n))
  BY <1>4, <1>5 DEF Surjection
<1>7. QED
  BY <1>3, <1>6, FS_Surjection

\* A parent is a node that lists the child.
LEMMA ParentLists ==
    ASSUME NEW c \in Node, NEW n \in Node
    PROVE  /\ Parent(c) = n => c \in EntriesOf(n)
           /\ c \in EntriesOf(n) => Parent(c) = n
<1>1. Parent(c) = n => IsEntry(c, n)
  <2>1. CASE \E p \in Node : IsEntry(c, p)
    BY <2>1 DEF Parent
  <2>2. CASE ~(\E p \in Node : IsEntry(c, p))
    BY <2>2, TreeAssumption DEF Parent
  <2>3. QED
    BY <2>1, <2>2
<1>2. IsEntry(c, n) <=> c \in EntriesOf(n)
  BY DEF IsEntry, EntriesOf
<1>3. \A p \in Node : IsEntry(c, p) /\ IsEntry(c, n) => p = n
  BY TreeAssumption DEF IsEntry
<1>4. IsEntry(c, n) => Parent(c) = n
  BY <1>3 DEF Parent
<1>5. QED
  BY <1>1, <1>2, <1>4

LEMMA CountsFinite ==
    ASSUME NEW n \in Node
    PROVE  /\ IsFiniteSet(Droppers(n)) /\ Cardinality(Droppers(n)) \in Nat
           /\ IsFiniteSet(Children(n)) /\ Cardinality(Children(n)) \in Nat
           /\ Droppers(n) = {} <=> Cardinality(Droppers(n)) = 0
           /\ Children(n) = {} <=> Cardinality(Children(n)) = 0
<1>1. Droppers(n) \in SUBSET Thread /\ Children(n) \in SUBSET EntriesOf(n)
  BY ParentLists DEF Droppers, Children
<1>2. IsFiniteSet(Droppers(n)) /\ IsFiniteSet(Children(n))
  BY <1>1, ThreadFinite, EntriesFinite, FS_Subset
<1>3. QED
  BY <1>2, FS_CardinalityType, FS_EmptySet

\* A step which changes no references.
LEMMA SameCounts ==
    ASSUME Counts, UNCHANGED <<refs, fds>>,
           \A t \in Thread : /\ pc'[t] = "drop" <=> pc[t] = "drop"
                             /\ pc[t] = "drop" => node'[t] = node[t]
    PROVE  Counts'
<1> SUFFICES ASSUME NEW n \in Node
             PROVE  refs'[n] = Opened(n)' + Cardinality(Droppers(n)') + Cardinality(Children(n)')
  BY DEF Counts
<1>1. Droppers(n)' = Droppers(n) /\ Children(n)' = Children(n) /\ Opened(n)' = Opened(n)
  BY DEF Droppers, Children, Opened
<1>2. QED
  BY <1>1 DEF Counts

\* What nobody has seen has neither references nor children.
LEMMA UnseenFree ==
    ASSUME Counted, NEW n \in Node, reports[n] = <<>>
    PROVE  /\ refs[n] = 0 /\ n \notin fds
           /\ Droppers(n) = {} /\ Children(n) = {}
<1>1. n \notin fds
  BY DEF Counted, Kept, Owned, ReportsOrdered
<1>2. refs[n] \in Int /\ ~(refs[n] > 0)
  BY DEF Counted, Discovered, Kept, Owned, TypeOK
<1>3. refs[n] = Cardinality(Droppers(n)) + Cardinality(Children(n))
  BY <1>1, CountsFinite DEF Counted, Counts, Opened
<1>4. Cardinality(Droppers(n)) = 0 /\ Cardinality(Children(n)) = 0 /\ refs[n] = 0
  BY <1>2, <1>3, CountsFinite
<1>5. QED
  BY <1>1, <1>4, CountsFinite

\* A new node, of an open parent or of none.
LEMMA MadeCounts ==
    ASSUME Counted, NEW n \in Node, reports[n] = <<>>, Descended(n),
           Parent(n) \in fds \cup {None},
           \A t \in Thread : /\ pc'[t] = "drop" <=> pc[t] = "drop"
                             /\ pc[t] = "drop" => node'[t] = node[t]
    PROVE  Counts'
<1> DEFINE p == Parent(n)
<1>1. /\ refs[n] = 0 /\ n \notin fds /\ Droppers(n) = {} /\ Children(n) = {}
      /\ refs \in [Node -> Int] /\ fds \subseteq Node
  BY UnseenFree DEF Counted, Kept, Owned, TypeOK
<1>2. /\ fds' = fds \cup {n}
      /\ refs' = [m \in Node |-> IF m = n THEN 1 ELSE IF m = p THEN refs[m] + 1 ELSE refs[m]]
  BY DEF Descended, MakeNode
<1>3. p \in Node => p \in fds /\ p # n /\ refs[p] > 0
  <2>1. p \in Node => p \in fds /\ p # n
    BY <1>1, TreeAssumption
  <2>2. p \in fds => refs[p] = 1 + Cardinality(Droppers(p)) + Cardinality(Children(p))
    BY <1>1 DEF Counted, Counts, Opened
  <2>3. QED
    BY <2>1, <2>2, CountsFinite
<1> HIDE DEF p
<1>4. \A m \in Node : refs'[m] > 0 <=> refs[m] > 0 \/ m = n
  BY <1>1, <1>2, <1>3
<1> SUFFICES ASSUME NEW m \in Node
             PROVE  refs'[m] = Opened(m)' + Cardinality(Droppers(m)') + Cardinality(Children(m)')
  BY DEF Counts
<1>5. Droppers(m)' = Droppers(m)
  BY DEF Droppers
<1>6. Children(m)' = IF m = p THEN Children(m) \cup {n} ELSE Children(m)
  BY <1>4 DEF Children, p
<1>7. /\ refs[m] = Opened(m) + Cardinality(Droppers(m)) + Cardinality(Children(m))
      /\ Cardinality(Droppers(m)) \in Nat /\ Cardinality(Children(m)) \in Nat
      /\ IsFiniteSet(Children(m)) /\ n \notin Children(m)
      /\ Opened(m) \in Nat
  <2>1. n \notin Children(m)
    BY <1>1 DEF Children
  <2>2. Opened(m) \in Nat
    BY DEF Opened
  <2>3. refs[m] = Opened(m) + Cardinality(Droppers(m)) + Cardinality(Children(m))
    BY DEF Counted, Counts
  <2>4. QED
    BY <2>1, <2>2, <2>3, CountsFinite
<1>8. CASE m = n
  <2>1. Cardinality(Droppers(m)) = 0 /\ Cardinality(Children(m)) = 0
    BY <1>1, <1>8, CountsFinite
  <2>2. m # p
    BY <1>3, <1>8
  <2>3. Opened(m)' = 1 /\ refs'[m] = 1
    BY <1>2, <1>8 DEF Opened
  <2>4. QED
    BY <2>1, <2>2, <2>3, <1>5, <1>6
<1>9. CASE m = p
  <2>1. Cardinality(Children(m) \cup {n}) = Cardinality(Children(m)) + 1
    BY <1>7, FS_AddElement
  <2>2. Opened(m)' = Opened(m) /\ refs'[m] = refs[m] + 1
    BY <1>2, <1>3, <1>9 DEF Opened
  <2>3. QED
    BY <2>1, <2>2, <1>5, <1>6, <1>7, <1>9
<1>10. CASE m # n /\ m # p
  <2>1. Opened(m)' = Opened(m) /\ refs'[m] = refs[m]
    BY <1>2, <1>10 DEF Opened
  <2>2. QED
    BY <2>1, <1>5, <1>6, <1>7, <1>10
<1>11. QED
  BY <1>8, <1>9, <1>10

\* The reference of a directory that is closed is dropped next.
LEMMA ClosedCounts ==
    ASSUME Counted, NEW t \in Thread, pc[t] = "read", LeaveRead(t), UNCHANGED refs
    PROVE  Counts'
<1> DEFINE d == Dir(t)
<1>1. stack[t] # <<>> /\ TypeOK /\ Owned
  BY DEF Counted, Kept, Owned, Placed
<1>2. d \in Node /\ d \in fds
  <2>1. d \in Node /\ Top(t) \in 1..Len(stack[t])
    BY <1>1, TopFrame
  <2>2. QED
    BY <1>1, <2>1 DEF Owned, OwnersStarted, Started, Dir
<1>3. fds' = fds \ {d} /\ node' = [node EXCEPT ![t] = d] /\ Goto(t, "drop")
  BY DEF LeaveRead
<1>4. /\ node'[t] = d /\ pc'[t] = "drop"
      /\ \A u \in Thread : u # t => node'[u] = node[u] /\ pc'[u] = pc[u]
  BY <1>1, <1>3 DEF Goto, TypeOK
<1> HIDE DEF d
<1> SUFFICES ASSUME NEW m \in Node
             PROVE  refs'[m] = Opened(m)' + Cardinality(Droppers(m)') + Cardinality(Children(m)')
  BY DEF Counts
<1>5. Children(m)' = Children(m) /\ t \notin Droppers(m)
  BY DEF Children, Droppers
<1>6. Droppers(m)' = IF m = d THEN Droppers(m) \cup {t} ELSE Droppers(m)
  BY <1>4, <1>5 DEF Droppers
<1>7. /\ refs[m] = Opened(m) + Cardinality(Droppers(m)) + Cardinality(Children(m))
      /\ Cardinality(Droppers(m)) \in Nat /\ Cardinality(Children(m)) \in Nat
      /\ IsFiniteSet(Droppers(m)) /\ Opened(m) \in Nat
  BY CountsFinite DEF Counted, Counts, Opened
<1>8. CASE m = d
  <2>1. Cardinality(Droppers(m) \cup {t}) = Cardinality(Droppers(m)) + 1
    BY <1>5, <1>7, FS_AddElement
  <2>2. Opened(m)' = 0 /\ Opened(m) = 1
    BY <1>2, <1>3, <1>8 DEF Opened
  <2>3. QED
    BY <2>1, <2>2, <1>5, <1>6, <1>7, <1>8
<1>9. CASE m # d
  <2>1. Opened(m)' = Opened(m)
    BY <1>3, <1>9 DEF Opened
  <2>2. QED
    BY <2>1, <1>5, <1>6, <1>7, <1>9
<1>10. QED
  BY <1>8, <1>9

\* decref(): with the last reference, the thread goes on to the parent.
LEMMA DropCounts ==
    ASSUME Counted, NEW t \in Thread, Decref(t)
    PROVE  Counts' /\ \A m \in Node : refs'[m] > 0 => refs[m] > 0
<1> DEFINE n == node[t]
           p == Parent(n)
           last == refs[n] = 1 /\ p # None
<1>1. /\ n \in Node /\ pc[t] = "drop" /\ refs \in [Node -> Int] /\ UNCHANGED fds
      /\ refs' = [refs EXCEPT ![n] = @ - 1]
      /\ node' = [node EXCEPT ![t] = IF last THEN p ELSE None]
      /\ Goto(t, IF last THEN "drop" ELSE Return(t, stack[t]))
      /\ TypeOK
  BY DEF Decref, Counted, Kept, Owned, Placed, TypeOK
<1>2. /\ node'[t] = IF last THEN p ELSE None
      /\ pc'[t] = "drop" <=> last
      /\ \A u \in Thread : u # t => node'[u] = node[u] /\ pc'[u] = pc[u]
  BY <1>1 DEF Goto, TypeOK, Return
<1>3. refs'[n] = refs[n] - 1 /\ \A m \in Node : m # n => refs'[m] = refs[m]
  BY <1>1
<1>4. \A m \in Node : t \in Droppers(m) <=> m = n
  BY <1>1 DEF Droppers
<1>5. \A m \in Node :
        /\ refs[m] = Opened(m) + Cardinality(Droppers(m)) + Cardinality(Children(m))
        /\ Cardinality(Droppers(m)) \in Nat /\ Cardinality(Children(m)) \in Nat
        /\ IsFiniteSet(Droppers(m)) /\ IsFiniteSet(Children(m)) /\ Opened(m) \in Nat
        /\ Droppers(m) # {} => Cardinality(Droppers(m)) > 0
        /\ Children(m) # {} => Cardinality(Children(m)) > 0
  BY CountsFinite DEF Counted, Counts, Opened
<1>6. refs[n] \in Int /\ refs[n] >= 1
  BY <1>1, <1>4, <1>5
<1>7. p \in Node \cup {None}
  BY ParentType
<1>8. last => p # n
  <2>1. SUFFICES ASSUME p = n PROVE refs[n] >= 2
    BY <1>6
  <2>2. n \in Children(n)
    BY <1>1, <1>6, <2>1 DEF Children
  <2>3. QED
    BY <1>1, <1>4, <1>5, <2>2
<1> HIDE DEF n
<1>9. \A m \in Node : m # n => (refs'[m] > 0 <=> refs[m] > 0)
  BY <1>3
<1>10. refs'[n] > 0 <=> refs[n] # 1
  BY <1>3, <1>6
<1>11. \A m \in Node : Children(m)' = IF last /\ m = p THEN Children(m) \ {n} ELSE Children(m)
  BY <1>1, <1>6, <1>9, <1>10, <1>7, TreeAssumption DEF Children
<1>12. \A m \in Node : last /\ m = p => n \in Children(m)
  BY <1>1, <1>6 DEF Children
<1> HIDE DEF p
<1>13. \A m \in Node : Droppers(m)' = IF m = n THEN Droppers(m) \ {t}
                                      ELSE IF last /\ m = p THEN Droppers(m) \cup {t}
                                      ELSE Droppers(m)
  <2> SUFFICES ASSUME NEW m \in Node
               PROVE  Droppers(m)' = IF m = n THEN Droppers(m) \ {t}
                                     ELSE IF last /\ m = p THEN Droppers(m) \cup {t}
                                     ELSE Droppers(m)
    OBVIOUS
  <2>1. t \in Droppers(m)' <=> last /\ m = p
    BY <1>2 DEF Droppers
  <2>2. \A u \in Thread : u # t => (u \in Droppers(m)' <=> u \in Droppers(m))
    BY <1>2 DEF Droppers
  <2>3. Droppers(m) \subseteq Thread /\ Droppers(m)' \subseteq Thread
    BY DEF Droppers
  <2>4. QED
    BY <2>1, <2>2, <2>3, <1>4, <1>8
<1>14. ASSUME NEW m \in Node
       PROVE  refs'[m] = Opened(m)' + Cardinality(Droppers(m)') + Cardinality(Children(m)')
  <2>0. Opened(m)' = Opened(m)
    BY <1>1 DEF Opened
  <2>1. CASE m = n
    <3>1. Cardinality(Droppers(m) \ {t}) = Cardinality(Droppers(m)) - 1
      BY <2>1, <1>4, <1>5, FS_RemoveElement
    <3>2. Children(m)' = Children(m) /\ Droppers(m)' = Droppers(m) \ {t}
      BY <2>1, <1>8, <1>11, <1>13
    <3>3. refs'[m] = refs[m] - 1
      BY <2>1, <1>3
    <3>4. QED
      BY <2>0, <3>1, <3>2, <3>3, <1>5
  <2>2. CASE m # n /\ last /\ m = p
    <3>1. /\ Cardinality(Droppers(m) \cup {t}) = Cardinality(Droppers(m)) + 1
          /\ Cardinality(Children(m) \ {n}) = Cardinality(Children(m)) - 1
      BY <2>2, <1>4, <1>5, <1>12, FS_AddElement, FS_RemoveElement
    <3>2. Children(m)' = Children(m) \ {n} /\ Droppers(m)' = Droppers(m) \cup {t}
      BY <2>2, <1>11, <1>13
    <3>3. refs'[m] = refs[m]
      BY <2>2, <1>3
    <3>4. QED
      BY <2>0, <3>1, <3>2, <3>3, <1>5
  <2>3. CASE m # n /\ ~(last /\ m = p)
    <3>1. Children(m)' = Children(m) /\ Droppers(m)' = Droppers(m) /\ refs'[m] = refs[m]
      BY <2>3, <1>3, <1>11, <1>13
    <3>2. QED
      BY <2>0, <3>1, <1>5
  <2>4. QED
    BY <2>1, <2>2, <2>3
<1>15. \A m \in Node : refs'[m] > 0 => refs[m] > 0
  BY <1>6, <1>9
<1>16. QED
  BY <1>14, <1>15 DEF Counts

\* What was reported stays reported.
LEMMA ReportsStay ==
    ASSUME Owned, [Next]_vars, NEW n \in Node, reports[n] # <<>>
    PROVE  reports'[n] # <<>>
<1>1. reports \in [Node -> Seq({"File", "OpenError", "Directory", "OpenDirError"})]
  BY DEF Owned, TypeOK
<1>2. \A s \in Seq({"File", "OpenError", "Directory", "OpenDirError"}) :
          Append(s, "OpenDirError") # <<>>
  BY AppendProperties
<1>3. [W!Next]_<<reports, fds>>
  BY OwnedStep
<1>4. CASE W!Next
  <2>1. PICK m \in Node : W!Report(m) \/ W!Descend(m) \/ W!Fail(m) \/ W!Close(m)
    BY <1>4 DEF W!Next
  <2>2. CASE W!Report(m) \/ W!Descend(m)
    BY <2>2, <1>1, SingleReport DEF W!Report, W!Descend
  <2>3. CASE W!Fail(m)
    BY <2>3, <1>1, <1>2 DEF W!Fail
  <2>4. CASE W!Close(m)
    BY <2>4 DEF W!Close
  <2>5. QED
    BY <2>1, <2>2, <2>3, <2>4
<1>5. QED
  BY <1>3, <1>4

LEMMA CountsStep == Counted /\ [Next]_vars => Counts' /\ Discovered'
<1> SUFFICES ASSUME Counted, [Next]_vars
             PROVE  Counts' /\ Discovered'
  OBVIOUS
<1>type. TypeOK /\ Placed /\ Owned /\ Main \in Thread /\ pc \in [Thread -> Labels]
         /\ node \in [Thread -> Node \cup {None}] /\ Owned'
  BY TypeStep, OwnedStep DEF Counted, Kept, Owned, Ownership, TypeOK, Thread
<1>1. ASSUME UNCHANGED refs PROVE Discovered'
  BY <1>1, <1>type, ReportsStay DEF Counted, Discovered
<1>2. ASSUME UNCHANGED <<refs, fds, node>>, NEW t \in Thread, NEW l, Goto(t, l),
             pc[t] # "drop", l # "drop"
      PROVE  Counts' /\ Discovered'
  <2>1. \A u \in Thread : pc'[u] = "drop" <=> pc[u] = "drop"
    BY <1>2, <1>type DEF Goto
  <2>2. QED
    BY <1>1, <1>2, <2>1, SameCounts DEF Counted
<1>3. ASSUME NEW n \in Node, reports[n] = <<>>, NEW t \in Thread, pc[t] # "drop", Descended(n),
             node' = [node EXCEPT ![t] = n], Goto(t, "enqueue"), Parent(n) \in fds \cup {None}
      PROVE  Counts' /\ Discovered'
  <2>1. \A u \in Thread : /\ pc'[u] = "drop" <=> pc[u] = "drop"
                          /\ pc[u] = "drop" => node'[u] = node[u]
    BY <1>3, <1>type DEF Goto
  <2>2. Counts'
    BY <1>3, <2>1, MadeCounts
  <2>3. ASSUME NEW m \in Node, refs'[m] > 0 PROVE reports'[m] # <<>>
    <3>1. CASE m \in fds'
      BY <3>1, <1>type DEF Owned, ReportsOrdered
    <3>2. CASE m \notin fds'
      <4>1. m # n /\ m # Parent(n)
        BY <3>2, <1>3, TreeAssumption DEF Descended
      <4>2. refs'[m] = refs[m]
        BY <4>1, <1>3 DEF Descended, MakeNode
      <4>3. QED
        BY <4>2, <2>3, <1>type, ReportsStay DEF Counted, Discovered
    <3>3. QED
      BY <3>1, <3>2
  <2>4. QED
    BY <2>2, <2>3 DEF Discovered
<1>4. ASSUME UNCHANGED <<refs, fds, node, pc>> PROVE Counts' /\ Discovered'
  BY <1>1, <1>4, SameCounts DEF Counted
<1>5. ASSUME Walk PROVE Counts' /\ Discovered'
  <2> DEFINE n == Inputs[next]
  <2>1. pc[Main] = "walk" /\ n \in Node /\ next \in DOMAIN Inputs /\ next \in Nat
    BY <1>5, <1>type, TreeAssumption DEF Walk, TypeOK
  <2>2. reports[n] = <<>>
    BY <2>1, <1>type DEF Owned, ReportsOrdered
  <2>3. Parent(n) = None
    BY <2>1, TreeAssumption DEF Parent
  <2>4. CASE NotDescended(n) /\ UNCHANGED <<pc, node>>
    BY <2>4, <1>4 DEF NotDescended
  <2>5. CASE Descended(n) /\ node' = [node EXCEPT ![Main] = n] /\ Goto(Main, "enqueue")
    BY <2>1, <2>2, <2>3, <2>5, <1>3, <1>type
  <2>6. QED
    BY <1>5, <2>4, <2>5 DEF Walk
<1>6. ASSUME MainWorker \/ Join PROVE Counts' /\ Discovered'
  BY <1>6, <1>2, <1>type DEF MainWorker, Join
<1>7. ASSUME NEW t \in Thread, Enqueue(t) \/ Post(t) PROVE Counts' /\ Discovered'
  <2>1. /\ pc[t] # "drop" /\ UNCHANGED <<refs, fds>>
        /\ \A u \in Thread : u # t => node'[u] = node[u]
        /\ Goto(t, "read") \/ Goto(t, "lock") \/ Goto(t, "notify")
    BY <1>7, <1>type DEF Enqueue, Post
  <2>2. \A u \in Thread : /\ pc'[u] = "drop" <=> pc[u] = "drop"
                          /\ pc[u] = "drop" => node'[u] = node[u]
    BY <2>1, <1>type DEF Goto
  <2>3. QED
    BY <2>1, <2>2, <1>1, SameCounts DEF Counted
<1>8. ASSUME NEW t \in Thread, NotifyOne(t) PROVE Counts' /\ Discovered'
  <2>1. UNCHANGED <<refs, fds, node>>
    BY <1>8 DEF NotifyOne
  <2>2. \A u \in Thread : pc'[u] = "drop" <=> pc[u] = "drop"
    BY <1>8, <1>type DEF NotifyOne, Goto, Return
  <2>3. QED
    BY <2>1, <2>2, <1>1, SameCounts DEF Counted
<1>9. ASSUME NEW t \in Thread, ListDir(t) PROVE Counts' /\ Discovered'
  BY <1>9, <1>4 DEF ListDir
<1>10. ASSUME NEW t \in Thread, Entry(t) PROVE Counts' /\ Discovered'
  <2> DEFINE p == Dir(t)
             k == Position(t)
             n == Entries[p][k]
  <2>1. pc[t] = "read" /\ stack[t] # <<>> /\ k \in DOMAIN Entries[p]
    BY <1>10, <1>type DEF Entry, Placed
  <2>2. p \in Node /\ k \in Nat /\ Top(t) \in 1..Len(stack[t])
    BY <2>1, <1>type, TopFrame
  <2>3. Started(fds, reports, p, k)
    BY <2>2, <1>type DEF Owned, OwnersStarted, Dir, Position
  <2>4. n \in Node /\ n \in EntriesOf(p)
    BY <2>1, <2>2, TreeAssumption DEF EntriesOf
  <2>5. p \in fds
    BY <2>3 DEF Started
  <2>6. reports[n] # <<>> <=> k < k
    BY <2>1, <2>3 DEF Started
  <2>7. reports[n] = <<>>
    BY <2>2, <2>6
  <2>8. Parent(n) = p
    BY <2>2, <2>4, ParentLists
  <2>9. CASE Descended(n) /\ node' = [node EXCEPT ![t] = n] /\ Goto(t, "enqueue")
    BY <2>1, <2>4, <2>5, <2>7, <2>8, <2>9, <1>3
  <2>10. CASE UNCHANGED <<refs, fds, node, pc>>
    BY <2>10, <1>4
  <2>11. QED
    BY <1>10, <2>9, <2>10 DEF Entry, NotDescended
<1>11. ASSUME NEW t \in Thread, ListDirFails(t) \/ EndRead(t) PROVE Counts' /\ Discovered'
  BY <1>11, <1>1, ClosedCounts DEF ListDirFails, EndRead
<1>12. ASSUME NEW t \in Thread, Decref(t) PROVE Counts' /\ Discovered'
  <2>1. Counts' /\ \A m \in Node : refs'[m] > 0 => refs[m] > 0
    BY <1>12, DropCounts
  <2>2. QED
    BY <2>1, <1>type, ReportsStay DEF Counted, Discovered
<1>13. ASSUME NEW t \in Thread, Loop(t) \/ JobDone(t) \/ SpuriousWake(t)
       PROVE  Counts' /\ Discovered'
  BY <1>13, <1>2 DEF Loop, JobDone, SpuriousWake
<1>14. ASSUME NEW t \in Thread, Check(t) \/ Wake(t) \/ Recheck(t)
       PROVE  Counts' /\ Discovered'
  BY <1>14, <1>2 DEF Check, Wake, Recheck, TakeJob, WaitForJob
<1>15. ASSUME NEW t \in Thread, Finish(t) PROVE Counts' /\ Discovered'
  <2>1. UNCHANGED <<refs, fds, node>>
    BY <1>15 DEF Finish
  <2>2. \A u \in Thread : pc'[u] = "drop" <=> pc[u] = "drop"
    BY <1>15 DEF Finish
  <2>3. QED
    BY <2>1, <2>2, <1>1, SameCounts DEF Counted
<1>16. CASE UNCHANGED vars
  BY <1>16, <1>4 DEF vars
<1>17. QED
  BY <1>5, <1>6, <1>7, <1>8, <1>9, <1>10, <1>11, <1>12, <1>13, <1>14, <1>15, <1>16
     DEF Next, Step

LEMMA CountsInit == Init => Counted
<1> SUFFICES ASSUME Init PROVE Counts /\ Discovered
  BY KeptInit DEF Counted
<1>1. \A n \in Node : Droppers(n) = {} /\ Children(n) = {} /\ refs[n] = 0 /\ Opened(n) = 0
  BY DEF Init, Droppers, Children, Opened
<1>2. \A n \in Node : Cardinality(Droppers(n)) = 0 /\ Cardinality(Children(n)) = 0
  BY <1>1, FS_EmptySet
<1>3. QED
  BY <1>1, <1>2 DEF Counts, Discovered

\* The reference count of a node is the number of its owners, of decref()
\* calls under way and of existing children, for any tree and any number of
\* threads: a node is destroyed when the last of them is gone.
THEOREM ReferencesExact == Spec => []RefsExact
<1>1. Counted /\ [Next]_vars => Counted'
  BY TypeStep, OwnedStep, KeptStep, CountsStep DEF Counted, Kept, Owned, Ownership
<1>2. Counted => RefsExact
  BY OneHolder DEF Counted, Counts, RefsExact, DescriptorOwned, Opened, Droppers, Children
<1>3. QED
  BY CountsInit, <1>1, <1>2, PTL DEF Spec
=============================================================================
