------------------------------ MODULE Dispatch ------------------------------
(***************************************************************************)
(* xci::core::FSDispatch: an FSWatch in an EventLoop which runs in its own *)
(* thread, and an EventWatch to stop it.  The owner adds and removes       *)
(* watches and destroys the object in the end.                             *)
(*                                                                         *)
(* FSWatch has no lock.  The owner calls add_watch and remove_watch while  *)
(* the thread waits in epoll_wait; the destructor runs at any time.        *)
(***************************************************************************)
EXTENDS FSWatch

CONSTANT FirstDir       \* the directory which exists at first

VARIABLES
    pc,         \* the thread: "wait" (top of the loop), "notify", "exited",
                \* or "undefined" when it used what is destroyed
    ready,      \* results of epoll_wait not notified yet
    terminate,  \* m_terminate
    fired,      \* value of the eventfd of m_quit_event
    owner,      \* "using", or the last step of the destructor
    alive,      \* objects not destroyed: the FSWatch, the EventWatch, the loop
    interrupted \* the FSWatch was destroyed while the thread was to use it

loopVars == <<pc, ready, terminate, fired, owner, alive, interrupted>>

(* What the properties remember *)
VARIABLES
    path,       \* what add was called with, by registration
    raised,     \* changes of the file since, and those on their way at that time,
                \* without those which repeat the last unread one
    heard,      \* calls of its callback for such a change
    stopped,    \* registrations whose callback was called with Stopped
    shared,     \* registrations of a file which had another one
    aliased     \* two names in m_dir got the same watch descriptor

history == <<path, raised, heard, stopped, shared, aliased>>

vars == <<kernelVars, watchVars, loopVars, history>>

-----------------------------------------------------------------------------
(* Events on their way *)

CountOf(events, wd, name) ==
    Cardinality({i \in DOMAIN events : events[i] = FileEvent(wd, name)})

Pending(wd, name) == CountOf(batch, wd, name) + CountOf(queue, wd, name)

StopPending(wd) ==
    \/ handling = SelfEvent(wd)
    \/ \E i \in DOMAIN batch : batch[i] = SelfEvent(wd)
    \/ \E i \in DOMAIN queue : queue[i] = SelfEvent(wd)

-----------------------------------------------------------------------------
(* Callers of FSDispatch *)

\* The caller is a callback, or the owner while the thread waits.
MayCall ==
    /\ "fs" \in alive
    /\ pc # "undefined"
    /\ calling # 0 \/ (pc = "wait" /\ owner = "using")

AddCalled(p) ==
    /\ MayCall
    /\ AddWatch(p)
    /\ LET wd == m_file'[Len(m_file')].dir_wd
           twins == {f.id : f \in {m_file'[i] : i \in
                       {j \in DOMAIN m_file' : m_file'[j].dir_wd = wd /\ m_file'[j].name = p.name}}}
       IN  /\ path' = [path EXCEPT ![added'] = p]
           /\ raised' = [raised EXCEPT ![added'] = Pending(wd, p.name)]
           /\ shared' = IF Cardinality(twins) > 1 THEN shared \cup twins ELSE shared
    /\ aliased' = (aliased \/ \E i, j \in DOMAIN m_dir' : i # j /\ m_dir'[i].wd = m_dir'[j].wd)
    /\ UNCHANGED <<loopVars, heard, stopped>>

RemoveCalled(p) ==
    /\ MayCall
    /\ RemoveWatch(p)
    /\ UNCHANGED <<loopVars, history>>

-----------------------------------------------------------------------------
(* The thread *)

Readable == {w \in {"fs", "quit"} : \/ w = "fs" /\ "fs" \in alive /\ queue # <<>>
                                    \/ w = "quit" /\ fired > 0}

\* The loop continues with any of the ready descriptors, in any order.
EpollWait ==
    /\ pc = "wait"
    /\ ~terminate
    /\ \E S \in SUBSET Readable \ {{}} : ready' \in SetToSeqs(S)
    /\ pc' = "notify"
    /\ UNCHANGED <<kernelVars, watchVars, terminate, fired, owner, alive, interrupted, history>>

Exit ==
    /\ pc = "wait"
    /\ terminate
    /\ pc' = "exited"
    /\ UNCHANGED <<kernelVars, watchVars, ready, terminate, fired, owner, alive, interrupted,
                   history>>

Between == pc = "notify" /\ batch = <<>> /\ handling = None

\* Mutant: m_loop.terminate() is not called.
NotifyQuitOnly ==
    /\ Between
    /\ ready # <<>> /\ Head(ready) = "quit"
    /\ "quit" \in alive
    /\ ready' = Tail(ready)
    /\ fired' = 0
    /\ UNCHANGED <<kernelVars, watchVars, pc, terminate, owner, alive, interrupted, history>>

\* EventWatch::_notify: reading resets the eventfd; the callback terminates.
NotifyQuit ==
    /\ Between
    /\ ready # <<>> /\ Head(ready) = "quit"
    /\ "quit" \in alive
    /\ ready' = Tail(ready)
    /\ fired' = 0
    /\ terminate' = TRUE
    /\ UNCHANGED <<kernelVars, watchVars, pc, owner, alive, interrupted, history>>

\* FSWatch::_notify
NotifyFS ==
    /\ Between
    /\ ready # <<>> /\ Head(ready) = "fs"
    /\ "fs" \in alive
    /\ ReadEvents
    /\ ready' = Tail(ready)
    /\ UNCHANGED <<pc, terminate, fired, owner, alive, interrupted, history>>

NotifiedAll ==
    /\ Between
    /\ ready = <<>>
    /\ pc' = "wait"
    /\ UNCHANGED <<kernelVars, watchVars, ready, terminate, fired, owner, alive, interrupted,
                   history>>

Called == calling' # 0 /\ calling' # calling

\* A step of handle_event
Handle ==
    /\ pc = "notify"
    /\ "fs" \in alive
    /\ HandleEvent \/ SkipEvent \/ FileCallbackReturns \/ StoppedReturns \/ RemoveGone
    /\ heard' = IF Called /\ handling'.kind = "file"
                THEN [heard EXCEPT ![calling'] = @ + 1] ELSE heard
    /\ stopped' = IF Called /\ handling'.kind = "self" THEN stopped \cup {calling'}
                  ELSE stopped
    /\ UNCHANGED <<loopVars, path, raised, shared, aliased>>

\* The thread uses an object which does not exist any more.
UseDestroyed ==
    /\ \/ pc = "notify" /\ "fs" \notin alive /\ ~Between
       \/ Between /\ ready # <<>> /\ Head(ready) \notin alive
       \/ pc \in {"wait", "notify"} /\ "loop" \notin alive
    /\ pc' = "undefined"
    /\ UNCHANGED <<kernelVars, watchVars, ready, terminate, fired, owner, alive, interrupted,
                   history>>

-----------------------------------------------------------------------------
(* The destructor, in the owner's thread *)

\* FSDispatch destroys its FSWatch first, which closes the inotify instance.
\* What is remembered of the registrations ends with them.
DestroyFSWatch ==
    /\ owner = "using"
    /\ owner' = "watch destroyed"
    /\ alive' = alive \ {"fs"}
    /\ interrupted' = (pc = "notify" /\ (~Between \/ "fs" \in Range(ready)))
    /\ queue' = <<>>
    /\ watched' = <<>>
    /\ m_file' = <<>>
    /\ m_dir' = <<>>
    /\ path' = [id \in Watch |-> None]
    /\ raised' = [id \in Watch |-> 0]
    /\ shared' = {}
    /\ UNCHANGED <<inode, given, changes, batch, handling, calling, gone, added, pc, ready,
                   terminate, fired, heard, stopped, aliased>>

\* ~Dispatch: m_quit_event.fire()
Fire ==
    /\ owner = "watch destroyed"
    /\ pc # "undefined"
    /\ owner' = "fired"
    /\ fired' = fired + 1
    /\ UNCHANGED <<kernelVars, watchVars, pc, ready, terminate, alive, interrupted, history>>

\* Mutant: the thread is detached.
Detach ==
    /\ owner = "fired"
    /\ owner' = "destroyed"
    /\ alive' = {}
    /\ UNCHANGED <<kernelVars, watchVars, pc, ready, terminate, fired, interrupted, history>>

\* m_thread.join(), and then the members are destroyed.
Join ==
    /\ owner = "fired"
    /\ pc = "exited"
    /\ owner' = "destroyed"
    /\ alive' = {}
    /\ UNCHANGED <<kernelVars, watchVars, pc, ready, terminate, fired, interrupted, history>>

-----------------------------------------------------------------------------

\* Another program changes the file system, as long as somebody may watch it.
RepeatChange(p) ==
    /\ "fs" \in alive
    /\ TouchAgain(p.dir, p.name)
    /\ UNCHANGED <<watchVars, loopVars, history>>

ChangeFile(p) ==
    /\ "fs" \in alive
    /\ Touch(p.dir, p.name)
    /\ raised' = [id \in Watch |->
                     IF id \in Registered /\ path[id] = p
                     THEN raised[id] + 1 ELSE raised[id]]
    /\ UNCHANGED <<watchVars, loopVars, path, heard, stopped, shared, aliased>>

ChangeDir(d) ==
    /\ "fs" \in alive
    /\ \/ RemoveDir(d)
       \/ MakeDir(d)
       \/ ChangeAttributes(d)
       \/ \E e \in DirName : MoveDir(d, e)
    /\ UNCHANGED <<watchVars, loopVars, history>>

\* The owner is done, or there is nothing to say about the program any more.
Terminated ==
    /\ owner = "destroyed" \/ pc = "undefined"
    /\ UNCHANGED vars

Init ==
    /\ KernelInit(FirstDir)
    /\ WatchInit
    /\ pc = "wait"
    /\ ready = <<>>
    /\ terminate = FALSE
    /\ fired = 0
    /\ owner = "using"
    /\ alive = {"fs", "quit", "loop"}
    /\ interrupted = FALSE
    /\ path = [id \in Watch |-> None]
    /\ raised = [id \in Watch |-> 0]
    /\ heard = [id \in Watch |-> 0]
    /\ stopped = {}
    /\ shared = {}
    /\ aliased = FALSE

Thread ==
    \/ EpollWait
    \/ Exit
    \/ NotifyQuit
    \/ NotifyFS
    \/ NotifiedAll
    \/ Handle
    \/ UseDestroyed

Destructor == Fire \/ Join

Next ==
    \/ Thread
    \/ DestroyFSWatch
    \/ Destructor
    \/ \E p \in Path : AddCalled(p) \/ RemoveCalled(p) \/ ChangeFile(p) \/ RepeatChange(p)
    \/ \E d \in DirName : ChangeDir(d)
    \/ Terminated

\* A thread which can run does, and callbacks return.  Nothing else is promised:
\* files may stay as they are, and the owner may keep its object.
Spec == Init /\ [][Next]_vars /\ WF_vars(Thread) /\ WF_vars(Destructor)

-----------------------------------------------------------------------------
(* Properties *)

\* Values of the state of both threads, the kernel and the lists.
TypeOK ==
    /\ inode \in [DirName -> 0..MaxChanges \cup {None}]
    /\ DOMAIN watched \subseteq 1..given /\ Range(watched) \subseteq 0..MaxChanges
    /\ Range(queue) \subseteq Events
    /\ Range(batch) \subseteq Events
    /\ handling \in Events \cup {None}
    /\ calling \in 0..added
    /\ \A i \in DOMAIN m_file : m_file[i] \in [id : 1..added, dir_wd : 1..given, name : FileName]
    /\ \A i \in DOMAIN m_dir : m_dir[i] \in [wd : 1..given, name : DirName]
    /\ pc \in {"wait", "notify", "exited", "undefined"}
    /\ Range(ready) \subseteq {"fs", "quit"}
    /\ fired \in 0..1

\* What has a registration: the file watch keeps exactly the directories which
\* have a registered file, each under one name, and the kernel watches exactly
\* these, unless the event which tells that one is gone is on its way.
\* FSWatch::add and remove pair inotify_add_watch with inotify_rm_watch.
WatchesExact ==
    "fs" \in alive /\ ~aliased =>
        /\ {m_dir[i].wd : i \in DOMAIN m_dir} = {m_file[i].dir_wd : i \in DOMAIN m_file}
        /\ \A i, j \in DOMAIN m_dir : m_dir[i].wd = m_dir[j].wd => i = j
        /\ DOMAIN watched \subseteq {m_dir[i].wd : i \in DOMAIN m_dir}
        /\ \A i \in DOMAIN m_dir :
               \/ m_dir[i].wd \in DOMAIN watched /\ watched[m_dir[i].wd] = inode[m_dir[i].name]
               \/ StopPending(m_dir[i].wd)

\* No change is lost and none is told twice: a callback which is the only one
\* of its file was called for all changes but those on their way, or it will
\* be told that its file is not watched any more.  A change which repeats the
\* last one not read yet is told together with it, by the same call.
HeardAll(id) ==
    id \in Registered =>
        \/ heard[id] + Pending(FileOf(id).dir_wd, FileOf(id).name) = raised[id]
        \/ StopPending(FileOf(id).dir_wd)

NoneLost ==
    "fs" \in alive /\ ~aliased => \A id \in Watch \ shared : HeardAll(id)

\* handle_event holds iterators to the file and to the directory while a
\* callback runs: whatever the callback adds and removes, they stay valid.
HandledStays ==
    "fs" \in alive /\ calling # 0 =>
        /\ calling \in Registered
        /\ FileOf(calling).dir_wd = handling.wd
        /\ KnownWd(handling.wd)

\* Stopped is the last call of a callback, and its registration is gone when
\* handle_event returns.
StoppedFinal ==
    [][\A id \in stopped :
           /\ heard'[id] = heard[id]
           /\ calling' = id => calling = id
           /\ handling' = None => id \notin {m_file'[i].id : i \in DOMAIN m_file'}]_vars

\* The thread uses nothing destroyed, unless it was to use the FSWatch at the
\* moment the FSWatch was destroyed: m_loop and m_quit_event outlive the thread.
SafeUnlessInterrupted == pc = "undefined" => interrupted

\* A change is told to its callback in the end, unless the registration ends; one
\* which repeats a change not read yet is told by the call still to come.
Delivered ==
    \A id \in Watch :
        raised[id] > heard[id] ~>
            \/ raised[id] = heard[id] \/ id \notin Registered
            \/ id \in shared \/ aliased

\* The destructor returns: m_quit_event ends the loop, whatever it is doing.
Destroyed == owner = "watch destroyed" ~> owner = "destroyed" \/ pc = "undefined"
=============================================================================
