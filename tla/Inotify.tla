------------------------------ MODULE Inotify ------------------------------
(***************************************************************************)
(* The part of Linux that FSWatch talks to: directories which come and go, *)
(* and one inotify instance which watches some of them.  Modelled from the *)
(* use FSWatch makes of it.                                                *)
(*                                                                         *)
(* A watch descriptor stands for a directory, not for its name.  Events    *)
(* wait in a queue until they are read, whatever happened since.  An event *)
(* equal to the last one in the queue is dropped (inotify(7)).             *)
(***************************************************************************)
EXTENDS Integers, Sequences, FiniteSets

CONSTANTS
    DirName,        \* paths of directories
    FileName,       \* names of files in them
    None,           \* no such directory
    MaxChanges      \* bound: changes made to the file system

VARIABLES
    inode,      \* the directory which has the name, or None
    watched,    \* from active watch descriptors to directories
    queue,      \* events not read yet
    given,      \* number of watch descriptors given out
    changes     \* number of changes so far

kernelVars == <<inode, watched, queue, given, changes>>

Events == [kind : {"file", "attrib", "self", "ignored"}, wd : Nat, name : FileName \cup {None}]

ASSUME NamesAssumption == None \notin DirName \cup FileName \cup Nat \cup Events

ASSUME ChangesAssumption == MaxChanges \in Nat

FileEvent(wd, name) == [kind |-> "file", wd |-> wd, name |-> name]

\* IN_ATTRIB of the watched directory itself: an event without a name
AttribEvent(wd) == [kind |-> "attrib", wd |-> wd, name |-> None]

SelfEvent(wd) == [kind |-> "self", wd |-> wd, name |-> None]

IgnoredEvent(wd) == [kind |-> "ignored", wd |-> wd, name |-> None]

WatchesOf(i) == {wd \in DOMAIN watched : watched[wd] = i}

LastUnread(ev) == queue # <<>> /\ queue[Len(queue)] = ev

Queued(ev) == IF LastUnread(ev) THEN queue ELSE Append(queue, ev)

WithoutWatch(w, wd) == [x \in DOMAIN w \ {wd} |-> w[x]]

-----------------------------------------------------------------------------
(* System calls *)

\* The answer of inotify_add_watch: a directory already watched keeps its
\* descriptor, and an unused descriptor is never one used before.
WatchDescriptor(d) ==
    IF WatchesOf(inode[d]) # {} THEN CHOOSE wd \in WatchesOf(inode[d]) : TRUE
    ELSE given + 1

InotifyAddWatch(d) ==
    LET wd == WatchDescriptor(d)
    IN  /\ watched' = [x \in DOMAIN watched \cup {wd} |->
                          IF x = wd THEN inode[d] ELSE watched[x]]
        /\ given' = IF wd > given THEN wd ELSE given

-----------------------------------------------------------------------------
(* What other programs do *)

\* A file of the directory is created, modified or deleted.  The kind of the
\* change is left out: this one differs in it from the last unread event.
Touch(d, n) ==
    /\ changes < MaxChanges
    /\ inode[d] # None
    /\ changes' = changes + 1
    /\ queue' = IF WatchesOf(inode[d]) = {} THEN queue
                ELSE Append(queue, FileEvent(WatchDescriptor(d), n))
    /\ UNCHANGED <<inode, watched, given>>

\* The file is changed once more in the way the last unread event tells: the
\* kernel keeps one event for both.
TouchAgain(d, n) ==
    /\ changes < MaxChanges
    /\ inode[d] # None
    /\ WatchesOf(inode[d]) # {}
    /\ LastUnread(FileEvent(WatchDescriptor(d), n))
    /\ changes' = changes + 1
    /\ UNCHANGED <<inode, watched, queue, given>>

\* The attributes of the directory itself are changed.
ChangeAttributes(d) ==
    /\ changes < MaxChanges
    /\ inode[d] # None
    /\ changes' = changes + 1
    /\ queue' = IF WatchesOf(inode[d]) = {} THEN queue
                ELSE Queued(AttribEvent(WatchDescriptor(d)))
    /\ UNCHANGED <<inode, watched, given>>

\* The directory is deleted: its watch is gone at once, the events follow.
RemoveDir(d) ==
    /\ changes < MaxChanges
    /\ inode[d] # None
    /\ changes' = changes + 1
    /\ inode' = [inode EXCEPT ![d] = None]
    /\ LET wd == WatchDescriptor(d)
       IN  IF WatchesOf(inode[d]) = {} THEN UNCHANGED <<queue, watched>>
           ELSE /\ queue' = queue \o <<SelfEvent(wd), IgnoredEvent(wd)>>
                /\ watched' = WithoutWatch(watched, wd)
    /\ UNCHANGED given

\* The directory gets another name and is still watched.
MoveDir(d, e) ==
    /\ changes < MaxChanges
    /\ inode[d] # None
    /\ inode[e] = None
    /\ changes' = changes + 1
    /\ inode' = [inode EXCEPT ![d] = None, ![e] = inode[d]]
    /\ queue' = IF WatchesOf(inode[d]) = {} THEN queue
                ELSE Queued(SelfEvent(WatchDescriptor(d)))
    /\ UNCHANGED <<watched, given>>

\* A new directory is made.  Each change gives the number of a new inode.
MakeDir(d) ==
    /\ changes < MaxChanges
    /\ inode[d] = None
    /\ changes' = changes + 1
    /\ inode' = [inode EXCEPT ![d] = changes + 1]
    /\ UNCHANGED <<watched, queue, given>>

\* At first there is one directory and nothing is watched.
KernelInit(first) ==
    /\ inode = [d \in DirName |-> IF d = first THEN 0 ELSE None]
    /\ watched = <<>>
    /\ queue = <<>>
    /\ given = 0
    /\ changes = 0
=============================================================================
