------------------------------ MODULE FSWatch ------------------------------
(***************************************************************************)
(* xci::core::FSWatch over inotify.  A watched file is a record in m_file, *)
(* attached to the watch descriptor of its directory; m_dir maps names of  *)
(* directories to descriptors.  Callbacks run in the middle of             *)
(* handle_event() and may add and remove watches themselves, so one action *)
(* is the code between two points where a callback can run.                *)
(*                                                                         *)
(* Every call of add() makes a new registration, known by its number.      *)
(***************************************************************************)
EXTENDS Inotify, SequencesExt

CONSTANTS
    Path,           \* files somebody may watch
    MaxWatches      \* bound: calls of add()

ASSUME PathAssumption == Path \subseteq [dir : DirName, name : FileName]

ASSUME WatchesAssumption == MaxWatches \in Nat

VARIABLES
    m_file,     \* registrations: [id, dir_wd, name]
    m_dir,      \* watched directories: [wd, name]
    batch,      \* events in the buffer of _notify() not handled yet
    handling,   \* the event handle_event() is working on, or None
    calling,    \* the registration whose callback is running, or 0
    gone,       \* remove_list of handle_event()
    added       \* number of registrations so far

watchVars == <<m_file, m_dir, batch, handling, calling, gone, added>>

Watch == 1..MaxWatches

Registered == {m_file[i].id : i \in DOMAIN m_file}

FileOf(id) == m_file[SelectInSeq(m_file, LAMBDA f : f.id = id)]

-----------------------------------------------------------------------------
(* add and remove *)

DirIndex(dirs, name) == SelectInSeq(dirs, LAMBDA d : d.name = name)

FileIndex(files, wd, name) ==
    SelectInSeq(files, LAMBDA f : f.dir_wd = wd /\ f.name = name)

AddFile(wd, name) ==
    /\ m_file' = Append(m_file, [id |-> added + 1, dir_wd |-> wd, name |-> name])
    /\ added' = added + 1

\* FSWatch::add for a directory which has an entry in m_dir
AddToKnown(p) ==
    LET i == DirIndex(m_dir, p.dir)
    IN  /\ i # 0
        /\ AddFile(m_dir[i].wd, p.name)
        /\ UNCHANGED <<m_dir, watched, given>>

\* Mutant: the result of inotify_add_watch is not checked.
AddToNewUnchecked(p) ==
    /\ DirIndex(m_dir, p.dir) = 0
    /\ InotifyAddWatch(p.dir)
    /\ m_dir' = Append(m_dir, [wd |-> WatchDescriptor(p.dir), name |-> p.dir])
    /\ AddFile(WatchDescriptor(p.dir), p.name)

\* FSWatch::add for another directory; it fails when there is no such directory
AddToNew(p) ==
    /\ DirIndex(m_dir, p.dir) = 0
    /\ inode[p.dir] # None
    /\ InotifyAddWatch(p.dir)
    /\ m_dir' = Append(m_dir, [wd |-> WatchDescriptor(p.dir), name |-> p.dir])
    /\ AddFile(WatchDescriptor(p.dir), p.name)

AddWatch(p) ==
    /\ added < MaxWatches
    /\ AddToKnown(p) \/ AddToNew(p)
    /\ UNCHANGED <<inode, queue, changes, batch, handling, calling, gone>>

Lists == [file |-> m_file, dir |-> m_dir, watched |-> watched, queue |-> queue]

SetLists(s) ==
    /\ m_file' = s.file
    /\ m_dir' = s.dir
    /\ watched' = s.watched
    /\ queue' = s.queue

\* Mutant: the directory is erased with any of its files.
EraseFileAndDir(s, i) ==
    LET wd == s.file[i].dir_wd
    IN  [file |-> RemoveAt(s.file, i),
         dir |-> RemoveFirstMatch(s.dir, LAMBDA d : d.wd = wd),
         watched |-> WithoutWatch(s.watched, wd),
         queue |-> IF wd \in DOMAIN s.watched
                   THEN Append(s.queue, IgnoredEvent(wd))
                   ELSE s.queue]

\* Mutant: the directory is erased with its last file, but stays watched.
EraseFileOnly(s, i) ==
    LET wd == s.file[i].dir_wd
        file == RemoveAt(s.file, i)
    IN  [s EXCEPT !.file = file,
                  !.dir = IF \E j \in DOMAIN file : file[j].dir_wd = wd THEN s.dir
                          ELSE RemoveFirstMatch(s.dir, LAMBDA d : d.wd = wd)]

\* The file with index i is erased.  Its directory goes with its last file.
EraseFile(s, i) ==
    LET wd == s.file[i].dir_wd
        file == RemoveAt(s.file, i)
    IN  IF \E j \in DOMAIN file : file[j].dir_wd = wd
        THEN [s EXCEPT !.file = file]
        ELSE [file |-> file,
              dir |-> RemoveFirstMatch(s.dir, LAMBDA d : d.wd = wd),
              watched |-> WithoutWatch(s.watched, wd),
              queue |-> IF wd \in DOMAIN s.watched
                        THEN Append(s.queue, IgnoredEvent(wd))
                        ELSE s.queue]

\* The index in m_file of what FSWatch::remove(p) removes, or 0
RemovedIndex(s, p) ==
    LET d == DirIndex(s.dir, p.dir)
    IN  IF d = 0 THEN 0 ELSE FileIndex(s.file, s.dir[d].wd, p.name)

RemovePath(s, p) ==
    LET i == RemovedIndex(s, p) IN IF i = 0 THEN s ELSE EraseFile(s, i)

\* FSWatch::remove called by the owner of the watch or by a callback.  A
\* callback does not remove its own registration, which would destroy the
\* function that is running.
RemoveWatch(p) ==
    /\ LET i == RemovedIndex(Lists, p) IN i # 0 /\ m_file[i].id # calling
    /\ SetLists(RemovePath(Lists, p))
    /\ UNCHANGED <<inode, given, changes, batch, handling, calling, gone, added>>

-----------------------------------------------------------------------------
(* _notify and handle_event *)

\* _notify reads as many events as its buffer holds, and at least one.
ReadEvents ==
    /\ queue # <<>>
    /\ \E n \in 1..Len(queue) :
           /\ batch' = SubSeq(queue, 1, n)
           /\ queue' = SubSeq(queue, n + 1, Len(queue))
    /\ UNCHANGED <<inode, watched, given, changes, m_file, m_dir, handling, calling,
                   gone, added>>

KnownWd(wd) == \E i \in DOMAIN m_dir : m_dir[i].wd = wd

\* What _notify takes for the name of an event.  Behind one without a name are
\* the next event, whose descriptor is no name of a file, or bytes of the
\* buffer which nothing was read into: there may be any name.
NamesRead(ev, following) ==
    IF ev.kind # "attrib" THEN {ev.name}
    ELSE IF following # <<>> THEN {None} ELSE FileName \cup {None}

\* Mutant: the name is compared with its padding.
FirstCalledPadded(ev, name) ==
    IF KnownWd(ev.wd) /\ ev.kind = "self"
    THEN SelectInSeq(m_file, LAMBDA f : f.dir_wd = ev.wd)
    ELSE 0

\* The first registration handle_event calls for an event, or 0
FirstCalled(ev, name) ==
    IF ~KnownWd(ev.wd) THEN 0
    ELSE CASE ev.kind \in {"file", "attrib"} -> FileIndex(m_file, ev.wd, name)
           [] ev.kind = "self" -> SelectInSeq(m_file, LAMBDA f : f.dir_wd = ev.wd)
           [] OTHER -> 0

\* handle_event looks up what to call and calls it.
HandleEvent ==
    /\ handling = None
    /\ batch # <<>>
    /\ batch' = Tail(batch)
    /\ \E name \in NamesRead(Head(batch), Tail(batch)) :
           LET i == FirstCalled(Head(batch), name)
           IN  /\ i # 0
               /\ handling' = Head(batch)
               /\ calling' = m_file[i].id
    /\ gone' = <<>>
    /\ UNCHANGED <<kernelVars, m_file, m_dir, added>>

\* An event for which there is nothing to call
SkipEvent ==
    /\ handling = None
    /\ batch # <<>>
    /\ \E name \in NamesRead(Head(batch), Tail(batch)) : FirstCalled(Head(batch), name) = 0
    /\ batch' = Tail(batch)
    /\ UNCHANGED <<kernelVars, m_file, m_dir, handling, calling, gone, added>>

\* The callback for a change of a file, or what was taken for one, returns.
FileCallbackReturns ==
    /\ handling # None /\ handling.kind \in {"file", "attrib"}
    /\ handling' = None
    /\ calling' = 0
    /\ UNCHANGED <<kernelVars, m_file, m_dir, batch, gone, added>>

\* it_dir->name / w.name
PathOfCalled ==
    LET d == SelectInSeq(m_dir, LAMBDA x : x.wd = handling.wd)
    IN  [dir |-> m_dir[d].name, name |-> FileOf(calling).name]

\* The files of the directory which follow the called one in m_file
Remaining ==
    LET at == SelectInSeq(m_file, LAMBDA f : f.id = calling)
    IN  {i \in at + 1 .. Len(m_file) : m_file[i].dir_wd = handling.wd}

Min1(S) == CHOOSE i \in S : \A j \in S : i <= j

\* The callback for Stopped returns; the next file of the directory is called.
StoppedReturns ==
    /\ handling # None /\ handling.kind = "self"
    /\ calling # 0
    /\ gone' = Append(gone, PathOfCalled)
    /\ calling' = IF Remaining = {} THEN 0 ELSE m_file[Min1(Remaining)].id
    /\ UNCHANGED <<kernelVars, m_file, m_dir, batch, handling, added>>

\* Mutant: only the first one is removed.
RemoveFirstGone ==
    /\ handling # None /\ calling = 0
    /\ gone # <<>>
    /\ SetLists(RemovePath(Lists, Head(gone)))
    /\ gone' = <<>>
    /\ handling' = None
    /\ UNCHANGED <<inode, given, changes, batch, calling, added>>

\* Then what was called is removed, path by path.
RemoveGone ==
    /\ handling # None /\ calling = 0
    /\ gone # <<>>
    /\ SetLists(RemovePath(Lists, Head(gone)))
    /\ gone' = Tail(gone)
    /\ handling' = IF Tail(gone) = <<>> THEN None ELSE handling
    /\ UNCHANGED <<inode, given, changes, batch, calling, added>>

WatchInit ==
    /\ m_file = <<>>
    /\ m_dir = <<>>
    /\ batch = <<>>
    /\ handling = None
    /\ calling = 0
    /\ gone = <<>>
    /\ added = 0
=============================================================================
