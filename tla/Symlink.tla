------------------------------ MODULE Symlink ------------------------------
(***************************************************************************)
(* The symbolic link of a virtual serial port: vserial_manage_symlink() of *)
(* drivers/vserial.c, run by several instances of righack whose            *)
(* configurations name the same path (or by two sections of one            *)
(* configuration, which never interleave).                                 *)
(*                                                                         *)
(* The function looks at the path with lstat() and readlink() and then     *)
(* changes it with unlink() and symlink(): four system calls, between      *)
(* which other instances do the same.  The link outlives the instance that *)
(* made it, while the name it leads to is free to be given to the next     *)
(* pseudoterminal.                                                         *)
(*                                                                         *)
(* Only instances of righack change the path.                              *)
(***************************************************************************)
EXTENDS Naturals

CONSTANTS Instance,
          Port,      \* names of slaves: /dev/pts/0, ...
          Elsewhere, \* what else a link may lead to
          NULL

ASSUME PortAssumption == Elsewhere \notin Port /\ NULL \notin Port \cup {Elsewhere}

(* The type field of st_mode, as the set of its bits.  The empty set stands *)
(* for a path at which there is nothing.                                   *)
S_IFIFO == {1}
S_IFCHR == {2}
S_IFDIR == {4}
S_IFBLK == {2, 4}
S_IFREG == {8}
S_IFLNK == {2, 8}
S_IFSOCK == {4, 8}
Nothing == {}

OtherFile == {S_IFIFO, S_IFCHR, S_IFDIR, S_IFBLK, S_IFREG, S_IFSOCK}

VARIABLES
  path,        \* the file system: what is at the path
  pc,          \* the next system call of an instance
  port,        \* the slave that an instance has opened
  failed,      \* history: instances whose last start failed, in this epoch
  stopped,     \* history: an instance was stopped in this epoch
  disturbed    \* history: instances that do not know the last change of path

history == <<failed, stopped, disturbed>>
vars == <<path, pc, port, history>>

TypeOK ==
  /\ path \in [type : OtherFile \cup {Nothing}, to : {NULL}]
              \cup [type : {S_IFLNK}, to : Port \cup {Elsewhere}]
  /\ pc \in [Instance -> {"off", "lstat", "readlink", "unlink", "symlink", "running"}]
  /\ port \in [Instance -> Port \cup {NULL}]
  /\ failed \in SUBSET Instance
  /\ stopped \in BOOLEAN
  /\ disturbed \in SUBSET Instance

Init ==
  /\ path \in [type : OtherFile \cup {Nothing}, to : {NULL}]
              \cup [type : {S_IFLNK}, to : Port \cup {Elsewhere}]
  /\ pc = [i \in Instance |-> "off"]
  /\ port = [i \in Instance |-> NULL]
  /\ failed = {}
  /\ stopped = FALSE
  /\ disturbed = {}

-----------------------------------------------------------------------------
Up(i) == pc[i] # "off"

GoTo(i, label) == pc' = [pc EXCEPT ![i] = label]

(* openpty() of vserial_create(): any name that no open pseudoterminal has *)
(* may be given.  An epoch begins when nobody else is up.                  *)
OpenPty(i) ==
  /\ ~Up(i)
  /\ \E p \in Port \ {port[j] : j \in Instance} : port' = [port EXCEPT ![i] = p]
  /\ GoTo(i, "lstat")
  /\ \/ /\ \E j \in Instance : Up(j)
        /\ failed' = failed \ {i}
        /\ UNCHANGED stopped
     \/ /\ \A j \in Instance : ~Up(j)
        /\ failed' = {}
        /\ stopped' = FALSE
  /\ UNCHANGED <<path, disturbed>>

(* util_fatal(): the kernel closes the pseudoterminal, the link stays.     *)
Fail(i) ==
  /\ GoTo(i, "off")
  /\ port' = [port EXCEPT ![i] = NULL]
  /\ failed' = failed \cup {i}
  /\ UNCHANGED <<path, stopped, disturbed>>

(* target_info.st_mode & S_IFLNK: not S_ISLNK().                           *)
LooksLikeLink(mode) == mode \cap S_IFLNK # {}

(* What lstat() accepts; the variant needs something to be there.          *)
AcceptedIfThere(mode) == LooksLikeLink(mode)
Accepted(mode) == LooksLikeLink(mode) \/ mode = Nothing

Lstat(i) ==
  /\ pc[i] = "lstat"
  /\ \/ /\ Accepted(path.type)
        /\ GoTo(i, IF path.type = Nothing THEN "symlink" ELSE "readlink")
        /\ disturbed' = disturbed \ {i}
        /\ UNCHANGED <<path, port, failed, stopped>>
     \/ ~Accepted(path.type) /\ Fail(i)

(* Whether util_get_link_target() is taken to have worked; the variant     *)
(* does not check.                                                         *)
Unchecked == TRUE
GotTarget == path.type = S_IFLNK

(* readlink() and strcmp(): a link that already leads to the own slave is  *)
(* kept.                                                                   *)
Readlink(i) ==
  /\ pc[i] = "readlink"
  /\ \/ /\ GotTarget
        /\ GoTo(i, IF path.to = port[i] THEN "running" ELSE "unlink")
        /\ UNCHANGED <<path, port, history>>
     \/ ~GotTarget /\ Fail(i)

Changes(i, new) ==
  /\ path' = new
  /\ disturbed' = disturbed \cup (Instance \ {i})
  /\ UNCHANGED <<port, failed, stopped>>

(* What unlink() leaves, and create_link.  One variant forgets the call,   *)
(* one the flag.                                                           *)
NotRemoved == path
Removed == [type |-> Nothing, to |-> NULL]
CreateLinkUnset == "running"
CreateLink == "symlink"

Unlink(i) ==
  /\ pc[i] = "unlink"
  /\ \/ /\ path.type \notin {Nothing, S_IFDIR}
        /\ Changes(i, Removed)
        /\ GoTo(i, CreateLink)
     \/ path.type \in {Nothing, S_IFDIR} /\ Fail(i)

(* The link that is made; the variant uses the name before it is set.      *)
NewLinkToNull(i) == [type |-> S_IFLNK, to |-> NULL]
NewLink(i) == [type |-> S_IFLNK, to |-> port[i]]

MakeLink(i) ==
  /\ pc[i] = "symlink"
  /\ \/ /\ path.type = Nothing
        /\ Changes(i, NewLink(i))
        /\ GoTo(i, "running")
     \/ path.type # Nothing /\ Fail(i)

(* An instance ends for any other reason: SIGINT, a failure of lstat() or  *)
(* of anything that comes later, a crash.                                  *)
Stop(i) ==
  /\ Up(i)
  /\ GoTo(i, "off")
  /\ port' = [port EXCEPT ![i] = NULL]
  /\ stopped' = TRUE
  /\ UNCHANGED <<path, failed, disturbed>>

Next == \E i \in Instance :
  \/ OpenPty(i)
  \/ Lstat(i)
  \/ Readlink(i)
  \/ Unlink(i)
  \/ MakeLink(i)
  \/ Stop(i)

Spec == Init /\ [][Next]_vars
-----------------------------------------------------------------------------
Linkable == path.type \in {Nothing, S_IFLNK}

(* What is at the path and is not a symbolic link is never removed.  It is *)
(* not LooksLikeLink that ensures it, which takes regular files, sockets   *)
(* and devices for links, but the failure of readlink().                   *)
FilesAreKept == [][~Linkable => path' = path]_vars

(* Instances that are started at once on a path that can be a link do not  *)
(* all fail: when one has, another one has made its link or is about to.   *)
RaceHasWinner ==
  failed # {} /\ Linkable /\ ~stopped => \E i \in Instance : pc[i] \in {"symlink", "running"}

(* Unless an instance was stopped, or is just replacing the link, a link   *)
(* leads to the port of a running instance as long as there is one.        *)
LinkIsLive ==
  (\E i \in Instance : pc[i] = "running") /\ (\A i \in Instance : pc[i] # "symlink") /\ ~stopped
    => \E i \in Instance : pc[i] = "running" /\ path.to = port[i]

(* An instance fails only because of another file, or because another      *)
(* instance has changed the path after its lstat(): in particular a link   *)
(* that an earlier run has left never keeps the program from starting.     *)
FailureNeedsRace == [][failed' \ failed \subseteq disturbed \/ ~Linkable]_vars
=============================================================================
