--------------------------- MODULE SymlinkProofs ---------------------------
(***************************************************************************)
(* Proofs about Symlink, for any number of instances and ports.            *)
(***************************************************************************)
EXTENDS Symlink, TLAPS

Running == \E i \in Instance : pc[i] = "running"
Linking == \E i \in Instance : pc[i] = "symlink"
Leads(i) == pc[i] = "running" /\ path.to = port[i]

UpHasPort == \A i \in Instance : Up(i) => port[i] \in Port

(* An instance that has got past readlink() has seen a path that can be a  *)
(* link, and such a path stays one.                                        *)
PastReadlink ==
  \A i \in Instance : pc[i] \in {"unlink", "symlink", "running"} => Linkable

(* While an instance is running there is a link to a running instance, or  *)
(* the link is about to be made.                                           *)
RunningHasLink ==
  Running /\ ~stopped =>
    \/ path.type = S_IFLNK /\ \E i \in Instance : Leads(i)
    \/ path.type = Nothing /\ Linking

(* An instance that finds the path changed can name the one that did it.   *)
LoserHasWinner ==
  ~stopped => \A i \in Instance :
    /\ pc[i] \in {"readlink", "unlink"} /\ path.type = Nothing => Linking \/ Running
    /\ pc[i] = "symlink" /\ path.type = S_IFLNK => Running

(* What lstat() has found is still so unless the instance was disturbed.   *)
DisturbedOrSame ==
  \A i \in Instance \ disturbed : Linkable =>
    /\ pc[i] \in {"readlink", "unlink"} => path.type = S_IFLNK
    /\ pc[i] = "symlink" => path.type = Nothing

(* The inductive invariant.                                                *)
IInv ==
  /\ TypeOK
  /\ UpHasPort
  /\ PastReadlink
  /\ RunningHasLink
  /\ LoserHasWinner
  /\ RaceHasWinner
  /\ DisturbedOrSame

(* What the proofs need to know of the bits of st_mode.                    *)
LEMMA TypeBits ==
  /\ S_IFLNK # Nothing
  /\ S_IFDIR # S_IFLNK
  /\ S_IFLNK \notin OtherFile
  /\ Nothing \notin OtherFile
  /\ LooksLikeLink(S_IFLNK)
<1> USE DEF S_IFIFO, S_IFCHR, S_IFDIR, S_IFBLK, S_IFREG, S_IFLNK, S_IFSOCK, Nothing
<1>1. 2 \in S_IFLNK /\ 8 \in S_IFLNK /\ 2 \notin Nothing
  OBVIOUS
<1>2. 2 \notin S_IFIFO /\ 8 \notin S_IFCHR /\ 2 \notin S_IFDIR /\ 8 \notin S_IFBLK
  OBVIOUS
<1>3. 2 \notin S_IFREG /\ 2 \notin S_IFSOCK
  OBVIOUS
<1>4. 1 \in S_IFIFO /\ 2 \in S_IFCHR /\ 4 \in S_IFDIR /\ 4 \in S_IFBLK
  OBVIOUS
<1>5. 8 \in S_IFREG /\ 4 \in S_IFSOCK
  OBVIOUS
<1>6. \A n : n \notin Nothing
  OBVIOUS
<1>7. LooksLikeLink(S_IFLNK)
  <2>1. 2 \in S_IFLNK \cap S_IFLNK
    BY <1>1
  <2> QED
    BY <2>1 DEF LooksLikeLink
<1> HIDE DEF S_IFIFO, S_IFCHR, S_IFDIR, S_IFBLK, S_IFREG, S_IFLNK, S_IFSOCK, Nothing
<1>8. S_IFLNK # Nothing /\ S_IFDIR # S_IFLNK
  BY <1>1, <1>2
<1>9. S_IFLNK \notin OtherFile
  BY <1>1, <1>2, <1>3 DEF OtherFile
<1>10. Nothing \notin OtherFile
  BY <1>4, <1>5, <1>6 DEF OtherFile
<1> QED
  BY <1>7, <1>8, <1>9, <1>10

LEMMA InitInv == Init => IInv
<1> SUFFICES ASSUME Init PROVE IInv
  OBVIOUS
<1>1. TypeOK
  BY DEF Init, TypeOK
<1>2. \A i \in Instance : pc[i] = "off"
  BY DEF Init
<1>3. UpHasPort /\ PastReadlink /\ RunningHasLink /\ LoserHasWinner /\ DisturbedOrSame
  BY <1>2 DEF UpHasPort, Up, PastReadlink, RunningHasLink, Running, LoserHasWinner, DisturbedOrSame
<1>4. RaceHasWinner
  BY DEF Init, RaceHasWinner
<1> QED
  BY <1>1, <1>3, <1>4 DEF IInv

LEMMA OpenPtyType ==
  ASSUME TypeOK, UpHasPort, NEW i \in Instance, OpenPty(i)
  PROVE  TypeOK' /\ UpHasPort'
<1>1. PICK q \in Port : port' = [port EXCEPT ![i] = q]
  BY DEF OpenPty
<1>2. pc' = [pc EXCEPT ![i] = "lstat"] /\ UNCHANGED <<path, disturbed>>
  BY DEF OpenPty, GoTo
<1>3. failed' \subseteq Instance /\ stopped' \in BOOLEAN
  BY DEF OpenPty, TypeOK
<1>4. TypeOK'
  BY <1>1, <1>2, <1>3 DEF TypeOK
<1>5. UpHasPort'
  BY <1>1, <1>2 DEF TypeOK, UpHasPort, Up
<1> QED
  BY <1>4, <1>5

(* A step preserves the type invariant.                                    *)
LEMMA TypeInv ==
  ASSUME TypeOK, UpHasPort, [Next]_vars
  PROVE  TypeOK' /\ UpHasPort'
<1> USE TypeBits DEF TypeOK, UpHasPort, Up, history, GoTo
<1>1. ASSUME NEW i \in Instance, Fail(i) PROVE TypeOK' /\ UpHasPort'
  BY <1>1 DEF Fail
<1>2. ASSUME NEW i \in Instance, OpenPty(i) PROVE TypeOK' /\ UpHasPort'
  BY <1>2, OpenPtyType
<1>3. ASSUME NEW i \in Instance, Lstat(i) PROVE TypeOK' /\ UpHasPort'
  BY <1>1, <1>3 DEF Lstat, Accepted
<1>4. ASSUME NEW i \in Instance, Readlink(i) PROVE TypeOK' /\ UpHasPort'
  BY <1>1, <1>4 DEF Readlink, GotTarget
<1>5. ASSUME NEW i \in Instance, Unlink(i) PROVE TypeOK' /\ UpHasPort'
  BY <1>1, <1>5 DEF Unlink, Removed, CreateLink, Changes
<1>6. ASSUME NEW i \in Instance, MakeLink(i) PROVE TypeOK' /\ UpHasPort'
  BY <1>1, <1>6 DEF MakeLink, Changes, NewLink
<1>7. ASSUME NEW i \in Instance, Stop(i) PROVE TypeOK' /\ UpHasPort'
  BY <1>7 DEF Stop
<1>8. CASE UNCHANGED vars
  BY <1>8 DEF vars
<1> QED
  BY <1>2, <1>3, <1>4, <1>5, <1>6, <1>7, <1>8 DEF Next

(* The parts of the invariant that relate the path to the instances, for   *)
(* one instance at a time.                                                 *)
Rest == PastReadlink /\ RunningHasLink /\ LoserHasWinner /\ RaceHasWinner /\ DisturbedOrSame

LEMMA RestInv ==
  ASSUME IInv, [Next]_vars, TypeOK'
  PROVE  Rest'
<1> USE TypeBits DEF IInv, TypeOK, Rest, history, GoTo, Up, UpHasPort, Linkable, Running, Linking, Leads
<1> HIDE DEF IInv, Rest
<1>1. ASSUME NEW i \in Instance, OpenPty(i) PROVE Rest'
  <2>1. PastReadlink'
    BY <1>1 DEF OpenPty, IInv, PastReadlink
  <2>2. RunningHasLink'
    BY <1>1 DEF OpenPty, IInv, RunningHasLink
  <2>3. LoserHasWinner'
    BY <1>1 DEF OpenPty, IInv, LoserHasWinner
  <2>4. RaceHasWinner'
    BY <1>1 DEF OpenPty, IInv, RaceHasWinner
  <2>5. DisturbedOrSame'
    BY <1>1 DEF OpenPty, IInv, DisturbedOrSame
  <2> QED
    BY <2>1, <2>2, <2>3, <2>4, <2>5 DEF Rest
<1>2. ASSUME NEW i \in Instance, Lstat(i) PROVE Rest'
  <2>1. PastReadlink'
    BY <1>2 DEF Lstat, Accepted, Fail, IInv, PastReadlink
  <2>2. RunningHasLink'
    BY <1>2 DEF Lstat, Accepted, Fail, IInv, RunningHasLink
  <2>3. LoserHasWinner'
    BY <1>2 DEF Lstat, Accepted, Fail, IInv, LoserHasWinner
  <2>4. RaceHasWinner'
    BY <1>2 DEF Lstat, Accepted, Fail, IInv, RaceHasWinner
  <2>5. DisturbedOrSame'
    BY <1>2 DEF Lstat, Accepted, Fail, IInv, DisturbedOrSame
  <2> QED
    BY <2>1, <2>2, <2>3, <2>4, <2>5 DEF Rest
<1>3. ASSUME NEW i \in Instance, Readlink(i) PROVE Rest'
  <2>1. PastReadlink'
    BY <1>3 DEF Readlink, GotTarget, Fail, IInv, PastReadlink
  <2>2. RunningHasLink'
    BY <1>3 DEF Readlink, GotTarget, Fail, IInv, RunningHasLink
  <2>3. LoserHasWinner'
    BY <1>3 DEF Readlink, GotTarget, Fail, IInv, LoserHasWinner
  <2>4. RaceHasWinner'
    BY <1>3 DEF Readlink, GotTarget, Fail, IInv, RaceHasWinner, LoserHasWinner
  <2>5. DisturbedOrSame'
    BY <1>3 DEF Readlink, GotTarget, Fail, IInv, DisturbedOrSame
  <2> QED
    BY <2>1, <2>2, <2>3, <2>4, <2>5 DEF Rest
<1>4. ASSUME NEW i \in Instance, Unlink(i) PROVE Rest'
  <2>1. PastReadlink'
    BY <1>4 DEF Unlink, Removed, CreateLink, Changes, Fail, IInv, PastReadlink
  <2>2. RunningHasLink'
    BY <1>4 DEF Unlink, Removed, CreateLink, Changes, Fail, IInv, RunningHasLink
  <2>3. LoserHasWinner'
    BY <1>4 DEF Unlink, Removed, CreateLink, Changes, Fail, IInv, LoserHasWinner
  <2>4. RaceHasWinner'
    BY <1>4 DEF Unlink, Removed, CreateLink, Changes, Fail, IInv, RaceHasWinner, LoserHasWinner, PastReadlink
  <2>5. DisturbedOrSame'
    BY <1>4 DEF Unlink, Removed, CreateLink, Changes, Fail, IInv, DisturbedOrSame
  <2> QED
    BY <2>1, <2>2, <2>3, <2>4, <2>5 DEF Rest
<1>5. ASSUME NEW i \in Instance, MakeLink(i) PROVE Rest'
  <2> USE DEF NewLink
  <2>1. PastReadlink'
    BY <1>5 DEF MakeLink, Changes, Fail, IInv, PastReadlink
  <2>2. RunningHasLink'
    BY <1>5 DEF MakeLink, Changes, Fail, IInv, RunningHasLink
  <2>3. LoserHasWinner'
    BY <1>5 DEF MakeLink, Changes, Fail, IInv, LoserHasWinner
  <2>4. RaceHasWinner'
    BY <1>5 DEF MakeLink, Changes, Fail, IInv, RaceHasWinner, LoserHasWinner, PastReadlink
  <2>5. DisturbedOrSame'
    BY <1>5 DEF MakeLink, Changes, Fail, IInv, DisturbedOrSame
  <2> QED
    BY <2>1, <2>2, <2>3, <2>4, <2>5 DEF Rest
<1>6. ASSUME NEW i \in Instance, Stop(i) PROVE Rest'
  BY <1>6 DEF Stop, IInv, Rest, PastReadlink, RunningHasLink, LoserHasWinner,
              RaceHasWinner, DisturbedOrSame
<1>7. CASE UNCHANGED vars
  BY <1>7 DEF vars, IInv, Rest, PastReadlink, RunningHasLink, LoserHasWinner,
              RaceHasWinner, DisturbedOrSame
<1> QED
  BY <1>1, <1>2, <1>3, <1>4, <1>5, <1>6, <1>7 DEF Next

LEMMA StepInv == IInv /\ [Next]_vars => IInv'
<1> SUFFICES ASSUME IInv, [Next]_vars PROVE IInv'
  OBVIOUS
<1>1. TypeOK' /\ UpHasPort'
  BY TypeInv DEF IInv
<1>2. Rest'
  BY <1>1, RestInv
<1> QED
  BY <1>1, <1>2 DEF IInv, Rest

(* The invariant holds in every state, whatever the instances do and       *)
(* whenever they are stopped and started again.                            *)
THEOREM Invariance == Spec => []IInv
BY InitInv, StepInv, PTL DEF Spec

(* Instances of vserial_manage_symlink() that race for a path do not all   *)
(* fail.                                                                   *)
THEOREM OneWins == Spec => []RaceHasWinner
<1>1. IInv => RaceHasWinner
  BY DEF IInv
<1> QED
  BY <1>1, Invariance, PTL

(* As long as instances are running, and none is replacing the link or was *)
(* stopped, the link of vserial_manage_symlink() leads to one of them.     *)
THEOREM LinkLeadsToRunning == Spec => []LinkIsLive
<1>1. IInv => LinkIsLive
  BY DEF IInv, RunningHasLink, Running, Linking, Leads, LinkIsLive
<1> QED
  BY <1>1, Invariance, PTL

(* vserial_manage_symlink() never removes what is not a symbolic link.     *)
THEOREM NoFileIsRemoved == Spec => FilesAreKept
<1>1. ASSUME IInv, [Next]_vars
      PROVE  [~Linkable => path' = path]_vars
  <2> SUFFICES ASSUME ~Linkable, Next PROVE path' = path
    BY <1>1 DEF vars
  <2>1. PICK i \in Instance : \/ OpenPty(i) \/ Lstat(i) \/ Readlink(i)
                              \/ Unlink(i) \/ MakeLink(i) \/ Stop(i)
    BY DEF Next
  <2>2. pc[i] \notin {"unlink", "symlink"}
    BY <1>1 DEF IInv, PastReadlink
  <2> QED
    BY <2>1, <2>2 DEF OpenPty, Lstat, Readlink, GotTarget, Unlink, MakeLink, Stop, Fail, history
<1> QED
  BY <1>1, Invariance, PTL DEF Spec, FilesAreKept

(* vserial_manage_symlink() is fatal only for a file that is no link, or   *)
(* after another instance has changed the path behind its back.            *)
THEOREM FailureIsExplained == Spec => FailureNeedsRace
<1>1. ASSUME IInv, [Next]_vars
      PROVE  [failed' \ failed \subseteq disturbed \/ ~Linkable]_vars
  <2> SUFFICES ASSUME Linkable, Next, NEW j \in failed' \ failed PROVE j \in disturbed
    BY <1>1 DEF vars
  <2>1. PICK i \in Instance : \/ OpenPty(i) \/ Lstat(i) \/ Readlink(i)
                              \/ Unlink(i) \/ MakeLink(i) \/ Stop(i)
    BY DEF Next
  <2>2. i = j /\ Fail(i)
    BY <2>1 DEF OpenPty, Lstat, Readlink, GotTarget, Unlink, Changes, MakeLink, Stop, Fail, history
  <2>3. \/ pc[i] \in {"readlink", "unlink"} /\ path.type # S_IFLNK
        \/ pc[i] = "symlink" /\ path.type # Nothing
    <3>1. ~OpenPty(i) /\ ~Stop(i)
      BY <2>2 DEF OpenPty, Stop
    <3>2. Lstat(i) => path.type # Nothing /\ ~LooksLikeLink(path.type)
      BY <2>2 DEF Lstat, Accepted
    <3>3. ~Lstat(i)
      BY <3>2, TypeBits DEF Linkable
    <3>4. Readlink(i) => pc[i] = "readlink" /\ path.type # S_IFLNK
      BY <2>2 DEF Readlink, GotTarget, history
    <3>5. Unlink(i) => pc[i] = "unlink" /\ path.type # S_IFLNK
      BY <2>2, TypeBits DEF Unlink, Removed, CreateLink, Changes
    <3>6. MakeLink(i) => pc[i] = "symlink" /\ path.type # Nothing
      BY <2>2 DEF MakeLink, Changes
    <3> QED
      BY <2>1, <3>1, <3>3, <3>4, <3>5, <3>6
  <2> QED
    BY <1>1, <2>2, <2>3, TypeBits DEF IInv, DisturbedOrSame
<1> QED
  BY <1>1, Invariance, PTL DEF Spec, FailureNeedsRace

(* The state of the path and of the instances is typed.                    *)
THEOREM TypeCorrect == Spec => []TypeOK
<1>1. IInv => TypeOK
  BY DEF IInv
<1> QED
  BY <1>1, Invariance, PTL
=============================================================================
