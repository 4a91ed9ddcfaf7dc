--------------------------- MODULE VserialProofs ---------------------------
(***************************************************************************)
(* Proofs about Vserial, for every set of control lines and of status      *)
(* bits: no change of the lines is lost, the radio is up to date when the  *)
(* driver is idle, and every step is one that PttFollower allows.          *)
(***************************************************************************)
EXTENDS Vserial, TLAPS

(* The status byte is a local variable of the read callback, and between   *)
(* deliveries the radio is in the state that the copy of the lines says.   *)
PacketIsLocal == pc # "packet" => packet = {}
PttIsModemBits ==
  pc \in {"loop", "read", "packet"} => ptt = PttOf(modem_bits)

(* The inductive invariant.                                                *)
IInv == TypeOK /\ NoLostChange /\ PacketIsLocal /\ PttIsModemBits

LEMMA InitInv == Init => IInv
BY DEF Init, IInv, TypeOK, NoLostChange, PacketIsLocal, PttIsModemBits

(* The client's steps, and an exit of the program.                         *)
LEMMA EnvironmentInv ==
  ASSUME IInv, Client \/ RigFails \/ IoFails \/ UNCHANGED vars
  PROVE  IInv'
<1> USE StatusAssumption DEF IInv, kernel
<1>1. ASSUME NEW set \in SUBSET Line, NEW clear \in SUBSET Line,
             SetLines(set, clear)
      PROVE  IInv'
  BY <1>1 DEF SetLines, TypeOK, NoLostChange, PacketIsLocal, PttIsModemBits
<1>2. ASSUME NEW s \in Status, OtherStatus(s)
      PROVE  IInv'
  BY <1>2 DEF OtherStatus, TypeOK, NoLostChange, PacketIsLocal, PttIsModemBits
<1>3. CASE WriteData
  BY <1>3 DEF WriteData, TypeOK, NoLostChange, PacketIsLocal, PttIsModemBits
<1>4. CASE RigFails
  BY <1>4 DEF RigFails, TypeOK, NoLostChange, PacketIsLocal, PttIsModemBits
<1>5. CASE IoFails
  BY <1>5 DEF IoFails, TypeOK, NoLostChange, PacketIsLocal, PttIsModemBits
<1>6. CASE UNCHANGED vars
  BY <1>6 DEF vars, TypeOK, NoLostChange, PacketIsLocal, PttIsModemBits
<1> QED
  BY <1>1, <1>2, <1>3, <1>4, <1>5, <1>6 DEF Client

(* The driver's steps.                                                     *)
LEMMA DriverInv ==
  ASSUME IInv, Driver
  PROVE  IInv'
<1> USE DEF IInv, kernel, TypeOK, NoLostChange, PacketIsLocal, PttIsModemBits
<1>1. CASE LifecycleInit
  BY <1>1 DEF LifecycleInit
<1>2. CASE RigOpened
  BY <1>2 DEF RigOpened
<1>3. CASE DeliverFcChanged
  BY <1>3 DEF DeliverFcChanged, PttOf
<1>4. CASE PollCb
  BY <1>4 DEF PollCb
<1>5. CASE ReadStatus
  BY <1>5 DEF ReadStatus
<1>6. CASE ReadData
  BY <1>6 DEF ReadData
<1>7. CASE HandleOther
  BY <1>7 DEF HandleOther, HasMset
<1>8. CASE HandleMset
  BY <1>8 DEF HandleMset, HasMset
<1> QED
  BY <1>1, <1>2, <1>3, <1>4, <1>5, <1>6, <1>7, <1>8 DEF Driver

(* The invariant holds in every reachable state.                           *)
THEOREM Invariance == Spec => []IInv
<1>1. IInv /\ [Next]_vars => IInv'
  BY EnvironmentInv, DriverInv DEF Next
<1> QED
  BY InitInv, <1>1, PTL DEF Spec

(* No change of the control lines is lost between the kernel and the       *)
(* driver's copy of them.                                                  *)
THEOREM NothingIsLost == Spec => []NoLostChange
<1>1. IInv => NoLostChange
  BY DEF IInv
<1> QED
  BY Invariance, <1>1, PTL

(* An idle driver with nothing to read has keyed the radio as RTS says.    *)
THEOREM IdleIsUpToDate == Spec => []PttUpToDate
<1>1. IInv => PttUpToDate
  BY DEF IInv, NoLostChange, PacketIsLocal, PttIsModemBits, PttUpToDate
<1> QED
  BY Invariance, <1>1, PTL

(* Every step is one of PttFollower, or changes nothing it sees.           *)
THEOREM Refinement == Spec => Follower!Spec
<1>1. Init => Follower!Init
  BY DEF Init, Follower!Init
<1>2. ASSUME IInv, [Next]_vars
      PROVE  [Follower!Next]_(Follower!vars)
  <2> USE DEF kernel, Follower!Next, Follower!vars
  <2>1. CASE Client
    <3>1. UNCHANGED <<modem_bits, pc, ptt>>
      BY <2>1 DEF Client, SetLines, OtherStatus, WriteData
    <3> QED
      BY <3>1 DEF Follower!Client
  <2>2. CASE LifecycleInit
    BY <2>2 DEF LifecycleInit, Follower!Sample
  <2>3. CASE RigOpened
    BY <2>3 DEF RigOpened
  <2>4. CASE DeliverFcChanged
    BY <2>4 DEF DeliverFcChanged, PttOf, Follower!Apply
  <2>5. CASE PollCb \/ ReadStatus \/ HandleOther
    BY <2>5 DEF PollCb, ReadStatus, HandleOther
  <2>6. CASE ReadData \/ RigFails \/ IoFails
    BY <2>6 DEF ReadData, RigFails, IoFails, Follower!Stop
  <2>7. CASE HandleMset
    <3>1. CASE fake_mbits = modem_bits
      BY <2>7, <3>1 DEF HandleMset
    <3>2. CASE fake_mbits # modem_bits
      BY <2>7, <3>2 DEF HandleMset, Follower!Sample
    <3> QED
      BY <3>1, <3>2
  <2>8. CASE UNCHANGED vars
    BY <2>8 DEF vars
  <2> QED
    BY <2>1, <2>2, <2>3, <2>4, <2>5, <2>6, <2>7, <2>8, <1>2 DEF Next, Driver
<1> QED
  BY <1>1, <1>2, Invariance, PTL DEF Spec, Follower!Spec

(* The state of a port, its driver and its radio is typed.                 *)
THEOREM TypeCorrect == Spec => []TypeOK
<1>1. IInv => TypeOK
  BY DEF IInv
<1> QED
  BY <1>1, Invariance, PTL
=============================================================================
