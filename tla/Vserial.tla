------------------------------ MODULE Vserial ------------------------------
(***************************************************************************)
(* One virtual serial port and the radio it keys: the vserial driver       *)
(* (drivers/vserial.c), its user, the test module (modules/test.c), and    *)
(* what surrounds them: the pseudoterminal of the patched kernel           *)
(* (kernel/linux+pty_tiocmset.patch), the program that has opened the      *)
(* slave end, and the radio behind hamlib.                                 *)
(*                                                                         *)
(* A client changes the control lines whenever it likes, in particular     *)
(* between any two system calls of the driver.  The kernel keeps the lines *)
(* (fake_mbits) and a set of pending status bits (ctrl_status), not a      *)
(* queue of changes: several changes leave one TIOCPKT_MSET, which says    *)
(* that the lines were set but not to what.  The driver keeps a copy of    *)
(* the lines as it last saw them and calls its user when they differ.      *)
(***************************************************************************)
CONSTANTS Line,     \* the control lines: TIOCM_RTS, TIOCM_DTR, ...
          RTS,
          Status,   \* bits of a status packet: TIOCPKT_MSET, TIOCPKT_IOCTL, ...
          MSET

ASSUME LineAssumption == RTS \in Line
ASSUME StatusAssumption == MSET \in Status

VARIABLES
  fake_mbits,    \* kernel: the lines of the slave
  ctrl_status,   \* kernel: status bits the master has not read
  written,       \* kernel: the client has written data the master has not read
  modem_bits,    \* vserial_context: the lines as last seen
  packet,        \* the status bits vserial_handle_read() has read
  pc,            \* where control is
  ptt            \* whether the radio transmits: "on" or "off"

kernel == <<fake_mbits, ctrl_status, written>>
vars == <<kernel, modem_bits, packet, pc, ptt>>

TypeOK ==
  /\ fake_mbits \in SUBSET Line
  /\ ctrl_status \in SUBSET Status
  /\ written \in BOOLEAN
  /\ modem_bits \in SUBSET Line
  /\ packet \in SUBSET Status
  /\ pc \in {"init", "started", "deliver", "loop", "read", "packet", "exited"}
  /\ ptt \in {"on", "off"}

(* The slave exists, in packet mode, and its path is known to clients (the *)
(* symbolic link was made), but vserial_lifecycle_init() has not looked at *)
(* it yet.  Setting EXTPROC may have left a status that is not MSET.  The  *)
(* radio may be in any state.                                              *)
Init ==
  /\ fake_mbits = {}
  /\ ctrl_status \in SUBSET (Status \ {MSET})
  /\ written = FALSE
  /\ modem_bits = {}
  /\ packet = {}
  /\ pc = "init"
  /\ ptt \in {"on", "off"}

-----------------------------------------------------------------------------
(* The client.  The master end is closed when righack exits.               *)

(* ioctl(TIOCMSET), TIOCMBIS or TIOCMBIC: pts_tiocmset() of the patch,     *)
(* which is atomic.                                                        *)
SetLines(set, clear) ==
  /\ pc # "exited"
  /\ fake_mbits' = (fake_mbits \cup set) \ clear
  /\ ctrl_status' = ctrl_status \cup {MSET}
  /\ UNCHANGED <<written, modem_bits, packet, pc, ptt>>

(* tcflush(), tcflow() or tcsetattr(): a status bit that is not MSET.      *)
OtherStatus(s) ==
  /\ pc # "exited"
  /\ s # MSET
  /\ ctrl_status' = ctrl_status \cup {s}
  /\ UNCHANGED <<fake_mbits, written, modem_bits, packet, pc, ptt>>

(* write() *)
WriteData ==
  /\ pc # "exited"
  /\ written' = TRUE
  /\ UNCHANGED <<fake_mbits, ctrl_status, modem_bits, packet, pc, ptt>>

Client ==
  \/ \E set \in SUBSET Line, clear \in SUBSET Line : SetLines(set, clear)
  \/ \E s \in Status : OtherStatus(s)
  \/ WriteData

-----------------------------------------------------------------------------
(* The driver and its user. *)

(* vserial_lifecycle_init(): the first ioctl(TIOCMGET) of the slave.  The  *)
(* rest of the function (runloop_run_later() of the first delivery,        *)
(* runloop_poll_start()) is not visible to the client.                     *)
LifecycleInit ==
  /\ pc = "init"
  /\ modem_bits' = fake_mbits
  /\ pc' = "started"
  /\ UNCHANGED <<kernel, packet, ptt>>

(* test_lifecycle_start() goes on and rig_open() succeeds.  The delivery   *)
(* that was deferred runs later in the same walk of the deferred jobs,     *)
(* before libuv polls.                                                     *)
RigOpened ==
  /\ pc = "started"
  /\ pc' = "deliver"
  /\ UNCHANGED <<kernel, modem_bits, packet, ptt>>

(* update_flow_control(): what the lines make of the radio.  The variant   *)
(* keys it by any line.                                                    *)
PttOfAnyLine(bits) == IF bits # {} THEN "on" ELSE "off"
PttOf(bits) == IF RTS \in bits THEN "on" ELSE "off"

(* vserial_deliver_fc_changed() calls update_flow_control(), and           *)
(* rig_set_ptt() succeeds.                                                 *)
DeliverFcChanged ==
  /\ pc = "deliver"
  /\ ptt' = PttOf(modem_bits)
  /\ pc' = "loop"
  /\ UNCHANGED <<kernel, modem_bits, packet>>

(* rig_init(), rig_open() or rig_set_ptt() fails: util_fatal().            *)
RigFails ==
  /\ pc \in {"started", "deliver"}
  /\ pc' = "exited"
  /\ UNCHANGED <<kernel, modem_bits, packet, ptt>>

(* libuv finds the master readable and calls vserial_poll_cb().  A pending *)
(* status is reported as readable and as priority data, data as readable,  *)
(* so the callback's check that priority implies readable never fails.     *)
PollCb ==
  /\ pc = "loop"
  /\ ctrl_status # {} \/ written
  /\ pc' = "read"
  /\ UNCHANGED <<kernel, modem_bits, packet, ptt>>

(* vserial_handle_read(): in packet mode read() returns the pending status *)
(* bits, and clears them, before it returns any data.                      *)
ReadStatus ==
  /\ pc = "read"
  /\ ctrl_status # {}
  /\ packet' = ctrl_status
  /\ ctrl_status' = {}
  /\ pc' = "packet"
  /\ UNCHANGED <<fake_mbits, written, modem_bits, ptt>>

(* vserial_handle_read() reads data: util_fatal().                         *)
ReadData ==
  /\ pc = "read"
  /\ ctrl_status = {}
  /\ pc' = "exited"
  /\ UNCHANGED <<kernel, modem_bits, packet, ptt>>

(* vserial_handle_packet() looks for TIOCPKT_MSET.  The variant compares   *)
(* the status byte instead of testing the bit.                             *)
IsExactlyMset(status) == status = {MSET}
HasMset(status) == MSET \in status

(* A system call fails, which is fatal: ioctl(TIOCMGET) in                 *)
(* vserial_lifecycle_init() or vserial_handle_mset(), libuv's poll, or     *)
(* read().                                                                 *)
IoFails ==
  /\ pc \in {"init", "loop", "read"} \/ (pc = "packet" /\ HasMset(packet))
  /\ packet' = {}
  /\ pc' = "exited"
  /\ UNCHANGED <<kernel, modem_bits, ptt>>

(* vserial_handle_packet() of a packet without TIOCPKT_MSET.               *)
HandleOther ==
  /\ pc = "packet"
  /\ ~HasMset(packet)
  /\ packet' = {}
  /\ pc' = "loop"
  /\ UNCHANGED <<kernel, modem_bits, ptt>>

(* Two ways to get vserial_handle_mset() wrong: the new lines are not      *)
(* delivered; the status bits are stored for the lines.                    *)
HandleMsetSilently ==
  /\ pc = "packet"
  /\ HasMset(packet)
  /\ modem_bits' = fake_mbits
  /\ pc' = "loop"
  /\ packet' = {}
  /\ UNCHANGED <<kernel, ptt>>

HandleMsetStoresStatus ==
  /\ pc = "packet"
  /\ HasMset(packet)
  /\ modem_bits' = packet
  /\ pc' = "deliver"
  /\ packet' = {}
  /\ UNCHANGED <<kernel, ptt>>

(* vserial_handle_mset(): ioctl(TIOCMGET) gives the lines as they are now, *)
(* and the user is called only if they differ from the copy.               *)
HandleMset ==
  /\ pc = "packet"
  /\ HasMset(packet)
  /\ modem_bits' = fake_mbits
  /\ pc' = IF fake_mbits = modem_bits THEN "loop" ELSE "deliver"
  /\ packet' = {}
  /\ UNCHANGED <<kernel, ptt>>

Driver ==
  \/ LifecycleInit
  \/ RigOpened
  \/ DeliverFcChanged
  \/ PollCb
  \/ ReadStatus
  \/ ReadData
  \/ HandleOther
  \/ HandleMset

Next == Client \/ Driver \/ RigFails \/ IoFails

Spec == Init /\ [][Next]_vars

(* The program's own steps are taken: hamlib's calls return, and libuv     *)
(* polls.  Nothing is assumed of the client, nor that the radio works.     *)
FairSpec == Spec /\ WF_vars(Driver)
-----------------------------------------------------------------------------
(* No change of the lines is lost: when the driver's copy differs from the *)
(* lines, a status packet with MSET is pending, or has been read and the   *)
(* driver is about to look.  This needs read() to clear the status before  *)
(* TIOCMGET, and not after.                                                *)
NoLostChange ==
  pc \notin {"init", "exited"} /\ modem_bits # fake_mbits =>
    MSET \in ctrl_status \cup packet

(* When the driver is idle and no MSET is pending, the radio transmits if  *)
(* and only if RTS is set.                                                 *)
PttUpToDate ==
  pc \in {"loop", "read"} /\ MSET \notin ctrl_status => ptt = PttOf(fake_mbits)

(* Once RTS stays as it is, and the program stays up, the radio follows,   *)
(* whatever the client does with the other lines meanwhile.                *)
PttFollowsRts ==
  \A state \in {"on", "off"} :
    <>[](pc # "exited" /\ PttOf(fake_mbits) = state) => <>[](ptt = state)

(* A line of the client other than RTS never keys the radio or unkeys it,  *)
(* and neither do data or other status packets: from the first delivery    *)
(* on, every change of ptt answers a change of RTS that the driver saw.    *)
Follower == INSTANCE PttFollower WITH
  rts <- RTS \in fake_mbits,
  seen <- RTS \in modem_bits,
  ptt <- ptt = "on",
  phase <- CASE pc = "init" -> "starting"
             [] pc \in {"started", "deliver"} -> "applying"
             [] pc \in {"loop", "read", "packet"} -> "following"
             [] pc = "exited" -> "stopped"

FollowerSpec == Follower!FairSpec
=============================================================================
