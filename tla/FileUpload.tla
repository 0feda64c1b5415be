----------------------------- MODULE FileUpload -----------------------------
(***************************************************************************)
(* MTPSession::send_data_from_file, the data phase of SendObject: a header *)
(* and a file cut into USB bulk writes, and the device's endpoint, which   *)
(* knows the phase is over only from a packet shorter than the endpoint's  *)
(* maximum.  Bytes are counted, not stored.  The file may change length    *)
(* while it is sent, any write may fail and the user may cancel.           *)
(***************************************************************************)
EXTENDS Integers

CONSTANTS
  HDR,        (* CONTAINER_HEADER_SIZE                                       *)
  MaxPkts,    (* wMaxPacketSize values endpoints have                        *)
  SuperSpeed, (* the packet size from which CHUNK_SIZE_USB3 is used          *)
  ChunkHS,    (* CHUNK_SIZE                                                  *)
  ChunkSS,    (* CHUNK_SIZE_USB3                                             *)
  MaxLen,     (* the largest container length 32 bits hold                   *)
  MaxSize     (* bound: largest file                                         *)

(* The chunk a transfer uses on an endpoint with packets of p bytes. *)
ChunkOf(p) == IF p >= SuperSpeed THEN ChunkSS ELSE ChunkHS

ASSUME SizesAssumption ==
  /\ HDR \in Nat \ {0} /\ MaxSize \in Nat /\ MaxLen \in Nat /\ SuperSpeed \in Nat
  /\ ChunkHS \in Nat \ {0} /\ ChunkSS \in Nat \ {0}
  /\ MaxPkts \subseteq Nat
  /\ \A p \in MaxPkts : HDR < p /\ ChunkOf(p) % p = 0

VARIABLES
  maxPkt,   (* ep_.bulk_out_max_pkt of the connected endpoint                *)
  size,     (* file_size, measured when the upload was queued                *)
  onDisk,   (* how long the file is now                                      *)
  shrunk,   (* history variable: it has been shorter than size               *)
  eof,      (* a short read has set the stream's eofbit: no read gives more  *)
  cancel,   (* item.cancel                                                   *)
  pc,       (* "first", "test", "read", "check", "zlp", "sent" or "thrown"   *)
  sent,     (* file bytes sent                                               *)
  last,     (* last_write_size                                               *)
  got,      (* bytes the device received in this data phase                  *)
  ends,     (* end-of-phase marks (short or empty packets) it saw            *)
  lost      (* the empty packet was sent and did not arrive                  *)

file == <<maxPkt, size>>
device == <<got, ends, lost>>
disk == <<onDisk, shrunk>>
vars == <<file, disk, eof, cancel, pc, sent, last, device>>

Least(a, b) == IF a < b THEN a ELSE b

Chunk == ChunkOf(maxPkt)

(* The length field of the data container. *)
WireLen == Least(HDR + size, MaxLen)

Init ==
  /\ maxPkt \in MaxPkts
  /\ size \in 0..MaxSize
  /\ onDisk = size
  /\ shrunk = FALSE
  /\ eof = FALSE
  /\ cancel = FALSE
  /\ pc = "first"
  /\ sent = 0
  /\ last = 0
  /\ got = 0
  /\ ends = 0
  /\ lost = FALSE

(* Another program writes to the file; the user cancels. *)
Resize ==
  /\ pc \notin {"sent", "thrown"}
  /\ onDisk' \in 0..MaxSize
  /\ shrunk' = (shrunk \/ onDisk' < size)
  /\ UNCHANGED <<file, eof, cancel, pc, sent, last, device>>

Cancel ==
  /\ ~cancel
  /\ cancel' = TRUE
  /\ UNCHANGED <<file, disk, eof, pc, sent, last, device>>

(* The gcount of an ifs.read of want bytes at position sent. *)
ReadCount(want) ==
  IF eof \/ onDisk <= sent THEN 0 ELSE Least(want, onDisk - sent)

(* One bulk_write of n > 0 bytes: the device sees full packets and, unless n  *)
(* fills the last one, a short packet.                                        *)
Deliver(n) ==
  /\ got' = got + n
  /\ ends' = IF n % maxPkt = 0 THEN ends ELSE ends + 1
  /\ UNCHANGED lost

(* What goes with the header in the first write. *)
MutHeaderOnly == 0
FirstWant == Least(maxPkt - HDR, size)

(* Open the file and write the header with the first bytes, one packet in all. *)
FirstPacket ==
  /\ pc = "first"
  /\ LET n == ReadCount(FirstWant)
     IN /\ sent' = n
        /\ last' = HDR + n
        /\ eof' = (n < FirstWant)
        /\ Deliver(HDR + n)
  /\ pc' = "test"
  /\ UNCHANGED <<file, disk, cancel>>

(* The loop condition and the first cancel check. *)
MutStopsEarly == sent + Chunk >= size
AllSent == sent >= size

LoopTest ==
  /\ pc = "test"
  /\ pc' = IF AllSent THEN "zlp" ELSE IF cancel THEN "thrown" ELSE "read"
  /\ UNCHANGED <<file, disk, eof, cancel, sent, last, device>>

Want == Least(Chunk, size - sent)

MutLoopsOnEmpty == "test"
AfterEmptyRead == "zlp"

Count(n) == sent' = sent + n

ReadWrite ==
  /\ pc = "read"
  /\ LET n == ReadCount(Want)
     IN /\ eof' = (n < Want)
        /\ IF n = 0
             THEN pc' = AfterEmptyRead /\ UNCHANGED <<sent, last, device>>
             ELSE pc' = "check" /\ Count(n) /\ last' = n /\ Deliver(n)
  /\ UNCHANGED <<file, disk, cancel>>

CancelCheck ==
  /\ pc = "check"
  /\ pc' = IF cancel THEN "thrown" ELSE "test"
  /\ UNCHANGED <<file, disk, eof, cancel, sent, last, device>>

(* How many bytes the next bulk_write has. *)
WriteSize ==
  CASE pc = "first" -> HDR + ReadCount(FirstWant)
    [] pc = "read" -> ReadCount(Want)
    [] OTHER -> 0

(* A write that times out, stalls or comes up short throws, after any part of *)
(* it has gone out in full packets.                                           *)
WriteFails ==
  /\ WriteSize > 0
  /\ pc' = "thrown"
  /\ \E k \in 0..(WriteSize \div maxPkt) : got' = got + k * maxPkt
  /\ UNCHANGED <<file, disk, eof, cancel, sent, last, ends, lost>>

(* The zero-length packet, whose result nobody looks at. *)
MutNeverZlp == FALSE
NeedsZlp == last % maxPkt = 0

Zlp ==
  /\ pc = "zlp"
  /\ pc' = "sent"
  /\ IF NeedsZlp
       THEN \/ ends' = ends + 1 /\ UNCHANGED lost
            \/ lost' = TRUE /\ UNCHANGED ends
       ELSE UNCHANGED <<ends, lost>>
  /\ UNCHANGED <<file, disk, eof, cancel, sent, last, got>>

Next ==
  \/ Resize \/ Cancel
  \/ FirstPacket \/ LoopTest \/ ReadWrite \/ CancelCheck \/ WriteFails \/ Zlp

Spec == Init /\ [][Next]_vars

(* The worker runs, and every write returns: each has a timeout. *)
FairSpec ==
  Spec /\ WF_vars(FirstPacket \/ LoopTest \/ ReadWrite \/ CancelCheck \/ WriteFails \/ Zlp)

------------------------------------------------------------------------------
(* Properties *)

(* The types of the transfer's variables; never more than file_size is sent.   *)
TypeOK ==
  /\ maxPkt \in MaxPkts /\ size \in 0..MaxSize /\ onDisk \in 0..MaxSize
  /\ {shrunk, eof, cancel, lost} \subseteq BOOLEAN
  /\ pc \in {"first", "test", "read", "check", "zlp", "sent", "thrown"}
  /\ sent \in 0..size /\ last \in Nat /\ got \in Nat /\ ends \in Nat

(* "Sending a 12-byte-only short packet (previous approach) causes DBI/Sphaira *)
(* to think the data phase ended before any file bytes were delivered": once   *)
(* the device has seen the phase end, no byte and no packet follows, however   *)
(* the file changes (an empty packet would be taken for the next command).     *)
NothingAfterEnd == [][ends > 0 => UNCHANGED <<got, ends>>]_vars

(* When the function returns the device has seen the phase end, once; "the     *)
(* device may hang waiting for more data" only if the empty packet got lost.   *)
EndIsSeen == pc = "sent" => ends = (IF lost THEN 0 ELSE 1)

(* A file that was never shorter than announced arrives whole, and counting to *)
(* the announced length brings the device to the same place as the short       *)
(* packet, except where the 32-bit length is cut.                              *)
Complete ==
  (pc = "sent" /\ ~shrunk) => got = HDR + size /\ (got = WireLen \/ got > MaxLen)

(* The data phase ends, however the file changes under it. *)
Terminates == <>(pc \in {"sent", "thrown"})
==============================================================================
