------------------------------ MODULE Datasets ------------------------------
(***************************************************************************)
(* The datasets host and device exchange: the announcement of an upload    *)
(* (build_object_info, build_prop_list), sent by send_data in one write,   *)
(* and the readers of ObjectInfo, StorageInfo, DeviceInfo and arrays of    *)
(* handles.  A dataset is its length and the places of its fields: what a  *)
(* reader gets for a field is right if it reads the field's own bytes.     *)
(* Every reader checks the room for one field at a time, and leaves a      *)
(* field it has no room for, but not the ones after it.  The container's   *)
(* header has been taken off.                                              *)
(***************************************************************************)
EXTENDS MTPStrings

CONSTANTS
  HDR,      (* CONTAINER_HEADER_SIZE                                          *)
  MaxPkt,   (* packet size of the bulk-out endpoint                           *)
  Names,    (* bound: names of files to upload, in bytes                      *)
  Natives,  (* bound: names of objects the device has itself, in units        *)
  Texts,    (* bound: the other strings devices send                          *)
  Strays,   (* bound: units found where the bytes are not of a string         *)
  Ends,     (* bound: how much of a dataset may have been received            *)
  MaxElems  (* bound: the length of arrays                                    *)

ASSUME WireAssumption ==
  /\ HDR \in Nat /\ HDR % 2 = 0
  /\ MaxPkt \in Nat \ {0} /\ MaxPkt % 2 = 0
  /\ Ends \subseteq Nat /\ MaxElems \in Nat

(* File names have no zero byte; a unit has 16 bits; devices count their       *)
(* strings right.                                                              *)
ASSUME StringsAssumption ==
  /\ Names \subseteq Seq(Nat \ {0}) /\ Natives \subseteq Seq(Nat \ {0})
  /\ \A n \in Names : \A k \in 1..Len(n) : n[k] < 256
  /\ \A n \in Natives : Len(n) < CountCap /\ \A k \in 1..Len(n) : n[k] < 65536
  /\ Strays \subseteq Nat /\ \A u \in Strays : u < 65536
  /\ \A t \in Texts : t \in [count : 0..CountCap, units : Seq(Nat)] /\ t.count = Len(t.units)

VARIABLES
  stage,    (* "announce", "parse", "done"                                    *)
  via,      (* how the name got to the device: "SendObjectPropList",          *)
            (* "SendObjectInfo", or "none" for an object of its own           *)
  name,     (* the local file's name, in bytes                                *)
  stored,   (* the name the device has for the object, in units               *)
  sent,     (* bytes of the data container that announced it                  *)
  dataset,  (* the dataset the host reads                                     *)
  text, elems, (* the other strings and the arrays in it                      *)
  end,      (* bytes of it that were received                                 *)
  field,    (* the field the reader is at                                     *)
  p,        (* the reader's cursor                                            *)
  at,       (* where that field begins in the dataset                         *)
  intact,   (* history variable: the fields that were received whole          *)
  right,    (* history variable: the fields read from their own bytes         *)
  shown     (* the filename read, in bytes                                    *)

upload == <<via, name, stored, sent>>
source == <<dataset, text, elems, end>>
vars == <<stage, upload, source, field, p, at, intact, right, shown>>

------------------------------------------------------------------------------
(* Layouts *)

Num(w) == [kind |-> "num", width |-> w]
Arr(w) == [kind |-> "arr", width |-> w]
Str == [kind |-> "str", width |-> 2]

ObjectInfo ==
  <<Num(4), Num(2), Num(2), Num(4), Num(2), Num(4), Num(4), Num(4), Num(4), Num(4), Num(4),
    Num(4), Num(2), Num(4), Num(4), Str, Str, Str, Str>>
StorageInfo == <<Num(2), Num(2), Num(2), Num(8), Num(8), Num(4), Str, Str>>
DeviceInfo ==
  <<Num(2), Num(4), Num(2), Str, Num(2), Arr(2), Arr(2), Arr(2), Arr(2), Arr(2),
    Str, Str, Str, Str>>
Handles == <<Arr(4)>>

Layout(d) ==
  CASE d = "ObjectInfo"  -> ObjectInfo
    [] d = "StorageInfo" -> StorageInfo
    [] d = "DeviceInfo"  -> DeviceInfo
    [] d = "Handles"     -> Handles

Filename == 16   \* its place in ObjectInfo

(* build_object_info fills the same layout: 52 bytes, the name, and three      *)
(* empty strings.                                                              *)
ObjectInfoSize(n) == 52 + Size(Encode(n)) + 3

MutOneZeroByte(n) == 11 + Size(Encode(n))

(* build_prop_list: one property, with its object, its code and its type. *)
PropListSize(n) == 12 + Size(Encode(n))

------------------------------------------------------------------------------
(* A device terminates its strings and counts them right. *)
Terminated(units) ==
  IF units = <<>> THEN Empty ELSE [count |-> Len(units) + 1, units |-> Append(units, 0)]

(* A DeviceInfo has a payload: connect() would parse the header of an empty one. *)
Init ==
  /\ dataset \in {"ObjectInfo", "StorageInfo", "DeviceInfo", "Handles"}
  /\ \/ /\ dataset = "ObjectInfo"
        /\ stage = "announce" /\ via \in {"SendObjectPropList", "SendObjectInfo"}
        /\ name \in Names /\ stored = <<>>
        /\ elems = 0
     \/ /\ stage = "parse" /\ via = "none"
        /\ name = <<>> /\ stored \in (IF dataset = "ObjectInfo" THEN Natives ELSE {<<>>})
        /\ elems \in (IF dataset \in {"DeviceInfo", "Handles"} THEN 0..MaxElems ELSE {0})
  /\ sent = 0
  /\ text \in Texts
  /\ end \in (IF dataset = "DeviceInfo" THEN Ends \ {0} ELSE Ends)
  /\ field = 1 /\ p = 0 /\ at = 0
  /\ intact = {} /\ right = {}
  /\ shown = <<>>

(* send_object's announcement: build_*, and send_data, which writes header and *)
(* payload at once and nothing behind it.  The device reads the name as the    *)
(* host would, and lists the object afterwards.                                *)
Announce ==
  /\ stage = "announce"
  /\ sent' = HDR + (IF via = "SendObjectPropList" THEN PropListSize(name)
                                                   ELSE ObjectInfoSize(name))
  /\ stored' = Text(Encode(name), Len(Encode(name).units))
  /\ stage' = "parse"
  /\ UNCHANGED <<via, name, source, field, p, at, intact, right, shown>>

Field == Layout(dataset)[field]
IsName == dataset = "ObjectInfo" /\ field = Filename
String == IF IsName THEN Terminated(stored) ELSE text

FieldSize ==
  CASE Field.kind = "num" -> Field.width
    [] Field.kind = "str" -> Size(String)
    [] Field.kind = "arr" -> 4 + Field.width * elems

(* The history of a step of the reader. *)
Read ==
  /\ at' = at + FieldSize
  /\ intact' = IF at + FieldSize <= end THEN intact \cup {field} ELSE intact
  /\ right' = IF p = at /\ p' = at + FieldSize THEN right \cup {field} ELSE right
  /\ field' = field + 1
  /\ stage' = IF field = Len(Layout(dataset)) THEN "done" ELSE "parse"
  /\ UNCHANGED <<upload, source>>

MutStrictlyInside(w) == p + w < end
Fits(w) == p + w <= end

ReadNumber ==
  /\ stage = "parse" /\ Field.kind = "num"
  /\ p' = IF Fits(Field.width) THEN p + Field.width ELSE p
  /\ Read
  /\ UNCHANGED shown

MutHalfUnit == (end - p) \div 2
Room == (end - p - 1) \div 2

(* What the bytes of another field may be taken for: any count, any units. *)
Accidents ==
  UNION {[count : {n}, units : [1..n -> Strays]] : n \in 0..Least(CountCap, Room)}

(* mtp_str, decode_mtp_string: the string at the cursor, whichever it is *)
ReadString ==
  /\ stage = "parse" /\ Field.kind = "str"
  /\ \/ p >= end /\ p' = p /\ UNCHANGED shown
     \/ /\ p < end
        /\ \E s \in IF p = at THEN {String} ELSE Accidents :
             /\ p' = p + 1 + 2 * Taken(s, Room)
             /\ shown' = IF IsName THEN Decode(s, Room) ELSE shown
  /\ Read

(* parse_u32_array, decode_u16_array: as many elements as were counted, or as  *)
(* are there.                                                                  *)
Elements == (end - p - 4) \div Field.width

ReadArray ==
  /\ stage = "parse" /\ Field.kind = "arr"
  /\ \/ p + 4 > end /\ p' = p
     \/ p + 4 <= end /\ p = at /\ p' = p + 4 + Field.width * Least(elems, Elements)
     \/ p + 4 <= end /\ p # at /\ \E k \in 0..Elements : p' = p + 4 + Field.width * k
  /\ Read
  /\ UNCHANGED shown

Next == Announce \/ ReadNumber \/ ReadString \/ ReadArray

Spec == Init /\ [][Next]_vars

------------------------------------------------------------------------------
(* Properties *)

(* The types of the reader's variables; the cursor never leaves the bytes that *)
(* were received, wherever the dataset is cut and whatever its counts claim.   *)
TypeOK ==
  /\ stage \in {"announce", "parse", "done"}
  /\ end \in Nat /\ at \in Nat /\ sent \in Nat
  /\ p \in 0..end
  /\ field \in 1..(Len(Layout(dataset)) + 1)
  /\ right \cup intact \subseteq 1..(field - 1)

(* A string with a zero before its end leaves its rest to the next field, for  *)
(* the readers stop there.                                                     *)
WellMade(s) == \A k \in 1..Len(s.units) : s.units[k] = 0 => k = Len(s.units)

(* A field that was received whole gets its own bytes, even from a dataset cut *)
(* further on: no reader falls out of step with the device before the cut.     *)
IntactFieldsAreRight == WellMade(text) => intact \subseteq right

(* A file is listed under the name it was uploaded with, by either command, as *)
(* long as the name is ASCII and at least one short of what a byte counts.     *)
Plain(n) == Len(n) < CountCap /\ \A k \in 1..Len(n) : n[k] < 128
NameSurvives ==
  (via # "none" /\ Filename \in right /\ Plain(name)) => shown = name

(* A name is shown in UTF-8, for stringWithUTF8String would make nothing of    *)
(* the whole state otherwise (WebUI.mm:53), even if its dataset is cut inside  *)
(* it, unless the device has surrogate pairs in it.  From a dataset that is    *)
(* cut before the name mtp_str takes other bytes for it, and they may be any.  *)
BeforeName == 1..(Filename - 1)
ShownIsText ==
  (BeforeName \subseteq intact /\ \A k \in 1..Len(stored) : stored[k] \notin Surrogates)
    => IsUtf8(shown)

(* send_data writes no empty packet, so the device learns from a short packet  *)
(* alone that the announcement is over.  With SendObjectPropList, which        *)
(* send_object prefers, there is one for every name.                           *)
PropListEnds == via = "SendObjectPropList" => sent = 0 \/ sent % MaxPkt # 0
==============================================================================
