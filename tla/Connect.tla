------------------------------ MODULE Connect ------------------------------
(***************************************************************************)
(* Finding and opening the device: MTPSession::find_device, connect,       *)
(* find_endpoints and the destructor, tried again and again by the         *)
(* monitor.  The bus is a list of devices, in libusb's order, that changes *)
(* between any two calls; a device is found in one listing of it and       *)
(* looked up by its ids in a second one.  The handshake is one step here   *)
(* (Transactions has its containers), and so is the life of the session.   *)
(***************************************************************************)
EXTENDS Naturals, Sequences, SequencesExt

CONSTANTS
  Devices,   (* the devices there are                                         *)
  Kinds,     (* bound: what they may be, records of                           *)
             (*   id        vendor and product id                             *)
             (*   class     MTP class in any of the configurations            *)
             (*   settings  settings of the active configuration's            *)
             (*             interfaces, in order: [iface, mtp, in, out]       *)
  SwitchIds, (* the ids of a Switch                                           *)
  Null,      (* no device, no interface                                       *)
  MaxFaults  (* bound: sessions that a bulk error ends on a plugged device    *)

ASSUME NullAssumption == Null \notin Devices
ASSUME FaultsAssumption == MaxFaults \in Nat

VARIABLES
  kind,      (* what each device is                                           *)
  bus,       (* the devices plugged, in the order libusb lists them           *)
  taken,     (* devices whose MTP interface another program claims            *)
  held,      (* devices whose interface a handle nobody closed still claims   *)
  pc,        (* "find", "lookup", "open", "claim", "handshake", "connected",  *)
             (* "destroy"                                                     *)
  found,     (* the device find_device chose; vendor_id_ and product_id_ are  *)
             (* its ids                                                       *)
  dev,       (* the device of the second listing, and of handle_ once opened  *)
  grip,      (* what the session has of dev: "none", "listed", "opened",      *)
             (* "claimed", or "dead" once it was unplugged                    *)
  ep,        (* ep_: interfaces of bulk_in and bulk_out, interface_num        *)
  up,        (* connected_                                                    *)
  faults

world == <<kind, bus, taken>>
session == <<found, dev, ep, up>>
vars == <<world, held, pc, session, grip, faults>>

NoEndpoints == [in |-> Null, out |-> Null, iface |-> Null]
Plugged(d) == \E k \in 1..Len(bus) : bus[k] = d
First(S) == CHOOSE k \in S : \A j \in S : k <= j

Init ==
  /\ kind \in [Devices -> Kinds]
  /\ bus = <<>> /\ taken = {} /\ held = {}
  /\ pc = "find"
  /\ found = Null /\ dev = Null /\ grip = "none" /\ ep = NoEndpoints
  /\ up = FALSE
  /\ faults = 0

------------------------------------------------------------------------------
(* The bus *)

Plug(d) ==
  /\ ~Plugged(d)
  /\ bus' \in {<<d>> \o bus, Append(bus, d)}
  /\ UNCHANGED <<kind, taken, held, pc, session, grip, faults>>

(* Unplugging frees every claim and kills every handle. *)
Unplug(d) ==
  /\ \E k \in 1..Len(bus) : bus[k] = d /\ bus' = RemoveAt(bus, k)
  /\ taken' = taken \ {d} /\ held' = held \ {d}
  /\ grip' = IF dev = d THEN "dead" ELSE grip
  /\ UNCHANGED <<kind, pc, session, faults>>

(* Another program claims the interface. *)
Grab(d) ==
  /\ Plugged(d) /\ d \notin taken \cup held /\ ~(dev = d /\ grip = "claimed")
  /\ taken' = taken \cup {d}
  /\ UNCHANGED <<kind, bus, held, pc, session, grip, faults>>

LetGo(d) ==
  /\ d \in taken
  /\ taken' = taken \ {d}
  /\ UNCHANGED <<kind, bus, held, pc, session, grip, faults>>

------------------------------------------------------------------------------
(* find_device: the first device with the ids of a Switch or an MTP class. *)

MutSwitchesOnly(d) == kind[d].id \in SwitchIds
Matches(d) == kind[d].id \in SwitchIds \/ kind[d].class

Candidates == {k \in 1..Len(bus) : Matches(bus[k])}

Find ==
  /\ pc = "find"
  /\ Candidates # {}
  /\ found' = bus[First(Candidates)]
  /\ pc' = "lookup"
  /\ UNCHANGED <<world, held, dev, ep, up, grip, faults>>

(* find_endpoints: the scan adds up the endpoints of the MTP settings until it *)
(* has both kinds, and keeps the interface it looked at last.                  *)
Settings(d) == kind[d].settings
Ins(d) == {k \in 1..Len(Settings(d)) : Settings(d)[k].mtp /\ Settings(d)[k].in}
Outs(d) == {k \in 1..Len(Settings(d)) : Settings(d)[k].mtp /\ Settings(d)[k].out}
HasEndpoints(d) == Ins(d) # {} /\ Outs(d) # {}

MutScansToTheEnd(d) == Len(Settings(d))
LastScanned(d) ==
  IF First(Ins(d)) < First(Outs(d)) THEN First(Outs(d)) ELSE First(Ins(d))

Endpoints(d) ==
  [in    |-> Settings(d)[First(Ins(d))].iface,
   out   |-> Settings(d)[First(Outs(d))].iface,
   iface |-> Settings(d)[LastScanned(d)].iface]

(* connect(), up to find_endpoints: the first device with the ids found. *)
MutAnyCandidate == Candidates
SameIds == {k \in 1..Len(bus) : kind[bus[k]].id = kind[found].id}

Lookup ==
  /\ pc = "lookup"
  /\ IF SameIds # {} /\ HasEndpoints(bus[First(SameIds)])
       THEN /\ dev' = bus[First(SameIds)] /\ grip' = "listed"
            /\ ep' = Endpoints(dev')
            /\ pc' = "open"
       ELSE pc' = "destroy" /\ UNCHANGED <<dev, grip, ep>>
  /\ UNCHANGED <<world, held, found, up, faults>>

OpenDevice ==
  /\ pc = "open"
  /\ IF grip = "listed"
       THEN grip' = "opened" /\ pc' = "claim"
       ELSE pc' = "destroy" /\ UNCHANGED grip
  /\ UNCHANGED <<world, held, found, dev, ep, up, faults>>

(* A handle that is not closed keeps the interface from a later one. *)
Claimable == grip = "opened" /\ dev \notin taken \cup held

Claim ==
  /\ pc = "claim"
  /\ IF Claimable
       THEN up' = TRUE /\ grip' = "claimed" /\ pc' = "handshake"
       ELSE pc' = "destroy" /\ UNCHANGED <<up, grip>>
  /\ UNCHANGED <<world, held, found, dev, ep, faults>>

Handshake ==
  /\ pc = "handshake" /\ grip = "claimed"
  /\ pc' = "connected"
  /\ UNCHANGED <<world, held, session, grip, faults>>

(* A bulk call fails, and may clear connected_ or not. *)
SessionFails ==
  /\ pc \in {"handshake", "connected"}
  /\ IF grip = "claimed"
       THEN faults < MaxFaults /\ faults' = faults + 1
       ELSE UNCHANGED faults
  /\ up' \in BOOLEAN
  /\ pc' = "destroy"
  /\ UNCHANGED <<world, held, found, dev, ep, grip>>

(* The user presses Reconnect. *)
Leave ==
  /\ pc = "connected"
  /\ pc' = "destroy"
  /\ UNCHANGED <<world, held, session, grip, faults>>

(* ~MTPSession calls disconnect(), which releases and closes, if connected_. *)
Disconnects == up

Destroy ==
  /\ pc = "destroy"
  /\ held' = IF grip = "claimed" /\ ~Disconnects THEN held \cup {dev} ELSE held
  /\ found' = Null /\ dev' = Null /\ grip' = "none" /\ ep' = NoEndpoints
  /\ up' = FALSE
  /\ pc' = "find"
  /\ UNCHANGED <<world, faults>>

Try == Find \/ Lookup \/ OpenDevice \/ Claim \/ Handshake \/ Destroy

Next ==
  \/ \E d \in Devices : Plug(d) \/ Unplug(d) \/ Grab(d) \/ LetGo(d)
  \/ Try \/ SessionFails \/ Leave

Spec == Init /\ [][Next]_vars

(* The monitor tries again every two seconds, and a ping finds out that the    *)
(* device is gone.                                                             *)
FairSpec == Spec /\ WF_vars(Try) /\ WF_vars(grip = "dead" /\ SessionFails)

------------------------------------------------------------------------------
(* Properties *)

(* The types; a device is listed once, connected_ is true only on an open      *)
(* handle, and one program at a time claims a device.                          *)
TypeOK ==
  /\ \A j, k \in 1..Len(bus) : bus[j] = bus[k] => j = k
  /\ {found, dev} \subseteq Devices \cup {Null}
  /\ up => grip \in {"claimed", "dead"}
  /\ taken \cap held = {}
  /\ grip = "claimed" => Plugged(dev) /\ dev \notin taken \cup held
  /\ grip \in {"none", "listed", "opened", "claimed", "dead"}

(* Where no two devices share their ids, the device that is opened is the one  *)
(* that was found, whatever comes and goes between the two listings            *)
(* (MTPSession.cpp:215).                                                       *)
DistinctIds == \A d, e \in Devices : kind[d].id = kind[e].id => d = e
FoundIsOpened == DistinctIds => dev \in {Null, found}

(* The endpoints belong to the interface that is claimed, for a device whose   *)
(* MTP settings all have both.                                                 *)
WholeSettings(d) ==
  \A k \in 1..Len(Settings(d)) :
    Settings(d)[k].mtp => Settings(d)[k].in /\ Settings(d)[k].out
EndpointsOfClaimed ==
  (dev # Null /\ WholeSettings(dev)) => {ep.in, ep.out} = {ep.iface}

(* Where a device can be used, and no other one before it matches or has its   *)
(* ids, there is a session sooner or later, and again after each end of one,   *)
(* as long as neither another program nor a lost handle claims the device.     *)
(* It may be another device's session, if that was there first.                *)
Usable(d) ==
  /\ HasEndpoints(d) /\ d \notin taken \cup held
  /\ kind[d].id \in SwitchIds \/ kind[d].class
  /\ \E k \in 1..Len(bus) :
       /\ bus[k] = d
       /\ \A j \in 1..(k - 1) :
            ~kind[bus[j]].class /\ kind[bus[j]].id \notin SwitchIds \cup {kind[d].id}

UsableIsConnected ==
  (\E d \in Devices : <>[]Usable(d)) => []<>(pc = "connected" /\ grip = "claimed")
==============================================================================
