---------------------------- MODULE AppLifecycle ----------------------------
(***************************************************************************)
(* The life of a connection in src/ui/App.mm: the monitor thread that      *)
(* finds, watches and drops the device, the main thread whose actions      *)
(* refresh, reconnect and use the transfer engine, the worker that keeps   *)
(* the session busy, and the device, which is plugged, unplugged or stalls *)
(* a pipe.  A step is a critical section of device_mtx_, a USB transaction *)
(* or an access to state shared without a lock.  MTPSession::connect and   *)
(* disconnect are included as far as the claimed interface and connected_  *)
(* go.  A member function called on a null or destroyed object crashes.    *)
(***************************************************************************)
EXTENDS Naturals

CONSTANTS
  Gens,       (* identities of connections; reused once nothing refers to one *)
  Null,       (* the null unique_ptr, an empty container, no lock holder      *)
  MaxClicks,  (* bound: how often the user presses Reconnect                  *)
  MaxStalls   (* bound: how often a pipe stalls or fails on a plugged device  *)

ASSUME NullAssumption == Null \notin Gens \cup {"ui", "monitor", "worker"}
ASSUME BoundsAssumption == MaxClicks \in Nat /\ MaxStalls \in Nat

Threads == {"ui", "monitor"}

VARIABLES
  plugged,    (* the Switch is on the bus                                     *)
  claimed,    (* connections whose handle still claims its interface          *)
  session,    (* session_                                                     *)
  ops,        (* ops_                                                         *)
  engine,     (* engine_                                                      *)
  up,         (* session_->connected_                                         *)
  connected,  (* App::connected_                                              *)
  nav,        (* the connection remote_nav_stack_ was filled from, or Null    *)
  entries,    (* the connection remote_entries_ were read from, or Null       *)
  refreshing, (* remote_refreshing_                                           *)
  dmtx,       (* holder of device_mtx_ across steps                           *)
  smtx,       (* holder of session_->mutex()                                  *)
  pc,         (* where each thread is                                         *)
  ptr,        (* the monitor's ops_raw, or the session connect() is building  *)
  busy,       (* engine_'s queue: "idle", "queued", "active"                  *)
  clicks,     (* Reconnect presses so far                                     *)
  stalls,     (* failures of a plugged device so far                          *)
  crashed     (* which thread touched a null or dead object, or Null          *)

usb == <<plugged, claimed, up>>
objects == <<session, ops, engine>>
panel == <<nav, entries>>
locks == <<dmtx, smtx>>
budget == <<clicks, stalls>>
vars == <<usb, objects, connected, panel, refreshing, locks, pc, ptr, busy, budget, crashed>>

Init ==
  /\ plugged \in BOOLEAN
  /\ claimed = {}
  /\ session = Null /\ ops = Null /\ engine = Null
  /\ up = FALSE /\ connected = FALSE
  /\ nav = Null /\ entries = Null
  /\ refreshing = FALSE
  /\ dmtx = Null /\ smtx = Null
  /\ pc = [ui |-> "idle", monitor |-> "top"]
  /\ ptr = Null
  /\ busy = "idle"
  /\ clicks = 0 /\ stalls = 0
  /\ crashed = Null

At(t, l) == crashed = Null /\ pc[t] = l
Goto(t, l) == pc' = [pc EXCEPT ![t] = l]

(* Where a thread goes when a call it made returns. *)
Home(t) == IF t = "ui" THEN "idle" ELSE "sleep"

Crash(t) ==
  /\ crashed' = t
  /\ UNCHANGED <<usb, objects, connected, panel, refreshing, locks, pc, ptr, busy, budget>>

(* A new connection gets a name nothing refers to, which one is all the same;  *)
(* TLC stops with an error should there be none left.                          *)
Unused == Gens \ ({session, ops, engine, nav, entries, ptr} \cup claimed)
Fresh == CHOOSE g \in Gens : g \in Unused

------------------------------------------------------------------------------
(* The device *)

Plug ==
  /\ crashed = Null /\ ~plugged
  /\ plugged' = TRUE
  /\ UNCHANGED <<claimed, up, objects, connected, panel, refreshing, locks, pc, ptr,
                 busy, budget, crashed>>

Unplug ==
  /\ crashed = Null /\ plugged
  /\ plugged' = FALSE
  /\ claimed' = {}
  /\ UNCHANGED <<up, objects, connected, panel, refreshing, locks, pc, ptr, busy,
                 budget, crashed>>

(* How a transaction of the session ends: an unplug kills its handle for good. *)
(* A bulk call that fails for a reason that looks like an unplug clears        *)
(* connected_; a timeout does not.                                             *)
Alive == session \in claimed
Stall == stalls < MaxStalls /\ stalls' = stalls + 1
Answers == Alive /\ UNCHANGED <<up, stalls>>
Breaks ==
  /\ up' = FALSE \/ UNCHANGED up
  /\ IF Alive THEN Stall ELSE UNCHANGED stalls

------------------------------------------------------------------------------
(* device_monitor_loop *)

Top ==
  /\ At("monitor", "top")
  /\ Goto("monitor", IF connected THEN "poll" ELSE "connect")
  /\ UNCHANGED <<usb, objects, connected, panel, refreshing, locks, ptr, busy, budget, crashed>>

Sleep ==
  /\ At("monitor", "sleep")
  /\ Goto("monitor", "top")
  /\ UNCHANGED <<usb, objects, connected, panel, refreshing, locks, ptr, busy, budget, crashed>>

(* MTPSession::connect claims the interface, which one handle can hold, and    *)
(* opens the MTP session.                                                      *)
Connect ==
  /\ At("monitor", "connect")
  /\ plugged /\ claimed = {}
  /\ claimed' = {Fresh}
  /\ ptr' = Fresh
  /\ Goto("monitor", "install")
  /\ UNCHANGED <<plugged, up, objects, connected, panel, refreshing, locks, busy, budget, crashed>>

(* The destructor of a session that failed during the handshake disconnects,   *)
(* unless the failure cleared connected_: then the interface stays claimed.    *)
ConnectFails ==
  /\ At("monitor", "connect")
  /\ \/ (~plugged \/ claimed # {}) /\ UNCHANGED <<claimed, stalls>>
     \/ /\ plugged /\ claimed = {}
        /\ Stall
        /\ claimed' = {} \/ claimed' = {Fresh}
  /\ Goto("monitor", "sleep")
  /\ UNCHANGED <<plugged, up, objects, connected, panel, refreshing, locks, ptr, busy,
                 clicks, crashed>>

(* Assigning session_ destroys a session still there, under its worker's feet. *)
Install ==
  /\ At("monitor", "install")
  /\ dmtx = Null
  /\ IF smtx = "worker"
       THEN Crash("monitor")
       ELSE /\ session' = ptr /\ ops' = ptr /\ engine' = ptr
            /\ up' = TRUE
            /\ busy' = "idle"
            /\ ptr' = Null
            /\ Goto("monitor", "setup")
            /\ UNCHANGED <<plugged, claimed, connected, panel, refreshing, locks, budget,
                           crashed>>

(* A critical section of device_mtx_ that goes on to the device holds the lock *)
(* while it waits for the session's mutex.                                     *)
LockDevice(t, from, to) ==
  /\ At(t, from)
  /\ dmtx = Null
  /\ dmtx' = t
  /\ Goto(t, to)
  /\ UNCHANGED <<usb, objects, connected, panel, refreshing, smtx, ptr, busy, budget, crashed>>

SetupLock == LockDevice("monitor", "setup", "asking")

(* on_device_connected, the critical section: the first requests go through    *)
(* ops_, which is not checked; what they throw is swallowed.                   *)
Setup ==
  /\ At("monitor", "asking")
  /\ IF ops = Null
       THEN Crash("monitor")
       ELSE /\ smtx = Null
            /\ entries' = Null
            /\ \/ Answers /\ nav' = session
               \/ Breaks /\ nav' = Null
            /\ dmtx' = Null
            /\ Goto("monitor", "announce")
            /\ UNCHANGED <<plugged, claimed, objects, connected, refreshing, smtx, ptr,
                           busy, clicks, crashed>>

MutAnnounceNothing ==
  /\ At("monitor", "announce")
  /\ Goto("monitor", "refresh")
  /\ UNCHANGED <<usb, objects, connected, panel, refreshing, locks, ptr, busy, budget, crashed>>

Announce ==
  /\ At("monitor", "announce")
  /\ connected' = TRUE
  /\ Goto("monitor", "refresh")
  /\ UNCHANGED <<usb, objects, panel, refreshing, locks, ptr, busy, budget, crashed>>

MutHasEngine == engine # Null
HasActive == engine # Null /\ busy = "active"

Poll ==
  /\ At("monitor", "poll")
  /\ dmtx = Null
  /\ Goto("monitor", IF HasActive THEN "sleep" ELSE "raw")
  /\ UNCHANGED <<usb, objects, connected, panel, refreshing, locks, ptr, busy, budget, crashed>>

TakeOps ==
  /\ At("monitor", "raw")
  /\ dmtx = Null
  /\ ptr' = ops
  /\ Goto("monitor", IF ops = Null THEN "sleep" ELSE "ping")
  /\ UNCHANGED <<usb, objects, connected, panel, refreshing, locks, busy, budget, crashed>>

(* ops_raw->get_storage_ids(), without device_mtx_ *)
Ping ==
  /\ At("monitor", "ping")
  /\ IF ptr # ops
       THEN Crash("monitor")
       ELSE /\ smtx = Null
            /\ smtx' = "monitor"
            /\ Goto("monitor", "pinging")
            /\ UNCHANGED <<usb, objects, connected, panel, refreshing, dmtx, ptr, busy,
                           budget, crashed>>

Pinged ==
  /\ At("monitor", "pinging")
  /\ IF ptr # ops
       THEN Crash("monitor")
       ELSE /\ smtx' = Null
            /\ ptr' = Null
            /\ \/ Answers /\ Goto("monitor", "sleep")
               \/ Breaks /\ Goto("monitor", "drop")
            /\ UNCHANGED <<plugged, claimed, objects, connected, panel, refreshing, dmtx,
                           busy, clicks, crashed>>

------------------------------------------------------------------------------
(* on_device_disconnected, on either thread *)

DropLock(t) == LockDevice(t, "drop", "join")

(* The engine's destructor waits for a running transfer. *)
MutDoesNotJoin == TRUE
WorkerEnded == busy # "active"

(* cancel_all and the engine's destructor *)
MutKeepsOps(t) ==
  /\ At(t, "join")
  /\ WorkerEnded
  /\ engine' = Null
  /\ busy' = "idle"
  /\ Goto(t, "close")
  /\ UNCHANGED <<usb, session, ops, connected, panel, refreshing, locks, ptr, budget, crashed>>

DropEngine(t) ==
  /\ At(t, "join")
  /\ WorkerEnded
  /\ engine' = Null /\ ops' = Null
  /\ busy' = "idle"
  /\ Goto(t, "close")
  /\ UNCHANGED <<usb, session, connected, panel, refreshing, locks, ptr, budget, crashed>>

(* MTPSession::disconnect returns at once if connected_ is already false, and  *)
(* takes no lock.                                                              *)
MutReleasesNothing(s) == {}
ReleasedBy(s) == IF up THEN {s} ELSE {}

MutKeepsListing(t) ==
  /\ At(t, "close")
  /\ claimed' = claimed \ ReleasedBy(session)
  /\ session' = Null
  /\ up' = FALSE
  /\ nav' = Null
  /\ smtx' = IF smtx = "monitor" THEN Null ELSE smtx
  /\ dmtx' = Null
  /\ Goto(t, "offline")
  /\ UNCHANGED <<plugged, ops, engine, connected, entries, refreshing, ptr, busy, budget, crashed>>

MutRefreshesLocked(t) ==
  /\ At(t, "close")
  /\ claimed' = claimed \ ReleasedBy(session)
  /\ session' = Null
  /\ up' = FALSE
  /\ nav' = Null /\ entries' = Null
  /\ smtx' = IF smtx = "monitor" THEN Null ELSE smtx
  /\ Goto(t, "list")
  /\ UNCHANGED <<plugged, ops, engine, connected, refreshing, dmtx, ptr, busy, budget, crashed>>

DropSession(t) ==
  /\ At(t, "close")
  /\ claimed' = claimed \ ReleasedBy(session)
  /\ session' = Null
  /\ up' = FALSE
  /\ nav' = Null /\ entries' = Null
  /\ smtx' = IF smtx = "monitor" THEN Null ELSE smtx    \* the mutex is gone
  /\ dmtx' = Null
  /\ Goto(t, "offline")
  /\ UNCHANGED <<plugged, ops, engine, connected, refreshing, ptr, busy, budget, crashed>>

DropDone(t) ==
  /\ At(t, "offline")
  /\ connected' = FALSE
  /\ Goto(t, Home(t))
  /\ UNCHANGED <<usb, objects, panel, refreshing, locks, ptr, busy, budget, crashed>>

------------------------------------------------------------------------------
(* refresh_remote, on either thread *)

RefreshTest(t) ==
  /\ At(t, "refresh")
  /\ Goto(t, IF ~connected \/ refreshing THEN Home(t) ELSE "clear")
  /\ UNCHANGED <<usb, objects, connected, panel, refreshing, locks, ptr, busy, budget, crashed>>

RefreshClear(t) ==
  /\ At(t, "clear")
  /\ refreshing' = TRUE
  /\ entries' = Null
  /\ Goto(t, "list")
  /\ UNCHANGED <<usb, objects, connected, nav, locks, ptr, busy, budget, crashed>>

RefreshLock(t) == LockDevice(t, "list", "listing")

RefreshList(t) ==
  /\ At(t, "listing")
  /\ \/ /\ ops = Null \/ nav = Null
        /\ UNCHANGED <<entries, up, stalls>>
     \/ /\ ops # Null /\ nav # Null /\ smtx = Null
        /\ \/ Answers /\ entries' = session
           \/ Breaks /\ entries' \in {Null, session}
  /\ dmtx' = Null
  /\ Goto(t, "listed")
  /\ UNCHANGED <<plugged, claimed, objects, connected, nav, refreshing, smtx, ptr, busy,
                 clicks, crashed>>

RefreshEnd(t) ==
  /\ At(t, "listed")
  /\ refreshing' = FALSE
  /\ Goto(t, Home(t))
  /\ UNCHANGED <<usb, objects, connected, panel, locks, ptr, busy, budget, crashed>>

------------------------------------------------------------------------------
(* Actions of the page, on the main thread *)

Reconnect ==
  /\ At("ui", "idle")
  /\ clicks < MaxClicks
  /\ clicks' = clicks + 1
  /\ Goto("ui", "drop")
  /\ UNCHANGED <<usb, objects, connected, panel, refreshing, locks, ptr, busy, stalls, crashed>>

Refresh ==
  /\ At("ui", "idle")
  /\ Goto("ui", "refresh")
  /\ UNCHANGED <<usb, objects, connected, panel, refreshing, locks, ptr, busy, budget, crashed>>

(* do_delete and do_create_folder, which the page's refresh follows; what they *)
(* throw is swallowed.                                                         *)
ChangeLock == LockDevice("ui", "idle", "changing")

Change ==
  /\ At("ui", "changing")
  /\ \/ ops = Null /\ UNCHANGED <<up, stalls>>
     \/ ops # Null /\ smtx = Null /\ (Answers \/ Breaks)
  /\ dmtx' = Null
  /\ Goto("ui", "refresh")
  /\ UNCHANGED <<plugged, claimed, objects, connected, panel, refreshing, smtx, ptr, busy,
                 clicks, crashed>>

(* state_json: it copies under device_mtx_ what it shows of the device, then   *)
(* asks the engine for its transfers.                                          *)
Snapshot ==
  /\ At("ui", "idle")
  /\ Goto("ui", "copy")
  /\ UNCHANGED <<usb, objects, connected, panel, refreshing, locks, ptr, busy, budget, crashed>>

Copy ==
  /\ At("ui", "copy")
  /\ dmtx = Null
  /\ Goto("ui", IF engine = Null THEN "idle" ELSE "use")
  /\ UNCHANGED <<usb, objects, connected, panel, refreshing, locks, ptr, busy, budget, crashed>>

(* start_upload, do_cancel and state_json test engine_ and then read it again  *)
(* to use it, with no lock in between.                                         *)
TestEngine ==
  /\ At("ui", "idle")
  /\ engine # Null
  /\ Goto("ui", "use")
  /\ UNCHANGED <<usb, objects, connected, panel, refreshing, locks, ptr, busy, budget, crashed>>

UseEngine ==
  /\ At("ui", "use")
  /\ IF engine = Null
       THEN Crash("ui")
       ELSE /\ busy' \in {busy, IF busy = "idle" THEN "queued" ELSE busy}
            /\ Goto("ui", "idle")
            /\ UNCHANGED <<usb, objects, connected, panel, refreshing, locks, ptr, budget,
                           crashed>>

------------------------------------------------------------------------------
(* The worker of the current engine *)

Begin ==
  /\ crashed = Null
  /\ busy = "queued" /\ smtx = Null
  /\ busy' = "active"
  /\ smtx' = "worker"
  /\ UNCHANGED <<usb, objects, connected, panel, refreshing, dmtx, pc, ptr, budget, crashed>>

End ==
  /\ crashed = Null
  /\ busy = "active"
  /\ busy' = "idle"
  /\ smtx' = Null
  /\ Answers \/ Breaks
  /\ UNCHANGED <<plugged, claimed, objects, connected, panel, refreshing, dmtx, pc, ptr,
                 clicks, crashed>>

------------------------------------------------------------------------------
MonitorNext ==
  \/ Top \/ Sleep \/ Connect \/ ConnectFails \/ Install \/ SetupLock \/ Setup \/ Announce
  \/ Poll \/ TakeOps \/ Ping \/ Pinged

CallNext(t) ==
  \/ DropLock(t) \/ DropEngine(t) \/ DropSession(t) \/ DropDone(t)
  \/ RefreshTest(t) \/ RefreshClear(t) \/ RefreshLock(t) \/ RefreshList(t) \/ RefreshEnd(t)

PageNext == Reconnect \/ Refresh \/ ChangeLock \/ Snapshot \/ TestEngine

(* The rest of an action of the page, once it has begun. *)
PageGoesOn == Change \/ Copy \/ UseEngine \/ CallNext("ui")

Next ==
  \/ Plug \/ Unplug
  \/ MonitorNext \/ CallNext("monitor") \/ PageNext \/ PageGoesOn \/ Begin \/ End

Spec == Init /\ [][Next]_vars

(* Every call returns and every thread runs; a thread that keeps asking for a  *)
(* mutex gets it, for its rivals release it between a person's actions or for  *)
(* two seconds of sleep.  The user and the device owe nothing.                 *)
FairSpec ==
  /\ Spec
  /\ SF_vars(MonitorNext \/ CallNext("monitor"))
  /\ SF_vars(PageGoesOn)
  /\ SF_vars(Begin) /\ WF_vars(End)

------------------------------------------------------------------------------
(* Type invariant.  device_mtx_ is held across steps exactly by the thread in  *)
(* one of its critical sections, the session's mutex while a command is on the *)
(* wire; a handle is claimed for one connection at a time.                     *)
TypeOK ==
  /\ plugged \in BOOLEAN /\ up \in BOOLEAN /\ connected \in BOOLEAN
  /\ claimed \in {{}} \cup {{g} : g \in Gens}
  /\ {session, ops, engine, nav, entries} \subseteq Gens \cup {Null}
  /\ ptr \in Gens \cup {Null}
  /\ refreshing \in BOOLEAN
  /\ busy \in {"idle", "queued", "active"}
  /\ dmtx \in Threads \cup {Null} /\ smtx \in {"monitor", "worker", Null}
  /\ \A t \in Threads : dmtx = t <=> pc[t] \in {"join", "close", "asking", "listing", "changing"}
  /\ smtx = "worker" <=> busy = "active"
  /\ crashed \in Threads \cup {Null}
  /\ clicks \in 0..MaxClicks /\ stalls \in 0..MaxStalls

(* Outside a critical section of device_mtx_ the session, its operations and   *)
(* its engine exist together: on_device_connected, on_device_disconnected and  *)
(* the monitor leave no half of a connection to each other.                    *)
ObjectsTogether == dmtx = Null => session = ops /\ ops = engine

(* While the App says it is connected, the files it shows come from the        *)
(* session it holds: a handle of an earlier connection is never offered for    *)
(* download or deletion on a later one (on_device_disconnected).               *)
EntriesOfSession == connected /\ dmtx = Null => entries \in {Null, session}

(* Nothing is claimed on the bus but by the session the App holds, or the one  *)
(* connect() is building.                                                      *)
Released == dmtx = Null => claimed \subseteq {session, ptr}

(* "Close MTP session and release USB resources" (MTPSession.hpp:42): handles  *)
(* do not leak, whenever Reconnect is pressed, unless a failed bulk call has   *)
(* cleared connected_, for then disconnect() returns at once.                  *)
ReleasedUnlessStalled == stalls = 0 => Released

(* As long as nobody presses Reconnect and no handle has leaked, a device that *)
(* is plugged in is found, whatever happened to the one before                 *)
(* (device_monitor_loop).                                                      *)
ReplugFound ==
  [](clicks = 0 /\ Released) =>
    ((plugged /\ ~connected) ~> (connected \/ ~plugged \/ crashed # Null))

(* A session whose device is gone is given up, even across a Reconnect,        *)
(* provided the user lets the transfer queue rest: the monitor pings only      *)
(* while no transfer is active.                                                *)
UnplugNoticed ==
  (<>[](busy = "idle")) =>
    ((connected /\ session # Null /\ ~Alive) ~> (~connected \/ session = Null \/ crashed # Null))

(* Every call of the page returns, and a listing ends: device_mtx_, the        *)
(* session's mutex and the engine's join never wait for each other in a circle.*)
CallsReturn ==
  /\ (pc["ui"] # "idle") ~> (pc["ui"] = "idle" \/ crashed # Null)
  /\ refreshing ~> (~refreshing \/ crashed # Null)

(* README.md:28 promises "Automatic device detection - plug in and go": a      *)
(* device left plugged in ends up connected, to a session that exists, and     *)
(* stays so, once the user stops clicking.                                     *)
AutoDetect == <>[](plugged /\ crashed = Null) => <>[](connected /\ session # Null)

(* As long as nobody presses Reconnect, the monitor is the one thread that     *)
(* creates and destroys objects.  It then only calls objects that exist, for   *)
(* all its raw ops_raw and unchecked ops_ (App.mm:105-121, 138); and "all      *)
(* operations are serialized through the session mutex" (MTPSession.hpp:28),   *)
(* though disconnect() does not take it: no CloseSession goes out while a      *)
(* command of another thread is under way.                                     *)
SafeWithoutReconnect ==
  clicks = 0 =>
    /\ crashed # "monitor"
    /\ \A t \in Threads : pc[t] = "close" /\ up => smtx \in {Null, t}
==============================================================================
