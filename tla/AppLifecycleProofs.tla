------------------------- MODULE AppLifecycleProofs -------------------------
(***************************************************************************)
(* Proofs about AppLifecycle for any number of clicks and stalls, with     *)
(* endlessly many connections.  The invariant says what the monitor and    *)
(* the main thread may rely on at each point of their calls: which objects *)
(* exist, who holds which mutex, and which connection is claimed.          *)
(***************************************************************************)
EXTENDS AppLifecycle, FiniteSetTheorems, TLAPS

(* Points of the threads: in a critical section of device_mtx_; in             *)
(* on_device_disconnected; in that or in refresh_remote; where the monitor     *)
(* makes a connection.                                                         *)
Critical == {"join", "close", "asking", "listing", "changing"}
Dropping == {"drop", "join", "close", "offline"}
Calling == Dropping \cup {"refresh", "clear", "list", "listing", "listed"}
Connecting == {"connect", "install", "setup", "asking", "announce"}

(* All of them. *)
Points ==
  Calling \cup Connecting
    \cup {"idle", "changing", "copy", "use", "top", "sleep", "poll", "raw", "ping", "pinging"}

(* The parts of TypeOK: what is true or false, what names a connection, where  *)
(* the worker, the mutexes and the counters are, and who holds which mutex.    *)
Flags ==
  /\ plugged \in BOOLEAN /\ up \in BOOLEAN
  /\ connected \in BOOLEAN /\ refreshing \in BOOLEAN

Names ==
  /\ claimed \in {{}} \cup {{g} : g \in Gens}
  /\ {session, ops, engine, nav, entries} \subseteq Gens \cup {Null}
  /\ ptr \in Gens \cup {Null}

Phases ==
  /\ busy \in {"idle", "queued", "active"}
  /\ dmtx \in Threads \cup {Null} /\ smtx \in {"monitor", "worker", Null}
  /\ crashed \in Threads \cup {Null}
  /\ clicks \in 0..MaxClicks /\ stalls \in 0..MaxStalls

Locked ==
  /\ \A t \in Threads : dmtx = t <=> pc[t] \in Critical
  /\ smtx = "worker" <=> busy = "active"

(* Where the threads are. *)
Placed ==
  /\ pc \in [Threads -> Points]
  /\ pc["ui"] \in Calling \cup {"idle", "changing", "copy", "use"}
  /\ pc["monitor"] \in
       Calling \cup Connecting \cup {"top", "sleep", "poll", "raw", "ping", "pinging"}

(* A pointer a thread is about to use was not null when it was taken; while    *)
(* the monitor pings operations that still exist it holds their mutex.         *)
Pointed ==
  /\ pc["monitor"] \in {"install", "ping", "pinging"} => ptr # Null
  /\ pc["monitor"] = "pinging" /\ ptr = ops => smtx = "monitor"
  /\ engine = Null => busy = "idle"

(* The objects come and go together: the operations and the engine first, the  *)
(* session in the same critical section.                                       *)
Together ==
  /\ \A t \in Threads : pc[t] = "close" => ops = Null /\ engine = Null
  /\ (\A t \in Threads : pc[t] # "close") => session = ops /\ ops = engine

(* What is shown is of the session, from the moment on_device_connected has    *)
(* cleared the list; and the monitor only connects while there is nothing to   *)
(* show.                                                                       *)
Shown ==
  /\ pc["monitor"] \in Connecting => ~connected
  /\ connected \/ pc["monitor"] = "announce" => entries \in {Null, session}

(* As long as nobody has pressed Reconnect there is a session exactly where    *)
(* the monitor believes in one.                                                *)
Alone ==
  clicks = 0 =>
    /\ crashed # "monitor"
    /\ pc["ui"] \notin Dropping
    /\ pc["monitor"] \in {"top", "sleep"} => (connected <=> session # Null)
    /\ pc["monitor"] \in {"connect", "install", "offline"} => session = Null
    /\ pc["monitor"] \in {"setup", "asking", "announce"} => session # Null
    /\ pc["monitor"] \in {"refresh", "clear", "list", "listing", "listed", "poll", "raw", "ping",
                          "pinging"} => connected /\ session # Null
    /\ pc["monitor"] \in {"ping", "pinging"} => ptr = ops

(* Without stalls the session is the one that is claimed, and is up, or the    *)
(* one that is being built.                                                    *)
Claimed ==
  stalls = 0 =>
    /\ claimed \subseteq {IF pc["monitor"] = "install" THEN ptr ELSE session}
    /\ pc["monitor"] = "install" => ptr # session
    /\ session \in claimed => up

(* The inductive invariant. *)
IInv ==
  /\ Flags /\ Names /\ Phases /\ Locked
  /\ Placed /\ Pointed /\ Together /\ Shown /\ Alone /\ Claimed

(* There are always names that nothing refers to. *)
Endless == ~IsFiniteSet(Gens)

------------------------------------------------------------------------------
(* Names *)

(* A set of five is finite. *)
LEMMA FiveAreFinite ==
  ASSUME NEW a, NEW b, NEW c, NEW d, NEW e
  PROVE  IsFiniteSet({a, b, c, d, e})
<1>1. IsFiniteSet({} \cup {a})
  BY FS_EmptySet, FS_AddElement
<1>2. IsFiniteSet(({} \cup {a}) \cup {b})
  BY <1>1, FS_AddElement
<1>3. IsFiniteSet((({} \cup {a}) \cup {b}) \cup {c})
  BY <1>2, FS_AddElement
<1>4. IsFiniteSet(((({} \cup {a}) \cup {b}) \cup {c}) \cup {d})
  BY <1>3, FS_AddElement
<1>5. IsFiniteSet((((({} \cup {a}) \cup {b}) \cup {c}) \cup {d}) \cup {e})
  BY <1>4, FS_AddElement
<1>6. {a, b, c, d, e} = (((({} \cup {a}) \cup {b}) \cup {c}) \cup {d}) \cup {e}
  OBVIOUS
<1> QED
  BY <1>5, <1>6

(* A new connection has a name of its own. *)
LEMMA FreshIsUnused ==
  ASSUME Endless, Names
  PROVE  Fresh \in Gens /\ Fresh # session
<1> DEFINE shown == {session, ops, engine, nav, entries}
           used == shown \cup {ptr} \cup claimed
<1>1. IsFiniteSet(shown)
  BY FiveAreFinite
<1>2. IsFiniteSet({ptr})
  BY FS_EmptySet, FS_AddElement
<1>3. IsFiniteSet(claimed)
  <2>1. PICK g : claimed \in {{}, {g}}
    BY DEF Names
  <2> QED
    BY <2>1, FS_EmptySet, FS_AddElement
<1>4. IsFiniteSet(used)
  <2> HIDE DEF shown
  <2> QED
    BY <1>1, <1>2, <1>3, FS_Union
<1>5. \E g \in Gens : g \notin used
  <2> SUFFICES ASSUME Gens \subseteq used
               PROVE  FALSE
    OBVIOUS
  <2> QED
    BY <1>4, FS_Subset DEF Endless
<1>6. \E g \in Gens : g \in Unused
  BY <1>5 DEF Unused
<1> QED
  BY <1>6 DEF Fresh, Unused

------------------------------------------------------------------------------
(* Steps *)

(* Initially there is nothing. *)
LEMMA InitIInv == Init => IInv
<1> SUFFICES ASSUME Init
             PROVE  IInv
  OBVIOUS
<1> USE NullAssumption, BoundsAssumption DEF Init, Threads
<1>1. Flags
  BY DEF Flags
<1>2. Names
  BY DEF Names
<1>3. Phases
  BY DEF Phases
<1>4. Locked
  BY DEF Locked, Critical
<1>5. Placed
  BY DEF Placed, Points, Calling, Dropping, Connecting
<1>6. Pointed /\ Together /\ Shown
  BY DEF Pointed, Together, Shown, Connecting
<1>7. Alone /\ Claimed
  BY DEF Alone, Claimed, Dropping
<1> QED
  BY <1>1, <1>2, <1>3, <1>4, <1>5, <1>6, <1>7 DEF IInv

(* Plugging in changes nothing of the App; unplugging kills every claim. *)
LEMMA DeviceSteps ==
  ASSUME IInv, Plug \/ Unplug
  PROVE  IInv'
<1> USE NullAssumption
    DEF Threads, Points, Critical, Dropping, Calling, Connecting, Plug, objects, panel,
        locks, budget, Unplug
<1>0. Flags'
  BY DEF IInv, Flags
<1>1. Names'
  BY DEF IInv, Names
<1>2. Phases'
  BY BoundsAssumption DEF IInv, Phases
<1>3. Locked'
  BY DEF IInv, Locked
<1>4. Placed'
  BY DEF IInv, Placed
<1>5. Pointed'
  BY DEF IInv, Pointed
<1>6. Together'
  BY DEF IInv, Together
<1>7. Shown'
  BY DEF IInv, Shown
<1>8. Alone'
  BY DEF IInv, Alone
<1>9. Claimed'
  BY DEF IInv, Claimed
<1> QED
  BY <1>0, <1>1, <1>2, <1>3, <1>4, <1>5, <1>6, <1>7, <1>8, <1>9 DEF IInv

(* The steps of the monitor that change no object. *)
LEMMA DecisionSteps ==
  ASSUME IInv, Top \/ Sleep \/ Announce \/ Poll
  PROVE  IInv'
<1> USE NullAssumption
    DEF Threads, Points, Critical, Dropping, Calling, Connecting, Top, At, Goto, usb,
        objects, panel, locks, budget, Sleep, Announce, Poll, HasActive
<1>0. Flags'
  BY DEF IInv, Flags
<1>1. Names'
  BY DEF IInv, Names
<1>2. Phases'
  BY BoundsAssumption DEF IInv, Phases
<1>3. Locked'
  BY DEF IInv, Locked, Placed
<1>4. Placed'
  BY DEF IInv, Placed
<1>5. Pointed'
  BY DEF IInv, Placed, Pointed
<1>6. Together'
  BY DEF IInv, Placed, Together
<1>7. Shown'
  BY DEF IInv, Placed, Shown
<1>8. Alone'
  BY DEF IInv, Placed, Alone
<1>9. Claimed'
  BY DEF IInv, Placed, Claimed
<1> QED
  BY <1>0, <1>1, <1>2, <1>3, <1>4, <1>5, <1>6, <1>7, <1>8, <1>9 DEF IInv

(* A session is built, or its handle leaks in a stall. *)
LEMMA ConnectSteps ==
  ASSUME IInv, NEW F \in Gens, F = Fresh, F # session, Connect \/ ConnectFails
  PROVE  IInv'
<1> USE NullAssumption
    DEF Threads, Points, Critical, Dropping, Calling, Connecting, Connect, At, Goto,
        objects, panel, locks, budget, ConnectFails, Stall
<1>0. Flags'
  BY DEF IInv, Flags
<1>1. Names'
  BY DEF IInv, Names
<1>2. Phases'
  BY BoundsAssumption DEF IInv, Phases
<1>3. Locked'
  BY DEF IInv, Locked, Placed
<1>4. Placed'
  BY DEF IInv, Placed
<1>5. Pointed'
  BY DEF IInv, Names, Placed, Pointed
<1>6. Together'
  BY DEF IInv, Placed, Together
<1>7. Shown'
  BY DEF IInv, Placed, Shown
<1>8. Alone'
  BY DEF IInv, Placed, Shown, Alone
<1>9. Claimed'
  BY DEF IInv, Names, Phases, Placed, Claimed
<1> QED
  BY <1>0, <1>1, <1>2, <1>3, <1>4, <1>5, <1>6, <1>7, <1>8, <1>9 DEF IInv

(* The new objects replace those of a connection that is gone. *)
LEMMA InstallStep ==
  ASSUME IInv, Install
  PROVE  IInv'
<1> USE NullAssumption
    DEF Threads, Points, Critical, Dropping, Calling, Connecting, Install, At, Crash,
        usb, objects, panel, locks, budget, Goto
<1>0. Flags'
  BY DEF IInv, Flags
<1>1. Names'
  BY DEF IInv, Names
<1>2. Phases'
  BY BoundsAssumption DEF IInv, Phases
<1>3. Locked'
  BY DEF IInv, Locked, Placed
<1>4. Placed'
  BY DEF IInv, Placed
<1>5. Pointed'
  BY DEF IInv, Names, Placed, Pointed
<1>6. Together'
  BY DEF IInv, Locked, Placed, Together
<1>7. Shown'
  BY DEF IInv, Placed, Shown
<1>8. Alone'
  BY DEF IInv, Locked, Placed, Pointed, Together, Alone
<1>9. Claimed'
  BY DEF IInv, Placed, Claimed
<1> QED
  BY <1>0, <1>1, <1>2, <1>3, <1>4, <1>5, <1>6, <1>7, <1>8, <1>9 DEF IInv

(* on_device_connected asks the device first. *)
LEMMA SetupSteps ==
  ASSUME IInv, SetupLock \/ Setup
  PROVE  IInv'
<1> USE NullAssumption
    DEF Threads, Points, Critical, Dropping, Calling, Connecting, SetupLock, LockDevice,
        At, Goto, usb, objects, panel, budget, Setup, Crash, locks, Answers,
        Alive, Breaks, Stall
<1>0. Flags'
  BY DEF IInv, Flags
<1>1. Names'
  BY DEF IInv, Names
<1>2. Phases'
  BY BoundsAssumption DEF IInv, Phases
<1>3. Locked'
  BY DEF IInv, Locked, Placed
<1>4. Placed'
  BY DEF IInv, Placed
<1>5. Pointed'
  BY DEF IInv, Placed, Pointed
<1>6. Together'
  BY DEF IInv, Placed, Together
<1>7. Shown'
  BY DEF IInv, Placed, Shown
<1>8. Alone'
  BY DEF IInv, Placed, Together, Alone
<1>9. Claimed'
  BY DEF IInv, Phases, Placed, Claimed
<1> QED
  BY <1>0, <1>1, <1>2, <1>3, <1>4, <1>5, <1>6, <1>7, <1>8, <1>9 DEF IInv

(* The raw pointer of the ping outlives the operations only if someone else    *)
(* has dropped them.                                                           *)
LEMMA PingSteps ==
  ASSUME IInv, TakeOps \/ Ping \/ Pinged
  PROVE  IInv'
<1> USE NullAssumption
    DEF Threads, Points, Critical, Dropping, Calling, Connecting, TakeOps, At, Goto,
        usb, objects, panel, locks, budget, Ping, Crash, Pinged, Answers, Alive,
        Breaks, Stall
<1>0. Flags'
  BY DEF IInv, Flags
<1>1. Names'
  BY DEF IInv, Names
<1>2. Phases'
  BY BoundsAssumption DEF IInv, Phases
<1>3. Locked'
  BY DEF IInv, Locked, Placed, Pointed
<1>4. Placed'
  BY DEF IInv, Placed
<1>5. Pointed'
  BY DEF IInv, Names, Placed, Pointed
<1>6. Together'
  BY DEF IInv, Placed, Together
<1>7. Shown'
  BY DEF IInv, Placed, Shown
<1>8. Alone'
  BY DEF IInv, Names, Placed, Alone
<1>9. Claimed'
  BY DEF IInv, Phases, Placed, Claimed
<1> QED
  BY <1>0, <1>1, <1>2, <1>3, <1>4, <1>5, <1>6, <1>7, <1>8, <1>9 DEF IInv

(* on_device_disconnected, part by part. *)
LEMMA DropSteps ==
  ASSUME IInv, NEW t \in Threads,
         DropLock(t) \/ DropEngine(t) \/ DropSession(t) \/ DropDone(t)
  PROVE  IInv'
<1> USE NullAssumption
    DEF Threads, Points, Critical, Dropping, Calling, Connecting, DropLock, LockDevice,
        At, Goto, usb, objects, panel, budget, DropEngine, WorkerEnded, locks,
        DropSession, ReleasedBy, DropDone, Home
<1>0. Flags'
  BY DEF IInv, Flags
<1>1. Names'
  BY DEF IInv, Names
<1>2. Phases'
  BY BoundsAssumption DEF IInv, Phases
<1>3. Locked'
  BY DEF IInv, Locked, Placed
<1>4. Placed'
  BY DEF IInv, Placed
<1>5. Pointed'
  BY DEF IInv, Placed, Pointed, Together
<1>6. Together'
  BY DEF IInv, Placed, Together
<1>7. Shown'
  BY DEF IInv, Placed, Shown
<1>8. Alone'
  BY DEF IInv, Placed, Alone
<1>9. Claimed'
  BY DEF IInv, Placed, Pointed, Claimed
<1> QED
  BY <1>0, <1>1, <1>2, <1>3, <1>4, <1>5, <1>6, <1>7, <1>8, <1>9 DEF IInv

(* refresh_remote around its listing. *)
LEMMA RefreshSteps ==
  ASSUME IInv, NEW t \in Threads,
         RefreshTest(t) \/ RefreshClear(t) \/ RefreshLock(t) \/ RefreshEnd(t)
  PROVE  IInv'
<1> USE NullAssumption
    DEF Threads, Points, Critical, Dropping, Calling, Connecting, RefreshTest, At, Goto,
        Home, usb, objects, panel, locks, budget, RefreshClear, RefreshLock,
        LockDevice, RefreshEnd
<1>0. Flags'
  BY DEF IInv, Flags
<1>1. Names'
  BY DEF IInv, Names
<1>2. Phases'
  BY BoundsAssumption DEF IInv, Phases
<1>3. Locked'
  BY DEF IInv, Locked, Placed
<1>4. Placed'
  BY DEF IInv, Placed
<1>5. Pointed'
  BY DEF IInv, Placed, Pointed
<1>6. Together'
  BY DEF IInv, Placed, Together
<1>7. Shown'
  BY DEF IInv, Placed, Shown
<1>8. Alone'
  BY DEF IInv, Placed, Alone
<1>9. Claimed'
  BY DEF IInv, Placed, Claimed
<1> QED
  BY <1>0, <1>1, <1>2, <1>3, <1>4, <1>5, <1>6, <1>7, <1>8, <1>9 DEF IInv

(* The listing reads the session that exists while it is made. *)
LEMMA ListStep ==
  ASSUME IInv, NEW t \in Threads, RefreshList(t)
  PROVE  IInv'
<1> USE NullAssumption
    DEF Threads, Points, Critical, Dropping, Calling, Connecting, RefreshList, At,
        Answers, Alive, Breaks, Stall, Goto, objects
<1>0. Flags'
  BY DEF IInv, Flags
<1>1. Names'
  BY DEF IInv, Names
<1>2. Phases'
  BY BoundsAssumption DEF IInv, Phases
<1>3. Locked'
  BY DEF IInv, Locked, Placed
<1>4. Placed'
  BY DEF IInv, Placed
<1>5. Pointed'
  BY DEF IInv, Pointed
<1>6. Together'
  BY DEF IInv, Together
<1>7. Shown'
  BY DEF IInv, Shown
<1>8. Alone'
  BY DEF IInv, Alone
<1>9. Claimed'
  BY DEF IInv, Phases, Claimed
<1> QED
  BY <1>0, <1>1, <1>2, <1>3, <1>4, <1>5, <1>6, <1>7, <1>8, <1>9 DEF IInv

(* An action of the page begins; only Reconnect leads to a drop. *)
LEMMA PageSteps ==
  ASSUME IInv, PageNext
  PROVE  IInv'
<1> USE NullAssumption
    DEF Threads, Points, Critical, Dropping, Calling, Connecting, PageNext, Reconnect,
        At, Goto, usb, objects, panel, locks, Refresh, budget, ChangeLock,
        LockDevice, Snapshot, TestEngine
<1>0. Flags'
  BY DEF IInv, Flags
<1>1. Names'
  BY DEF IInv, Names
<1>2. Phases'
  BY BoundsAssumption DEF IInv, Phases
<1>3. Locked'
  BY DEF IInv, Locked, Placed
<1>4. Placed'
  BY DEF IInv, Placed
<1>5. Pointed'
  BY DEF IInv, Names, Placed, Pointed
<1>6. Together'
  BY DEF IInv, Placed, Together
<1>7. Shown'
  BY DEF IInv, Placed, Shown
<1>8. Alone'
  BY DEF IInv, Names, Phases, Placed, Alone
<1>9. Claimed'
  BY DEF IInv, Names, Placed, Claimed
<1> QED
  BY <1>0, <1>1, <1>2, <1>3, <1>4, <1>5, <1>6, <1>7, <1>8, <1>9 DEF IInv

(* And goes on. *)
LEMMA PageGoesOnSteps ==
  ASSUME IInv, Change \/ Copy \/ UseEngine
  PROVE  IInv'
<1> USE NullAssumption
    DEF Threads, Points, Critical, Dropping, Calling, Connecting, Change, At, Answers,
        Alive, Breaks, Stall, Goto, objects, panel, Copy, usb, locks, budget,
        UseEngine, Crash
<1>0. Flags'
  BY DEF IInv, Flags
<1>1. Names'
  BY DEF IInv, Names
<1>2. Phases'
  BY BoundsAssumption DEF IInv, Phases
<1>3. Locked'
  BY DEF IInv, Locked, Placed
<1>4. Placed'
  BY DEF IInv, Placed
<1>5. Pointed'
  BY DEF IInv, Names, Placed, Pointed
<1>6. Together'
  BY DEF IInv, Placed, Together
<1>7. Shown'
  BY DEF IInv, Placed, Shown
<1>8. Alone'
  BY DEF IInv, Names, Placed, Alone
<1>9. Claimed'
  BY DEF IInv, Names, Phases, Placed, Claimed
<1> QED
  BY <1>0, <1>1, <1>2, <1>3, <1>4, <1>5, <1>6, <1>7, <1>8, <1>9 DEF IInv

(* The worker takes the session's mutex while a transfer is active. *)
LEMMA WorkerSteps ==
  ASSUME IInv, Begin \/ End
  PROVE  IInv'
<1> USE NullAssumption
    DEF Threads, Points, Critical, Dropping, Calling, Connecting, Begin, usb, objects,
        panel, budget, End, Answers, Alive, Breaks, Stall
<1>0. Flags'
  BY DEF IInv, Flags
<1>1. Names'
  BY DEF IInv, Names
<1>2. Phases'
  BY BoundsAssumption DEF IInv, Phases
<1>3. Locked'
  BY DEF IInv, Locked
<1>4. Placed'
  BY DEF IInv, Placed
<1>5. Pointed'
  BY DEF IInv, Locked, Pointed
<1>6. Together'
  BY DEF IInv, Together
<1>7. Shown'
  BY DEF IInv, Shown
<1>8. Alone'
  BY DEF IInv, Alone
<1>9. Claimed'
  BY DEF IInv, Phases, Claimed
<1> QED
  BY <1>0, <1>1, <1>2, <1>3, <1>4, <1>5, <1>6, <1>7, <1>8, <1>9 DEF IInv

(* The invariant holds in every state. *)
LEMMA Invariance == ASSUME Endless PROVE Spec => []IInv
<1>1. IInv /\ [Next]_vars => IInv'
  <2> SUFFICES ASSUME IInv, [Next]_vars
               PROVE  IInv'
    OBVIOUS
  <2>1. CASE UNCHANGED vars
    BY <2>1 DEF vars, usb, objects, panel, locks, budget, IInv, Flags, Names, Phases, Locked,
       Placed, Pointed, Together, Shown, Alone, Claimed
  <2>2. CASE Plug \/ Unplug
    BY <2>2, DeviceSteps
  <2>3. CASE MonitorNext
    <3>1. CASE Connect \/ ConnectFails
      <4>1. Fresh \in Gens /\ Fresh # session
        BY FreshIsUnused DEF IInv
      <4> QED
        BY <3>1, <4>1, ConnectSteps
    <3> QED
      BY <2>3, <3>1, DecisionSteps, InstallStep, SetupSteps, PingSteps DEF MonitorNext
  <2>4. ASSUME NEW t \in Threads, CallNext(t)
        PROVE  IInv'
    BY <2>4, DropSteps, RefreshSteps, ListStep DEF CallNext
  <2>5. CASE PageNext
    BY <2>5, PageSteps
  <2>6. CASE PageGoesOn
    BY <2>6, <2>4, PageGoesOnSteps DEF PageGoesOn, Threads
  <2>7. CASE Begin \/ End
    BY <2>7, WorkerSteps
  <2> QED
    BY <2>1, <2>2, <2>3, <2>4, <2>5, <2>6, <2>7 DEF Next, Threads
<1> QED
  BY <1>1, InitIInv, PTL DEF Spec

------------------------------------------------------------------------------
(* Theorems *)

(* device_mtx_ is held across steps exactly by the thread in one of its        *)
(* critical sections, the session's mutex by the worker exactly during a       *)
(* transfer, and one handle at a time has the interface (App.mm:76-173).       *)
THEOREM TypeCorrect ==
  ASSUME Endless PROVE Spec => []TypeOK
<1>1. IInv => TypeOK
  BY DEF IInv, TypeOK, Flags, Names, Phases, Locked, Critical
<1> QED
  BY <1>1, Invariance, PTL

(* Outside a critical section of device_mtx_ session_, ops_ and engine_ are of *)
(* one connection or all null, on whichever thread they were made or reset.    *)
THEOREM HaveObjectsTogether ==
  ASSUME Endless PROVE Spec => []ObjectsTogether
<1>1. IInv => ObjectsTogether
  <2> SUFFICES ASSUME IInv, dmtx = Null
               PROVE  session = ops /\ ops = engine
    BY DEF ObjectsTogether
  <2>1. \A t \in Threads : pc[t] # "close"
    BY NullAssumption DEF IInv, Locked, Critical, Threads
  <2> QED
    BY <2>1 DEF IInv, Together
<1> QED
  BY <1>1, Invariance, PTL

(* While the App says it is connected, the files it shows were read from the   *)
(* session it holds (on_device_connected clears the list first, App.mm:136).   *)
THEOREM ShowSession ==
  ASSUME Endless PROVE Spec => []EntriesOfSession
<1>1. IInv => EntriesOfSession
  BY DEF IInv, Shown, EntriesOfSession
<1> QED
  BY <1>1, Invariance, PTL

(* Until Reconnect is pressed the monitor calls no object that is gone, and    *)
(* no session is closed under another thread's command.                        *)
THEOREM MonitorSafe ==
  ASSUME Endless PROVE Spec => []SafeWithoutReconnect
<1>1. IInv => SafeWithoutReconnect
  <2> SUFFICES ASSUME IInv, clicks = 0
               PROVE  /\ crashed # "monitor"
                      /\ \A t \in Threads : pc[t] = "close" /\ up => smtx \in {Null, t}
    BY DEF SafeWithoutReconnect
  <2>1. crashed # "monitor" /\ pc["ui"] # "close"
    BY DEF IInv, Alone, Dropping
  <2>2. pc["monitor"] = "close" => smtx \in {Null, "monitor"}
    BY DEF IInv, Together, Pointed, Locked, Phases, Threads
  <2> QED
    BY <2>1, <2>2 DEF Threads
<1> QED
  BY <1>1, Invariance, PTL

(* Without stalls nothing has the interface but the session the App holds and  *)
(* the one that connect() builds: handles do not leak (MTPSession.hpp:42).     *)
THEOREM HandlesReleased ==
  ASSUME Endless PROVE Spec => []ReleasedUnlessStalled
<1>1. IInv => ReleasedUnlessStalled
  BY DEF IInv, Claimed, ReleasedUnlessStalled, Released
<1> QED
  BY <1>1, Invariance, PTL
=============================================================================
