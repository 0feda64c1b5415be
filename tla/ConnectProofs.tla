--------------------------- MODULE ConnectProofs ---------------------------
(***************************************************************************)
(* Proofs about Connect for any number of devices of any kind.  The        *)
(* invariant says what the session has of its device at each point of an   *)
(* attempt: on the bus until it is unplugged, with the ids of the one that *)
(* was found, and the endpoints its settings give.                         *)
(***************************************************************************)
EXTENDS Connect, FiniteSetTheorems, SequenceTheorems, TLAPS

(* What the variables range over. *)
Typed ==
  /\ bus \in Seq(Devices)
  /\ taken \subseteq Devices /\ held \subseteq Devices
  /\ pc \in {"find", "lookup", "open", "claim", "handshake", "connected", "destroy"}

(* How far the attempt is and what the session has of the device. *)
Gripped ==
  /\ pc = "find" => grip = "none"
  /\ pc = "lookup" => found # Null /\ grip = "none"
  /\ pc = "open" => grip \in {"listed", "dead"}
  /\ pc = "claim" => grip \in {"opened", "dead"}
  /\ pc \in {"handshake", "connected"} => grip \in {"claimed", "dead"}
  /\ grip = "none" <=> dev = Null
  /\ grip \in {"listed", "opened", "claimed"} => Plugged(dev)

(* A session has a device only after one with the same ids was found, and its *)
(* endpoints are those of the device.                                         *)
Chosen ==
  dev # Null => /\ found # Null
                /\ kind[dev].id = kind[found].id
                /\ HasEndpoints(dev) /\ ep = Endpoints(dev)

IInv == TypeOK /\ Typed /\ Gripped /\ Chosen

------------------------------------------------------------------------------
(* Lists *)

(* No device is listed twice; a device is on a list. *)
Distinct(s) == \A j, k \in 1..Len(s) : s[j] = s[k] => j = k
On(s, e) == \E k \in 1..Len(s) : s[k] = e

(* The first of some positions is one of them: of those up to each of them,    *)
(* one has no other one inside.                                                *)
LEMMA FirstIsIn ==
  ASSUME NEW n \in Nat, NEW S \in SUBSET (1..n), S # {}
  PROVE  First(S) \in S
<1> DEFINE UpTo(k) == {j \in S : j <= k}
           All == {UpTo(k) : k \in S}
<1>1. S \in SUBSET Nat /\ IsFiniteSet(S)
  <2>1. IsFiniteSet(1..n)
    BY FS_Interval
  <2>2. IsFiniteSet(S)
    BY <2>1, FS_Subset
  <2> QED
    BY <2>2
<1>2. All \subseteq FiniteSubsetsOf(Nat) /\ All # {}
  <2>1. ASSUME NEW k \in S
        PROVE  UpTo(k) \in FiniteSubsetsOf(Nat)
    <3>1. UpTo(k) \subseteq S
      OBVIOUS
    <3> HIDE DEF UpTo
    <3> QED
      BY <1>1, <3>1, FS_Subset DEF FiniteSubsetsOf
  <2> QED
    BY <2>1
<1>3. PICK X \in All : \A Y \in All : ~ (<<Y, X>> \in StrictSubsetOrdering(Nat))
  <2>1. IsWellFoundedOn(StrictSubsetOrdering(Nat), FiniteSubsetsOf(Nat))
    BY FS_StrictSubsetOrderingWellFounded
  <2> HIDE DEF All
  <2> QED
    BY <1>2, <2>1, WFMin
<1>4. PICK k \in S : X = UpTo(k)
  OBVIOUS
<1>5. ASSUME NEW j \in S, ~(k <= j)
      PROVE  FALSE
  <2>1. UpTo(j) \in SUBSET Nat /\ UpTo(k) \in SUBSET Nat
    BY <1>1
  <2>2. UpTo(j) \subseteq UpTo(k) /\ k \in UpTo(k) /\ k \notin UpTo(j)
    <3>1. j \in Nat /\ k \in Nat /\ j < k
      BY <1>1, <1>5
    <3>2. \A i \in S : i \in Nat /\ (i <= j => i <= k)
      BY <1>1, <3>1
    <3>3. k <= k /\ ~(k <= j)
      BY <3>1
    <3> QED
      BY <3>2, <3>3
  <2>3. <<UpTo(j), UpTo(k)>> \in StrictSubsetOrdering(Nat)
    <3> HIDE DEF UpTo
    <3> QED
      BY <2>1, <2>2 DEF StrictSubsetOrdering
  <2> QED
    BY <1>3, <1>4, <2>3
<1> QED
  BY <1>5 DEF First

(* A new device at either end of the list keeps the others on it, and once. *)
LEMMA OneMore ==
  ASSUME NEW s \in Seq(Devices), Distinct(s),
         NEW d \in Devices, ~On(s, d),
         NEW t \in {<<d>> \o s, Append(s, d)}
  PROVE  t \in Seq(Devices) /\ Distinct(t) /\ \A e : On(s, e) => On(t, e)
<1>3. /\ \A k \in 1..Len(s) : s[k] # d
      /\ \A j, k \in 1..Len(s) : s[j] = s[k] => j = k
  BY DEF Distinct, On
<1>1. CASE t = <<d>> \o s
  <2>1. t \in Seq(Devices) /\ Len(t) = Len(s) + 1
    BY <1>1
  <2>2. \A k \in 1..Len(t) : t[k] = IF k = 1 THEN d ELSE s[k - 1]
    BY <1>1
  <2>3. \A k \in 1..Len(s) : k + 1 \in 1..Len(t) /\ t[k + 1] = s[k]
    BY <2>1, <2>2
  <2>4. ASSUME NEW j \in 1..Len(t), NEW k \in 1..Len(t), t[j] = t[k]
        PROVE  j = k
    <3>1. CASE j = 1 \/ k = 1
      BY <1>3, <2>1, <2>2, <2>4, <3>1
    <3>2. CASE j # 1 /\ k # 1
      <4>1. j - 1 \in 1..Len(s) /\ k - 1 \in 1..Len(s) /\ s[j - 1] = s[k - 1]
        BY <2>1, <2>2, <2>4, <3>2
      <4>2. j - 1 = k - 1
        BY <1>3, <4>1
      <4> QED
        BY <4>2
    <3> QED
      BY <3>1, <3>2
  <2>5. \A e : On(s, e) => On(t, e)
    BY <2>3 DEF On
  <2> QED
    BY <2>1, <2>4, <2>5 DEF Distinct
<1>2. CASE t = Append(s, d)
  <2>1. t \in Seq(Devices) /\ Len(t) = Len(s) + 1
    BY <1>2
  <2>2. \A k \in 1..Len(t) : t[k] = IF k = Len(t) THEN d ELSE s[k]
    BY <1>2
  <2>3. Distinct(t)
    BY <1>3, <2>1, <2>2 DEF Distinct
  <2>4. \A e : On(s, e) => On(t, e)
    BY <2>1, <2>2 DEF On
  <2> QED
    BY <2>1, <2>3, <2>4
<1> QED
  BY <1>1, <1>2

(* Taking one out leaves the others. *)
LEMMA OneLess ==
  ASSUME NEW s \in Seq(Devices), Distinct(s), NEW i \in 1..Len(s)
  PROVE  /\ RemoveAt(s, i) \in Seq(Devices)
         /\ Distinct(RemoveAt(s, i))
         /\ \A e : On(s, e) /\ e # s[i] => On(RemoveAt(s, i), e)
<1> DEFINE a == SubSeq(s, 1, i - 1)
           b == SubSeq(s, i + 1, Len(s))
           t == a \o b
<1>1. /\ a \in Seq(Devices) /\ Len(a) = i - 1
      /\ \A k \in 1..(i - 1) : a[k] = s[k]
  OBVIOUS
<1>2. /\ b \in Seq(Devices) /\ Len(b) = Len(s) - i
      /\ \A k \in 1..(Len(s) - i) : b[k] = s[k + i]
  OBVIOUS
<1>3. t \in Seq(Devices) /\ Len(t) = Len(s) - 1
  <2> HIDE DEF a, b
  <2>1. t \in Seq(Devices) /\ Len(t) = Len(a) + Len(b)
    BY <1>1, <1>2, ConcatProperties, Zenon
  <2>2. Len(s) \in Nat /\ i \in 1..Len(s)
    OBVIOUS
  <2> HIDE DEF t
  <2> QED
    BY <1>1, <1>2, <2>1, <2>2
<1>4. \A k \in 1..Len(t) : t[k] = IF k < i THEN s[k] ELSE s[k + 1]
  <2> SUFFICES ASSUME NEW k \in 1..Len(t)
               PROVE  t[k] = IF k < i THEN s[k] ELSE s[k + 1]
    OBVIOUS
  <2> HIDE DEF a, b
  <2>1. t[k] = IF k <= Len(a) THEN a[k] ELSE b[k - Len(a)]
    BY <1>1, <1>2, <1>3
  <2> HIDE DEF t
  <2>2. CASE k < i
    BY <1>1, <1>3, <2>1, <2>2
  <2>3. CASE k >= i
    <3>1. k - (i - 1) \in 1..(Len(s) - i) /\ (k - (i - 1)) + i = k + 1
      BY <1>3, <2>3
    <3>2. b[k - (i - 1)] = s[k + 1]
      BY <1>2, <3>1
    <3> QED
      BY <1>1, <1>3, <2>1, <2>3, <3>2
  <2> QED
    BY <1>3, <2>2, <2>3
<1>5. RemoveAt(s, i) = t
  BY DEF RemoveAt
<1> HIDE DEF t
<1>6. Distinct(t)
  <2> SUFFICES ASSUME NEW j \in 1..Len(t), NEW k \in 1..Len(t), t[j] = t[k]
               PROVE  j = k
    BY DEF Distinct
  <2> DEFINE at(n) == IF n < i THEN n ELSE n + 1
  <2>1. at(j) \in 1..Len(s) /\ at(k) \in 1..Len(s) /\ s[at(j)] = s[at(k)]
    BY <1>3, <1>4
  <2>2. at(j) = at(k)
    <3> HIDE DEF at
    <3> QED
      BY <2>1 DEF Distinct
  <2> QED
    BY <1>3, <2>2
<1>7. ASSUME NEW k \in 1..Len(s), k # i
      PROVE  \E j \in 1..Len(t) : t[j] = s[k]
  <2>1. CASE k < i
    BY <1>3, <1>4, <2>1
  <2>2. CASE k > i
    <3>1. k - 1 \in 1..Len(t) /\ t[k - 1] = s[k]
      BY <1>3, <1>4, <2>2
    <3> QED
      BY <3>1
  <2> QED
    BY <1>7, <2>1, <2>2
<1>8. \A e : On(s, e) /\ e # s[i] => On(t, e)
  BY <1>7 DEF On
<1> QED
  BY <1>3, <1>5, <1>6, <1>8

------------------------------------------------------------------------------
(* Steps *)

(* Nothing is found before the first attempt. *)
LEMMA InitIInv == Init => IInv
  BY DEF Init, IInv, TypeOK, Typed, Gripped, Chosen

(* As long as the session keeps its device, it stays the one that was chosen.  *)
LEMMA ChosenStays ==
  ASSUME IInv, UNCHANGED <<kind, found, dev, ep>>
  PROVE  Chosen'
<1>2. Settings(dev)' = Settings(dev)
  BY DEF Settings
<1>3. Ins(dev)' = Ins(dev) /\ Outs(dev)' = Outs(dev)
  BY <1>2 DEF Ins, Outs
<1>4. LastScanned(dev)' = LastScanned(dev)
  BY <1>3 DEF LastScanned, First
<1>5. HasEndpoints(dev)' <=> HasEndpoints(dev)
  BY <1>3 DEF HasEndpoints
<1>6. Endpoints(dev)' = Endpoints(dev)
  BY <1>2, <1>3, <1>4 DEF Endpoints, First
<1> QED
  BY <1>5, <1>6 DEF IInv, Chosen

(* A device that is plugged in joins the list; what was on it stays.           *)
LEMMA PlugStep ==
  ASSUME IInv, NEW d \in Devices, Plug(d)
  PROVE  IInv'
<1>1. /\ bus \in Seq(Devices) /\ Distinct(bus) /\ ~On(bus, d)
      /\ bus' \in {<<d>> \o bus, Append(bus, d)}
  BY DEF IInv, TypeOK, Typed, Plug, Plugged, Distinct, On
<1>2. /\ bus' \in Seq(Devices) /\ Distinct(bus')
      /\ \A e : On(bus, e) => On(bus', e)
  BY <1>1, OneMore
<1>3. Plugged(dev) => Plugged(dev)'
  BY <1>2 DEF Plugged, Plug, session, On
<1>4. UNCHANGED <<kind, taken, held, pc, session, grip>>
  BY DEF Plug
<1>5. Chosen'
  BY <1>4, ChosenStays DEF session
<1> QED
  BY <1>2, <1>3, <1>4, <1>5 DEF IInv, TypeOK, Typed, Gripped, session, Distinct

(* One that is unplugged leaves the list and, if it is the session's, a dead   *)
(* handle.                                                                     *)
LEMMA UnplugStep ==
  ASSUME IInv, NEW d \in Devices, Unplug(d)
  PROVE  IInv'
<1>1. PICK i \in 1..Len(bus) : bus[i] = d /\ bus' = RemoveAt(bus, i)
  BY DEF Unplug
<1>2. bus \in Seq(Devices) /\ Distinct(bus)
  BY DEF IInv, TypeOK, Typed, Distinct
<1>3. /\ bus' \in Seq(Devices) /\ Distinct(bus')
      /\ \A e : On(bus, e) /\ e # d => On(bus', e)
  BY <1>1, <1>2, OneLess
<1>4. Plugged(dev) /\ dev # d => Plugged(dev)'
  BY <1>3 DEF Plugged, Unplug, session, On
<1>5. /\ taken' = taken \ {d} /\ held' = held \ {d}
      /\ grip' = IF dev = d THEN "dead" ELSE grip
      /\ UNCHANGED <<kind, pc, session>>
  BY DEF Unplug
<1>6. Null # d
  BY NullAssumption
<1>7. TypeOK' /\ Typed'
  BY <1>3, <1>4, <1>5 DEF IInv, TypeOK, Typed, Gripped, session, Distinct
<1>8. Gripped'
  BY <1>4, <1>5, <1>6 DEF IInv, Gripped, session
<1>9. Chosen'
  BY <1>5, ChosenStays DEF session
<1> QED
  BY <1>7, <1>8, <1>9 DEF IInv

(* Another program claims no interface that is claimed already.                *)
LEMMA ProgramSteps ==
  ASSUME IInv, NEW d \in Devices, Grab(d) \/ LetGo(d)
  PROVE  IInv'
<1>1. /\ UNCHANGED <<kind, bus, held, pc, session, grip>>
      /\ taken' \subseteq Devices /\ taken' \cap held = {}
      /\ grip = "claimed" => dev \notin taken'
  BY DEF Grab, LetGo, IInv, TypeOK, Typed
<1>2. Chosen'
  BY <1>1, ChosenStays DEF session
<1> QED
  BY <1>1, <1>2 DEF IInv, TypeOK, Typed, Gripped, Plugged, session

(* find_device takes a device from its listing. *)
LEMMA FindStep ==
  ASSUME IInv, Find
  PROVE  IInv'
<1>1. bus \in Seq(Devices) /\ Len(bus) \in Nat
  BY DEF IInv, Typed
<1>2. First(Candidates) \in 1..Len(bus)
  BY <1>1, FirstIsIn DEF Candidates, Find
<1>3. found' \in Devices /\ found' # Null
  BY <1>1, <1>2, NullAssumption DEF Find
<1> QED
  BY <1>3 DEF Find, world, IInv, TypeOK, Typed, Gripped, Chosen, Plugged

(* connect takes one with the same ids from its own. *)
LEMMA LookupStep ==
  ASSUME IInv, Lookup
  PROVE  IInv'
<1> DEFINE d == bus[First(SameIds)]
<1>1. bus \in Seq(Devices) /\ Len(bus) \in Nat
  BY DEF IInv, Typed
<1>2. /\ pc = "lookup" /\ found # Null /\ grip = "none" /\ dev = Null
      /\ UNCHANGED <<world, held, found, up>>
  BY DEF Lookup, IInv, Gripped
<1>3. CASE SameIds # {} /\ HasEndpoints(d)
  <2>1. First(SameIds) \in SameIds
    BY <1>1, <1>3, FirstIsIn DEF SameIds
  <2>2. PICK k \in 1..Len(bus) : d = bus[k] /\ kind[d].id = kind[found].id
    BY <2>1, Zenon DEF SameIds
  <2>3. dev' = d /\ grip' = "listed" /\ ep' = Endpoints(d) /\ pc' = "open"
    BY <1>3 DEF Lookup
  <2> HIDE DEF d
  <2>4. d \in Devices /\ d # Null /\ Plugged(d)
    BY <1>1, <2>2, NullAssumption DEF Plugged
  <2>5. Settings(dev)' = Settings(d)
    BY <1>2, <2>3 DEF Settings, world
  <2>6. Ins(dev)' = Ins(d) /\ Outs(dev)' = Outs(d)
    BY <2>5 DEF Ins, Outs
  <2>7. LastScanned(dev)' = LastScanned(d)
    BY <2>6 DEF LastScanned, First
  <2>8. HasEndpoints(dev)' /\ Endpoints(dev)' = Endpoints(d)
    BY <1>3, <2>5, <2>6, <2>7 DEF HasEndpoints, Endpoints, First
  <2>9. Plugged(dev)' /\ kind' = kind
    BY <1>2, <2>3, <2>4 DEF Plugged, world
  <2>10. Chosen'
    BY <1>2, <2>2, <2>3, <2>8, <2>9 DEF Chosen
  <2>11. TypeOK' /\ Typed'
    BY <1>2, <2>3, <2>4, <2>9 DEF IInv, TypeOK, Typed, Gripped, world
  <2> QED
    BY <2>3, <2>4, <2>9, <2>10, <2>11 DEF IInv, Gripped
<1>4. CASE ~(SameIds # {} /\ HasEndpoints(d))
  <2>1. pc' = "destroy" /\ UNCHANGED <<dev, grip, ep>>
    BY <1>4 DEF Lookup
  <2> QED
    BY <1>2, <2>1 DEF IInv, TypeOK, Typed, Gripped, Chosen, Plugged, world
<1> QED
  BY <1>3, <1>4

(* Opening and claiming move the attempt on or end it; an interface that is    *)
(* claimed was free.                                                           *)
LEMMA OpenSteps ==
  ASSUME IInv, OpenDevice \/ Claim \/ Handshake
  PROVE  IInv'
<1>1. UNCHANGED <<kind, bus, taken, held, found, dev, ep>>
  BY DEF OpenDevice, Claim, Handshake, world, session
<1>2. Chosen' /\ (Plugged(dev)' <=> Plugged(dev))
  BY <1>1, ChosenStays DEF Plugged
<1>3. CASE OpenDevice
  BY <1>1, <1>2, <1>3 DEF OpenDevice, IInv, TypeOK, Typed, Gripped
<1>4. CASE Claim
  BY <1>1, <1>2, <1>4 DEF Claim, Claimable, IInv, TypeOK, Typed, Gripped
<1>5. CASE Handshake
  BY <1>1, <1>2, <1>5 DEF Handshake, session, IInv, TypeOK, Typed, Gripped
<1> QED
  BY <1>3, <1>4, <1>5

(* A session ends with a handle that is claimed or dead, and is destroyed.     *)
LEMMA EndSteps ==
  ASSUME IInv, SessionFails \/ Leave \/ Destroy
  PROVE  IInv'
<1>1. UNCHANGED <<kind, bus, taken>>
  BY DEF SessionFails, Leave, Destroy, world
<1>2. CASE SessionFails \/ Leave
  <2>1. UNCHANGED <<held, found, dev, ep, grip>>
    BY <1>2 DEF SessionFails, Leave, session
  <2>2. Chosen' /\ (Plugged(dev)' <=> Plugged(dev))
    BY <1>1, <2>1, ChosenStays DEF Plugged
  <2> QED
    BY <1>1, <1>2, <2>1, <2>2 DEF SessionFails, Leave, session, IInv, TypeOK, Typed, Gripped
<1>3. CASE Destroy
  <2>1. held' \subseteq Devices /\ taken \cap held' = {}
    BY <1>3 DEF Destroy, IInv, TypeOK, Typed, Gripped, Plugged
  <2> QED
    BY <1>1, <1>3, <2>1 DEF Destroy, IInv, TypeOK, Typed, Gripped, Chosen
<1> QED
  BY <1>2, <1>3

(* The invariant holds in every state. *)
LEMMA Invariance == Spec => []IInv
<1>1. IInv /\ [Next]_vars => IInv'
  <2> SUFFICES ASSUME IInv, [Next]_vars
               PROVE  IInv'
    OBVIOUS
  <2>1. CASE UNCHANGED vars
    <3>1. Chosen'
      BY <2>1, ChosenStays DEF vars, world, session
    <3> QED
      BY <2>1, <3>1 DEF vars, world, session, IInv, TypeOK, Typed, Gripped, Plugged
  <2>2. CASE \E d \in Devices : Plug(d) \/ Unplug(d) \/ Grab(d) \/ LetGo(d)
    BY <2>2, PlugStep, UnplugStep, ProgramSteps
  <2>3. CASE Try \/ SessionFails \/ Leave
    BY <2>3, FindStep, LookupStep, OpenSteps, EndSteps DEF Try
  <2> QED
    BY <2>1, <2>2, <2>3 DEF Next
<1> QED
  BY <1>1, InitIInv, PTL DEF Spec

------------------------------------------------------------------------------
(* Theorems *)

(* A device is listed once, connected_ is true only on an open handle, and no  *)
(* two programs have claimed a device.                                         *)
THEOREM TypeCorrect == Spec => []TypeOK
<1>1. IInv => TypeOK
  BY DEF IInv
<1> QED
  BY <1>1, Invariance, PTL

(* Where ids are distinct connect() opens the device find_device found,        *)
(* whatever comes and goes on the bus between the two listings.                *)
THEOREM FoundOpened == Spec => []FoundIsOpened
<1>1. IInv => FoundIsOpened
  BY DEF IInv, TypeOK, Chosen, FoundIsOpened, DistinctIds
<1> QED
  BY <1>1, Invariance, PTL

(* connect() claims the interface its endpoints belong to, however many        *)
(* settings a device has, as long as each that is MTP has both endpoints.      *)
THEOREM EndpointsClaimed == Spec => []EndpointsOfClaimed
<1>1. IInv => EndpointsOfClaimed
  <2> SUFFICES ASSUME IInv, dev # Null, WholeSettings(dev)
               PROVE  {ep.in, ep.out} = {ep.iface}
    BY DEF EndpointsOfClaimed
  <2>1. Ins(dev) = Outs(dev)
    BY DEF WholeSettings, Ins, Outs
  <2>2. LastScanned(dev) = First(Ins(dev)) /\ First(Outs(dev)) = First(Ins(dev))
    BY <2>1 DEF LastScanned
  <2>3. ep = Endpoints(dev)
    BY DEF IInv, Chosen
  <2> QED
    BY <2>2, <2>3 DEF Endpoints
<1> QED
  BY <1>1, Invariance, PTL
=============================================================================
