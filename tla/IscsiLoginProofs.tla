---------------------------- MODULE IscsiLoginProofs ----------------------------
(***************************************************************************)
(* What the login script promises, for any number of sessions, devices,    *)
(* polls and logins by others.                                             *)
(***************************************************************************)
EXTENDS IscsiLogin, FiniteSetTheorems, TLAPS

SessionRecord == [mine : BOOLEAN, under : SUBSET Values]
DeviceRecord ==
  [session : Sids, node : BOOLEAN, limits : SUBSET QueueLimits]

-----------------------------------------------------------------------------
(* Types. *)

(* What is present has the type of a device; the updates of one device     *)
(* keep it.                                                                *)
LEMMA PresentType ==
  ASSUME TypeOK
  PROVE  /\ \A d \in Present : d \in Devices /\ device[d] \in DeviceRecord
         /\ \A s \in Open : s \in Sids /\ sessions[s] \in SessionRecord
BY DEF TypeOK, Present, Open, DeviceRecord, SessionRecord

LEMMA WriteType ==
  ASSUME TypeOK, current \in Present, NEW limit \in QueueLimits, Write(limit)
  PROVE  device' \in [Devices -> {None} \cup DeviceRecord]
<1>1. current \in Devices /\ device[current] \in DeviceRecord
  BY PresentType
<1>2. [device[current] EXCEPT !.limits = @ \cup {limit}] \in DeviceRecord
  BY <1>1 DEF DeviceRecord
<1>3. device \in [Devices -> {None} \cup DeviceRecord]
  BY DEF TypeOK, DeviceRecord
<1> QED BY <1>1, <1>2, <1>3 DEF Write

(* A write to a queue control changes nothing but a limit of the device in *)
(* hand.                                                                   *)
LEMMA WriteKeeps ==
  ASSUME TypeOK, current \in Present, NEW limit \in QueueLimits, Write(limit)
  PROVE  /\ Present' = Present
         /\ \A d \in Present : device'[d].session = device[d].session
         /\ \A d \in Present : d # current => device'[d] = device[d]
         /\ device'[current].limits = device[current].limits \cup {limit}
<1>1. current \in Devices /\ device[current] \in DeviceRecord
  BY PresentType
<1> DEFINE new == [device[current] EXCEPT !.limits = @ \cup {limit}]
<1>2. /\ new \in DeviceRecord /\ new.session = device[current].session
      /\ new.limits = device[current].limits \cup {limit}
  BY <1>1 DEF DeviceRecord
<1>3. device' = [device EXCEPT ![current] = new]
  BY DEF Write
<1>4. \A s \in DeviceRecord : s # None
  BY IscsiLoginAssumption DEF DeviceRecord
<1>5. new # None /\ device[current] # None
  BY <1>1, <1>2, <1>4
<1> HIDE DEF new
<1>6. DOMAIN device = Devices
  BY DEF TypeOK
<1> QED BY <1>1, <1>2, <1>3, <1>5, <1>6 DEF Present

(* A device that appears is a new one, and has no limits. *)
LEMMA AttachKeeps ==
  ASSUME TypeOK, Attach
  PROVE  \E e \in Devices, s \in Sids :
           /\ Cardinality(DevicesOf(s)) < Luns
           /\ device'[e].session = s /\ device'[e].limits = {}
           /\ \A d \in Present : d \in Present' /\ d # e /\ device'[d] = device[d]
           /\ \A d \in Present' : d # e => d \in Present /\ device'[d] = device[d]
<1>1. PICK e \in Devices \ Present, s \in Sids :
        /\ Cardinality(DevicesOf(s)) < Luns
        /\ device' = [device EXCEPT
                        ![e] = [session |-> s, node |-> FALSE, limits |-> {}]]
  BY DEF Attach, Open
<1> DEFINE new == [session |-> s, node |-> FALSE, limits |-> {}]
<1>2. new.session = s /\ new.limits = {}
  OBVIOUS
<1>3. device' = [device EXCEPT ![e] = new]
  BY <1>1
<1> HIDE DEF new
<1>4. DOMAIN device = Devices
  BY DEF TypeOK
<1>5. device'[e] = new /\ \A d \in Devices : d # e => device'[d] = device[d]
  BY <1>3, <1>4
<1> QED BY <1>1, <1>2, <1>5 DEF Present

LEMMA TypeInit == Init => TypeOK
<1> SUFFICES ASSUME Init PROVE TypeOK
  OBVIOUS
<1>1. {{}, Values} \subseteq SUBSET Values
  OBVIOUS
<1>2. sessions \in [Sids -> {None} \cup SessionRecord]
  BY <1>1 DEF Init, SessionRecord
<1>3. device \in [Devices -> {None} \cup DeviceRecord]
  BY DEF Init
<1>4. record \in {None} \cup SUBSET Values
  BY DEF Init
<1>5. /\ polls \in 0..(Polls - 1)
      /\ changes \in 0..MaxChanges /\ logouts \in 0..changes
  <2>1. Polls \in Nat \ {0} /\ MaxChanges \in Nat
    BY IscsiLoginAssumption
  <2>2. polls = 0 /\ changes = 0 /\ logouts = 0
    BY DEF Init
  <2> QED BY <2>1, <2>2
<1>6. /\ ported \in BOOLEAN /\ pc = "show" /\ pending = Values
      /\ session = None /\ current = None /\ todo = {} /\ fresh = FALSE /\ lost = {}
  BY DEF Init
<1> QED BY <1>2, <1>3, <1>4, <1>5, <1>6 DEF TypeOK, Ended, SessionRecord, DeviceRecord

LEMMA TypeNext == TypeOK /\ [Next]_vars => TypeOK'
<1> SUFFICES ASSUME TypeOK, [Next]_vars PROVE TypeOK'
  OBVIOUS
<1> USE IscsiLoginAssumption
<1>1. CASE ShowNode
  BY <1>1 DEF ShowNode, TypeOK, system, script, others, Ended
<1>2. CASE Discover
  BY <1>2 DEF Discover, Rediscovered, TypeOK, system, script, others, Ended
<1>3. CASE UpdateNode
  BY <1>3 DEF UpdateNode, Fail, TypeOK, system, script, others, Ended
<1>4. CASE FindSession
  BY <1>4 DEF FindSession, Fail, TypeOK, system, script, others, Ended
<1>5. CASE Login
  BY <1>5 DEF Login, TypeOK, system, script, others, Ended
<1>6. CASE Settle
  BY <1>6 DEF Settle, TypeOK, system, script, others, Ended
<1>7. CASE PollSession
  BY <1>7 DEF PollSession, Fail, TypeOK, system, script, others, Ended
<1>8. CASE ListDevices
  <2>1. Listed \subseteq Devices
    BY DEF Listed, DevicesOf, Present
  <2> QED BY <1>8, <2>1 DEF ListDevices, Fail, TypeOK, system, script, others, Ended
<1>9. CASE NextDevice
  BY <1>9 DEF NextDevice, Fail, TypeOK, system, script, others, Ended
<1>10. CASE WriteSectors
  <2>1. device' \in [Devices -> {None} \cup DeviceRecord]
    BY <1>10, WriteType DEF WriteSectors, QueueLimits
  <2> QED BY <1>10, <2>1 DEF WriteSectors, DeviceRecord, TypeOK, system, script, others, Ended
<1>11. CASE WriteDepth
  <2>1. device' \in [Devices -> {None} \cup DeviceRecord]
    BY <1>11, WriteType DEF WriteDepth, QueueLimits
  <2> QED BY <1>11, <2>1 DEF WriteDepth, DeviceRecord, TypeOK, system, script, others, Ended
<1>12. CASE CommandFails
  BY <1>12 DEF CommandFails, Fail, TypeOK, system, script, others, Ended
<1>13. CASE Attach
  <2>1. PICK d \in Devices, s \in Sids :
          device' = [device EXCEPT
                       ![d] = [session |-> s, node |-> FALSE, limits |-> {}]]
    BY <1>13 DEF Attach, Open
  <2>2. [session |-> s, node |-> FALSE, limits |-> {}] \in DeviceRecord
    BY DEF DeviceRecord
  <2>3. device' \in [Devices -> {None} \cup DeviceRecord]
    BY <2>1, <2>2 DEF TypeOK, DeviceRecord
  <2> QED BY <1>13, <2>3 DEF Attach, DeviceRecord, TypeOK, system, script, others, Ended
<1>14. CASE MakeNode
  <2>1. PICK d \in Present : device' = [device EXCEPT ![d].node = TRUE]
    BY <1>14 DEF MakeNode
  <2>2. d \in Devices /\ [device[d] EXCEPT !.node = TRUE] \in DeviceRecord
    BY PresentType DEF DeviceRecord
  <2>3. device' \in [Devices -> {None} \cup DeviceRecord]
    BY <2>1, <2>2 DEF TypeOK, DeviceRecord
  <2> QED BY <1>14, <2>3 DEF MakeNode, DeviceRecord, TypeOK, system, script, others, Ended
<1>15. CASE OtherLogin
  BY <1>15 DEF OtherLogin, Change, TypeOK, system, script, others, Ended
<1>16. CASE Logout
  <2>1. device' \in [Devices -> {None} \cup DeviceRecord]
    BY <1>16 DEF Logout, TypeOK, DeviceRecord
  <2>2. sessions' \in [Sids -> {None} \cup SessionRecord]
    BY <1>16 DEF Logout, TypeOK, SessionRecord
  <2> QED BY <1>16, <2>1, <2>2
        DEF Logout, Change, SessionRecord, DeviceRecord, TypeOK, system, script, others, Ended
<1>18. CASE OtherDiscovers
  <2>1. record' \in {None} \cup SUBSET Values
    BY <1>18 DEF OtherDiscovers, Rediscovered, TypeOK
  <2>2. lost' \subseteq Values
    BY <1>18 DEF OtherDiscovers, TypeOK
  <2> HIDE DEF Values
  <2> QED BY <1>18, <2>1, <2>2 DEF OtherDiscovers, Change, TypeOK, script, Ended
<1>17. CASE UNCHANGED vars
  BY <1>17 DEF vars, TypeOK, system, script, others, Ended
<1> QED BY <1>1, <1>2, <1>3, <1>4, <1>5, <1>6, <1>7, <1>8, <1>9,
           <1>10, <1>11, <1>12, <1>13, <1>14, <1>15, <1>16, <1>17, <1>18
      DEF Next, Script, Environment

-----------------------------------------------------------------------------
(* The session and its devices. *)

Before == {"show", "discover", "update", "find", "login", "settle", "poll"}
AtDevice == {"sectors", "depth"}

(* Until a session is chosen there is no list; afterwards, when nobody     *)
(* logs out, the session, its list and the device in hand stay what they   *)
(* were when they were looked up.                                          *)
Chosen ==
  /\ pc \in Before => session = None /\ todo = {}
  /\ Quiet =>
       /\ session # None => session \in Mine
       /\ todo \subseteq DevicesOf(session)
       /\ pc \in AtDevice => current \in DevicesOf(session)

(* No step but a logout takes a session or a device away. *)
LEMMA Kept ==
  ASSUME TypeOK, [Next]_vars, Quiet'
  PROVE  /\ Quiet /\ Mine \subseteq Mine'
         /\ \A s \in Open : s \in Open' /\ sessions'[s] = sessions[s]
         /\ \A d \in Present : d \in Present' /\ device'[d].session = device[d].session
<1> USE IscsiLoginAssumption
<1>0. logouts \in Nat
  BY DEF TypeOK
<1>1. CASE ShowNode
  BY <1>1 DEF ShowNode, Quiet, Mine, Open, DevicesOf, Present, system,
        script, others
<1>2. CASE Discover
  BY <1>2 DEF Discover, Quiet, Mine, Open, DevicesOf, Present, system,
        script, others
<1>3. CASE UpdateNode
  BY <1>3 DEF UpdateNode, Fail, Quiet, Mine, Open, DevicesOf, Present,
        system, script, others
<1>4. CASE FindSession
  BY <1>4 DEF FindSession, Fail, Quiet, Mine, Open, DevicesOf, Present,
        system, script, others
<1>5. CASE Login
  BY <1>5 DEF Login, TypeOK, Quiet, Mine, Open, Present, system, script, others
<1>6. CASE Settle
  BY <1>6 DEF Settle, Quiet, Mine, Open, DevicesOf, Present, system, script,
        others
<1>7. CASE PollSession
  BY <1>7 DEF PollSession, Fail, Quiet, Mine, Open, DevicesOf, Present,
        system, script, others
<1>8. CASE ListDevices
  BY <1>8 DEF ListDevices, Fail, Quiet, Mine, Open, DevicesOf, Present,
        system, script, others
<1>9. CASE NextDevice
  BY <1>9 DEF NextDevice, Fail, Quiet, Mine, Open, DevicesOf, Present,
        system, script, others
<1>10. CASE WriteSectors
  <2>1. Present' = Present /\ \A d \in Present : device'[d].session = device[d].session
    BY <1>10, WriteKeeps DEF WriteSectors, QueueLimits
  <2> QED BY <1>10, <2>1 DEF WriteSectors, Quiet, Mine, Open, Present, system, script, others
<1>11. CASE WriteDepth
  <2>1. Present' = Present /\ \A d \in Present : device'[d].session = device[d].session
    BY <1>11, WriteKeeps DEF WriteDepth, QueueLimits
  <2> QED BY <1>11, <2>1 DEF WriteDepth, Quiet, Mine, Open, Present, system, script, others
<1>12. CASE CommandFails
  BY <1>12 DEF CommandFails, Fail, Quiet, Mine, Open, DevicesOf, Present,
        system, script, others
<1>13. CASE Attach
  <2>1. \A d \in Present : device'[d] = device[d]
    BY <1>13 DEF Attach, TypeOK, Present
  <2> QED BY <1>13, <2>1 DEF Attach, Quiet, Mine, Open, Present, system, script, others, TypeOK
<1>14. CASE MakeNode
  <2>1. PICK e \in Present : device' = [device EXCEPT ![e].node = TRUE]
    BY <1>14 DEF MakeNode
  <2>2. /\ e \in Devices /\ device[e] \in DeviceRecord
        /\ [device[e] EXCEPT !.node = TRUE] \in DeviceRecord
        /\ [device[e] EXCEPT !.node = TRUE].session = device[e].session
    BY PresentType DEF DeviceRecord
  <2>3. \A d \in Present : device'[d] # None /\ device'[d].session = device[d].session
    BY <2>1, <2>2 DEF TypeOK, Present, DeviceRecord
  <2> QED BY <1>14, <2>3 DEF MakeNode, Quiet, Mine, Open, Present, system, script, others, TypeOK
<1>15. CASE OtherLogin
  BY <1>15 DEF OtherLogin, Change, TypeOK, Quiet, Mine, Open, Present, system, script, others
<1>16. CASE Logout
  BY <1>16, <1>0 DEF Logout, Change, Quiet, Mine, Open, Present, system, script, others
<1>18. CASE OtherDiscovers
  BY <1>18 DEF OtherDiscovers, Change, Quiet, Mine, Open, DevicesOf, Present, script
<1>17. CASE UNCHANGED vars
  BY <1>17 DEF vars, Quiet, Mine, Open, DevicesOf, Present, system, script,
        others
<1> QED BY <1>1, <1>2, <1>3, <1>4, <1>5, <1>6, <1>7, <1>8, <1>9,
           <1>10, <1>11, <1>12, <1>13, <1>14, <1>15, <1>16, <1>17, <1>18
      DEF Next, Script, Environment

(* A session that was found is the only one of the target at the portal. *)
LEMMA FoundIsMine ==
  ASSUME NEW s, {s} \in FindSessionId
  PROVE  Mine = {s}
BY DEF FindSessionId

LEMMA ChosenInit == Init => Chosen
BY DEF Init, Chosen, AtDevice

LEMMA ChosenNext == TypeOK /\ Chosen /\ [Next]_vars => Chosen'
<1> SUFFICES ASSUME TypeOK, Chosen, [Next]_vars PROVE Chosen'
  OBVIOUS
<1>0. Quiet' =>
        /\ Quiet /\ Mine \subseteq Mine'
        /\ \A d \in Present : d \in Present' /\ device'[d].session = device[d].session
  BY Kept
<1>1. CASE ShowNode
  BY <1>1, <1>0 DEF ShowNode, Chosen, Before, AtDevice, Ended, DevicesOf,
        system, script, others
<1>2. CASE Discover
  BY <1>2, <1>0 DEF Discover, Chosen, Before, AtDevice, Ended, DevicesOf,
        system, script, others
<1>3. CASE UpdateNode
  BY <1>3, <1>0 DEF UpdateNode, Fail, Chosen, Before, AtDevice, Ended,
        DevicesOf, system, script, others
<1>4. CASE FindSession
  BY <1>4, <1>0 DEF FindSession, Fail, Chosen, Before, AtDevice, Ended,
        DevicesOf, system, script, others
<1>5. CASE Login
  BY <1>5, <1>0 DEF Login, Chosen, Before, AtDevice, Ended, DevicesOf,
        system, script, others
<1>6. CASE Settle
  BY <1>6, <1>0 DEF Settle, Chosen, Before, AtDevice, Ended, DevicesOf,
        system, script, others
<1>7. CASE PollSession
  <2>1. CASE session' = session
    BY <1>7, <1>0, <2>1 DEF PollSession, Fail, Chosen, Before, AtDevice, Ended, DevicesOf, system, script, others
  <2>2. CASE session' # session
    <3>1. session' \in Mine /\ todo = {} /\ pc' = "list" /\ UNCHANGED <<device, todo>>
      BY <1>7, <2>2, FoundIsMine DEF PollSession, Chosen, Before, system, script
    <3> QED BY <1>0, <3>1 DEF Chosen, Before, AtDevice
  <2> QED BY <2>1, <2>2
<1>8. CASE ListDevices
  <2>1. Listed \subseteq DevicesOf(session) /\ pc = "list"
    BY <1>8 DEF Listed, ListDevices
  <2>2. todo' = Listed \/ todo' = todo
    BY <1>8 DEF ListDevices
  <2> QED BY <1>8, <1>0, <2>1, <2>2 DEF ListDevices, Fail, Chosen, Before, AtDevice, Ended, DevicesOf, system, script, others
<1>9. CASE NextDevice
  BY <1>9, <1>0 DEF NextDevice, Fail, Chosen, Before, AtDevice, Ended,
        DevicesOf, system, script, others
<1>10. CASE WriteSectors
  BY <1>10, <1>0 DEF WriteSectors, Write, Chosen, Before, AtDevice, Ended,
        DevicesOf, system, script, others
<1>11. CASE WriteDepth
  BY <1>11, <1>0 DEF WriteDepth, Write, Chosen, Before, AtDevice, Ended,
        DevicesOf, system, script, others
<1>12. CASE CommandFails
  BY <1>12, <1>0 DEF CommandFails, Fail, Chosen, Before, AtDevice, Ended,
        DevicesOf, system, script, others
<1>13. CASE Attach
  BY <1>13, <1>0 DEF Attach, Chosen, Before, AtDevice, Ended, DevicesOf,
        system, script, others
<1>14. CASE MakeNode
  BY <1>14, <1>0 DEF MakeNode, Chosen, Before, AtDevice, Ended, DevicesOf,
        system, script, others
<1>15. CASE OtherLogin
  BY <1>15, <1>0 DEF OtherLogin, Change, Chosen, Before, AtDevice, Ended,
        DevicesOf, system, script, others
<1>16. CASE Logout
  BY <1>16, <1>0 DEF Logout, Change, Chosen, Before, AtDevice, Ended,
        DevicesOf, system, script, others
<1>18. CASE OtherDiscovers
  BY <1>18, <1>0 DEF OtherDiscovers, Chosen, Before, AtDevice, Ended, DevicesOf, script
<1>17. CASE UNCHANGED vars
  BY <1>17, <1>0 DEF vars, Chosen, Before, AtDevice, Ended, DevicesOf,
        system, script, others
<1> QED BY <1>1, <1>2, <1>3, <1>4, <1>5, <1>6, <1>7, <1>8, <1>9,
           <1>10, <1>11, <1>12, <1>13, <1>14, <1>15, <1>16, <1>17, <1>18
      DEF Next, Script, Environment

-----------------------------------------------------------------------------
(* Limits. *)

LEMMA OwnInit == Init => OnlyOwnDevices
BY DEF Init, OnlyOwnDevices, Present

LEMMA OwnNext ==
  TypeOK /\ Chosen /\ OnlyOwnDevices /\ [Next]_vars => OnlyOwnDevices'
<1> SUFFICES ASSUME TypeOK, Chosen, OnlyOwnDevices, [Next]_vars, Quiet'
             PROVE  \A d \in Present' : device'[d].limits # {} =>
                      session' \in Mine' /\ device'[d].session = session'
  BY DEF OnlyOwnDevices
<1>0. /\ Quiet /\ Mine \subseteq Mine'
      /\ \A d \in Present : device[d].limits # {} =>
           session \in Mine /\ device[d].session = session
  BY Kept DEF OnlyOwnDevices
<1>1. CASE ShowNode
  BY <1>1, <1>0 DEF ShowNode, Present, system, script, others
<1>2. CASE Discover
  BY <1>2, <1>0 DEF Discover, Present, system, script, others
<1>3. CASE UpdateNode
  BY <1>3, <1>0 DEF UpdateNode, Fail, Present, system, script, others
<1>4. CASE FindSession
  BY <1>4, <1>0 DEF FindSession, Fail, Present, system, script, others
<1>5. CASE Login
  BY <1>5, <1>0 DEF Login, Present, system, script, others
<1>6. CASE Settle
  BY <1>6, <1>0 DEF Settle, Present, system, script, others
<1>7. CASE PollSession
  <2>1. CASE session' = session
    BY <1>7, <1>0, <2>1 DEF PollSession, system, Present
  <2>2. CASE session' # session
    <3>1. session = None /\ UNCHANGED device
      BY <1>7, <2>2 DEF PollSession, Chosen, Before, system
    <3>2. session \notin Mine
      BY <3>1, IscsiLoginAssumption DEF Mine, Open
    <3> QED BY <1>0, <3>1, <3>2 DEF Present
  <2> QED BY <2>1, <2>2
<1>8. CASE ListDevices
  BY <1>8, <1>0 DEF ListDevices, Fail, Present, system, script, others
<1>9. CASE NextDevice
  BY <1>9, <1>0 DEF NextDevice, Fail, Present, system, script, others
<1>10. CASE WriteSectors
  <2>1. /\ Present' = Present
        /\ \A d \in Present : device'[d].session = device[d].session
        /\ \A d \in Present : d # current => device'[d] = device[d]
    BY <1>10, WriteKeeps DEF WriteSectors, QueueLimits
  <2>2. session \in Mine /\ device[current].session = session
    <3>1. session # None /\ pc \in AtDevice
      BY <1>10, IscsiLoginAssumption DEF WriteSectors, TypeOK, AtDevice
    <3> QED BY <1>0, <3>1 DEF Chosen, DevicesOf
  <2>3. session' = session
    BY <1>10 DEF WriteSectors
  <2> QED BY <1>0, <2>1, <2>2, <2>3
<1>11. CASE WriteDepth
  <2>1. /\ Present' = Present
        /\ \A d \in Present : device'[d].session = device[d].session
        /\ \A d \in Present : d # current => device'[d] = device[d]
    BY <1>11, WriteKeeps DEF WriteDepth, QueueLimits
  <2>2. session \in Mine /\ device[current].session = session
    <3>1. session # None /\ pc \in AtDevice
      BY <1>11, IscsiLoginAssumption DEF WriteDepth, TypeOK, AtDevice
    <3> QED BY <1>0, <3>1 DEF Chosen, DevicesOf
  <2>3. session' = session
    BY <1>11 DEF WriteDepth
  <2> QED BY <1>0, <2>1, <2>2, <2>3
<1>12. CASE CommandFails
  BY <1>12, <1>0 DEF CommandFails, Fail, Present, system, script, others
<1>13. CASE Attach
  <2>1. PICK e \in Devices, s \in Sids :
          /\ device'[e].session = s /\ device'[e].limits = {}
          /\ \A d \in Present' : d # e => d \in Present /\ device'[d] = device[d]
    BY <1>13, AttachKeeps
  <2>2. session' = session /\ UNCHANGED sessions
    BY <1>13 DEF Attach, script
  <2> QED BY <1>0, <2>1, <2>2
<1>14. CASE MakeNode
  <2>1. PICK e \in Present : device' = [device EXCEPT ![e].node = TRUE]
    BY <1>14 DEF MakeNode
  <2>2. /\ e \in Devices /\ device[e] \in DeviceRecord
        /\ [device[e] EXCEPT !.node = TRUE].limits = device[e].limits
        /\ [device[e] EXCEPT !.node = TRUE].session = device[e].session
    BY PresentType DEF DeviceRecord
  <2>3. \A d \in Present' : /\ d \in Present
                           /\ device'[d].session = device[d].session
                           /\ device'[d].limits = device[d].limits
    BY <2>1, <2>2 DEF TypeOK, Present
  <2> QED BY <1>14, <1>0, <2>3 DEF MakeNode, script
<1>15. CASE OtherLogin
  BY <1>15, <1>0 DEF OtherLogin, Change, Present, system, script, others
<1>16. CASE Logout
  BY <1>16, <1>0 DEF Logout, Change, Quiet, TypeOK
<1>18. CASE OtherDiscovers
  BY <1>18, <1>0 DEF OtherDiscovers, Present, script
<1>17. CASE UNCHANGED vars
  BY <1>17, <1>0 DEF vars, Present, system, script, others
<1> QED BY <1>1, <1>2, <1>3, <1>4, <1>5, <1>6, <1>7, <1>8, <1>9,
           <1>10, <1>11, <1>12, <1>13, <1>14, <1>15, <1>16, <1>17, <1>18
      DEF Next, Script, Environment

(* With one LUN per target, a session has one device at most. *)
OneEach ==
  Luns = 1 => \A d, e \in Present : device[d].session = device[e].session => d = e

AtLimits == {"configure", "sectors", "depth", "done"}

(* The devices of the session are limited, in hand, or still on the list. *)
Progress ==
  Quiet /\ Luns = 1 =>
    /\ pc \in AtLimits =>
         /\ DevicesOf(session) # {}
         /\ \A d \in DevicesOf(session) :
              \/ d \in todo \/ device[d].limits = QueueLimits
              \/ pc \in AtDevice /\ d = current
    /\ pc = "depth" => "max_sectors_kb" \in device[current].limits
    /\ pc = "done" => todo = {}

LEMMA LimitsInit == Init => OneEach /\ Progress
BY DEF Init, OneEach, Progress, Present, AtLimits

LEMMA OneEachNext == TypeOK /\ OneEach /\ [Next]_vars => OneEach'
<1> SUFFICES ASSUME TypeOK, OneEach, [Next]_vars, Luns = 1
             PROVE  \A d, e \in Present' :
                      device'[d].session = device'[e].session => d = e
  BY DEF OneEach
<1>0. \A d, e \in Present : device[d].session = device[e].session => d = e
  BY DEF OneEach
<1>1. CASE ShowNode
  BY <1>1, <1>0 DEF ShowNode, Present, system, script, others
<1>2. CASE Discover
  BY <1>2, <1>0 DEF Discover, Present, system, script, others
<1>3. CASE UpdateNode
  BY <1>3, <1>0 DEF UpdateNode, Fail, Present, system, script, others
<1>4. CASE FindSession
  BY <1>4, <1>0 DEF FindSession, Fail, Present, system, script, others
<1>5. CASE Login
  BY <1>5, <1>0 DEF Login, Present, system, script, others
<1>6. CASE Settle
  BY <1>6, <1>0 DEF Settle, Present, system, script, others
<1>7. CASE PollSession
  BY <1>7, <1>0 DEF PollSession, Fail, Present, system, script, others
<1>8. CASE ListDevices
  BY <1>8, <1>0 DEF ListDevices, Fail, Present, system, script, others
<1>9. CASE NextDevice
  BY <1>9, <1>0 DEF NextDevice, Fail, Present, system, script, others
<1>10. CASE WriteSectors
  <2>1. /\ Present' = Present
        /\ \A d \in Present : device'[d].session = device[d].session
    BY <1>10, WriteKeeps DEF WriteSectors, QueueLimits
  <2> QED BY <1>0, <2>1
<1>11. CASE WriteDepth
  <2>1. /\ Present' = Present
        /\ \A d \in Present : device'[d].session = device[d].session
    BY <1>11, WriteKeeps DEF WriteDepth, QueueLimits
  <2> QED BY <1>0, <2>1
<1>12. CASE CommandFails
  BY <1>12, <1>0 DEF CommandFails, Fail, Present, system, script, others
<1>13. CASE Attach
  <2>1. PICK e \in Devices, s \in Sids :
          /\ Cardinality(DevicesOf(s)) < Luns
          /\ device'[e].session = s
          /\ \A d \in Present' : d # e => d \in Present /\ device'[d] = device[d]
    BY <1>13, AttachKeeps
  <2>2. DevicesOf(s) = {}
    <3>1. IsFiniteSet(DevicesOf(s))
      BY IscsiLoginAssumption, FS_Subset DEF DevicesOf, Present
    <3>2. Cardinality(DevicesOf(s)) \in Nat
      BY <3>1, FS_CardinalityType
    <3>3. Cardinality(DevicesOf(s)) = 0
      BY <2>1, <3>2
    <3> QED BY <3>1, <3>3, FS_EmptySet
  <2>3. \A d \in Present : device[d].session # s
    BY <2>2 DEF DevicesOf
  <2> QED BY <1>0, <2>1, <2>3
<1>14. CASE MakeNode
  <2>1. PICK e \in Present : device' = [device EXCEPT ![e].node = TRUE]
    BY <1>14 DEF MakeNode
  <2>2. /\ e \in Devices /\ device[e] \in DeviceRecord
        /\ [device[e] EXCEPT !.node = TRUE].session = device[e].session
    BY PresentType DEF DeviceRecord
  <2>3. \A d \in Present' : d \in Present /\ device'[d].session = device[d].session
    BY <2>1, <2>2 DEF TypeOK, Present
  <2> QED BY <1>0, <2>3
<1>15. CASE OtherLogin
  BY <1>15, <1>0 DEF OtherLogin, Change, Present, system, script, others
<1>16. CASE Logout
  <2>1. \A d \in Present' : d \in Present /\ device'[d] = device[d]
    BY <1>16 DEF Logout, Present
  <2> QED BY <1>0, <2>1
<1>18. CASE OtherDiscovers
  BY <1>18, <1>0 DEF OtherDiscovers, Present, script
<1>17. CASE UNCHANGED vars
  BY <1>17, <1>0 DEF vars, Present, system, script, others
<1> QED BY <1>1, <1>2, <1>3, <1>4, <1>5, <1>6, <1>7, <1>8, <1>9,
           <1>10, <1>11, <1>12, <1>13, <1>14, <1>15, <1>16, <1>17, <1>18
      DEF Next, Script, Environment

LEMMA ProgressNext ==
  TypeOK /\ Chosen /\ OneEach /\ Progress /\ [Next]_vars => Progress'
<1> SUFFICES ASSUME TypeOK, Chosen, OneEach, Progress, [Next]_vars, Quiet', Luns = 1
             PROVE  /\ pc' \in AtLimits =>
                         /\ DevicesOf(session)' # {}
                         /\ \A d \in DevicesOf(session)' :
                              \/ d \in todo' \/ device'[d].limits = QueueLimits
                              \/ pc' \in AtDevice /\ d = current'
                    /\ pc' = "depth" => "max_sectors_kb" \in device'[current'].limits
                    /\ pc' = "done" => todo' = {}
  BY DEF Progress
<1>0. /\ pc \in AtLimits =>
           /\ DevicesOf(session) # {}
           /\ \A d \in DevicesOf(session) :
                \/ d \in todo \/ device[d].limits = QueueLimits
                \/ pc \in AtDevice /\ d = current
      /\ pc = "depth" => "max_sectors_kb" \in device[current].limits
      /\ pc = "done" => todo = {}
  BY Kept DEF Progress
<1>1. CASE ShowNode
  BY <1>1, <1>0 DEF ShowNode, AtLimits, AtDevice, DevicesOf, Present, Ended,
        system, script, others
<1>2. CASE Discover
  BY <1>2, <1>0 DEF Discover, AtLimits, AtDevice, DevicesOf, Present, Ended,
        system, script, others
<1>3. CASE UpdateNode
  BY <1>3, <1>0 DEF UpdateNode, Fail, AtLimits, AtDevice, DevicesOf,
        Present, Ended, system, script, others
<1>4. CASE FindSession
  BY <1>4, <1>0 DEF FindSession, Fail, AtLimits, AtDevice, DevicesOf,
        Present, Ended, system, script, others
<1>5. CASE Login
  BY <1>5, <1>0 DEF Login, AtLimits, AtDevice, DevicesOf, Present, Ended,
        system, script, others
<1>6. CASE Settle
  BY <1>6, <1>0 DEF Settle, AtLimits, AtDevice, DevicesOf, Present, Ended,
        system, script, others
<1>7. CASE PollSession
  BY <1>7, <1>0 DEF PollSession, Fail, AtLimits, AtDevice, DevicesOf,
        Present, Ended, system, script, others
<1>8. CASE ListDevices
  <2>1. CASE Listed # {}
    <3>1. \A d, e \in DevicesOf(session) : d = e
      BY DEF OneEach, DevicesOf
    <3>2. DevicesOf(session) = Listed
      BY <2>1, <3>1 DEF Listed
    <3>3. UNCHANGED <<device, session>> /\ todo' = Listed /\ pc' = "configure"
      BY <1>8, <2>1 DEF ListDevices, system
    <3>4. DevicesOf(session)' = DevicesOf(session)
      BY <3>3 DEF DevicesOf, Present
    <3> QED BY <2>1, <3>2, <3>3, <3>4
  <2>2. CASE Listed = {}
    BY <1>8, <2>2 DEF ListDevices, Fail, AtLimits
  <2> QED BY <2>1, <2>2
<1>9. CASE NextDevice
  BY <1>9, <1>0 DEF NextDevice, Fail, AtLimits, AtDevice, DevicesOf,
        Present, Ended, system, script, others
<1>10. CASE WriteSectors
  <2>1. /\ Present' = Present
        /\ \A d \in Present : device'[d].session = device[d].session
        /\ \A d \in Present : d # current => device'[d] = device[d]
        /\ device'[current].limits = device[current].limits \cup {"max_sectors_kb"}
    BY <1>10, WriteKeeps DEF WriteSectors, QueueLimits
  <2>2. pc = "sectors" /\ pc' = "depth" /\ UNCHANGED <<session, todo, current>>
    BY <1>10 DEF WriteSectors
  <2>3. DevicesOf(session)' = DevicesOf(session)
    BY <2>1, <2>2 DEF DevicesOf
  <2> QED BY <1>0, <2>1, <2>2, <2>3 DEF AtLimits, AtDevice, DevicesOf
<1>11. CASE WriteDepth
  <2>1. /\ Present' = Present
        /\ \A d \in Present : device'[d].session = device[d].session
        /\ \A d \in Present : d # current => device'[d] = device[d]
        /\ device'[current].limits = device[current].limits \cup {"queue_depth"}
        /\ device[current] \in DeviceRecord
    BY <1>11, WriteKeeps, PresentType DEF WriteDepth, QueueLimits
  <2>2. pc = "depth" /\ pc' = "configure" /\ UNCHANGED <<session, todo, current>>
    BY <1>11 DEF WriteDepth
  <2>3. DevicesOf(session)' = DevicesOf(session)
    BY <2>1, <2>2 DEF DevicesOf
  <2>4. device'[current].limits = QueueLimits
    BY <1>0, <2>1, <2>2 DEF QueueLimits, DeviceRecord
  <2> QED BY <1>0, <2>1, <2>2, <2>3, <2>4 DEF AtLimits, AtDevice, DevicesOf
<1>12. CASE CommandFails
  BY <1>12, <1>0 DEF CommandFails, Fail, AtLimits, AtDevice, DevicesOf,
        Present, Ended, system, script, others
<1>13. CASE Attach
  <2>1. PICK e \in Devices, s \in Sids :
          /\ Cardinality(DevicesOf(s)) < Luns
          /\ device'[e].session = s
          /\ \A d \in Present : d \in Present' /\ d # e /\ device'[d] = device[d]
          /\ \A d \in Present' : d # e => d \in Present /\ device'[d] = device[d]
    BY <1>13, AttachKeeps
  <2>2. DevicesOf(s) = {}
    <3>1. IsFiniteSet(DevicesOf(s))
      BY IscsiLoginAssumption, FS_Subset DEF DevicesOf, Present
    <3>2. Cardinality(DevicesOf(s)) \in Nat
      BY <3>1, FS_CardinalityType
    <3>3. Cardinality(DevicesOf(s)) = 0
      BY <2>1, <3>2
    <3> QED BY <3>1, <3>3, FS_EmptySet
  <2>3. UNCHANGED <<pc, session, todo, current>>
    BY <1>13 DEF Attach, script
  <2>4. ASSUME pc \in AtLimits
        PROVE  DevicesOf(session)' = DevicesOf(session)
    <3>1. session # s
      BY <1>0, <2>2, <2>4
    <3> QED BY <2>1, <2>3, <3>1 DEF DevicesOf
  <2>5. pc = "depth" => current \in Present
    BY Kept DEF Chosen, AtDevice, DevicesOf
  <2>6. "depth" \in AtLimits
    BY DEF AtLimits
  <2> QED BY <1>0, <2>1, <2>3, <2>4, <2>5, <2>6 DEF DevicesOf
<1>14. CASE MakeNode
  <2>1. PICK e \in Present : device' = [device EXCEPT ![e].node = TRUE]
    BY <1>14 DEF MakeNode
  <2>2. /\ e \in Devices /\ device[e] \in DeviceRecord
        /\ [device[e] EXCEPT !.node = TRUE] \in DeviceRecord
        /\ [device[e] EXCEPT !.node = TRUE].limits = device[e].limits
        /\ [device[e] EXCEPT !.node = TRUE].session = device[e].session
    BY PresentType DEF DeviceRecord
  <2>3. \A s \in DeviceRecord : s # None
    BY IscsiLoginAssumption DEF DeviceRecord
  <2>4. /\ Present' = Present
        /\ \A d \in Present : /\ device'[d].session = device[d].session
                              /\ device'[d].limits = device[d].limits
    BY <2>1, <2>2, <2>3 DEF TypeOK, Present
  <2>5. UNCHANGED <<pc, session, todo, current>>
    BY <1>14 DEF MakeNode, script
  <2>6. DevicesOf(session)' = DevicesOf(session)
    BY <2>4, <2>5 DEF DevicesOf
  <2>7. pc = "depth" => current \in Present
    BY Kept DEF Chosen, AtDevice, DevicesOf
  <2> QED BY <1>0, <2>4, <2>5, <2>6, <2>7 DEF DevicesOf
<1>15. CASE OtherLogin
  BY <1>15, <1>0 DEF OtherLogin, Change, AtLimits, AtDevice, DevicesOf,
        Present, Ended, system, script, others
<1>16. CASE Logout
  BY <1>16, Kept DEF Logout, Quiet, TypeOK
<1>18. CASE OtherDiscovers
  BY <1>18, <1>0 DEF OtherDiscovers, AtLimits, AtDevice, DevicesOf, Present, Ended, script
<1>17. CASE UNCHANGED vars
  BY <1>17, <1>0 DEF vars, AtLimits, AtDevice, DevicesOf, Present, Ended,
        system, script, others
<1> QED BY <1>1, <1>2, <1>3, <1>4, <1>5, <1>6, <1>7, <1>8, <1>9,
           <1>10, <1>11, <1>12, <1>13, <1>14, <1>15, <1>16, <1>17, <1>18
      DEF Next, Script, Environment

-----------------------------------------------------------------------------
(* Negotiated values. *)

Early == {"show", "discover", "update", "find", "login"}

(* Until the login the record holds what was set and not lost again; the   *)
(* login comes after all of it, its session is under what was in the       *)
(* record then, and is the one the script goes on with.                    *)
HeldValues == Values \ lost

Negotiated ==
  /\ pc \in {"show", "discover"} => pending = Values
  /\ pc \in {"find", "login"} => pending = {}
  /\ pc \in Early => ~fresh
  /\ ~fresh => lost \cap pending = {}
  /\ ~fresh /\ record # None => record \ pending = HeldValues \ pending
  /\ Quiet /\ fresh => \E s \in Mine : sessions[s].under = HeldValues
  /\ Quiet /\ fresh /\ session # None => sessions[session].under = HeldValues

LEMMA NegotiatedInit == Init => Negotiated
BY DEF Init, Negotiated, Early, HeldValues

LEMMA NegotiatedNext ==
  TypeOK /\ Chosen /\ Negotiated /\ [Next]_vars => Negotiated'
<1> SUFFICES ASSUME TypeOK, Chosen, Negotiated, [Next]_vars PROVE Negotiated'
  OBVIOUS
<1>0. Quiet' => /\ Quiet /\ Mine \subseteq Mine'
                /\ \A s \in Open : sessions'[s] = sessions[s]
                /\ session # None => session \in Open
                /\ Mine \subseteq Open
  BY Kept DEF Chosen, Mine
<1>1. CASE ShowNode
  BY <1>1, <1>0 DEF ShowNode, Negotiated, HeldValues, Early, Ended, system, script,
        others
<1>2. CASE Discover
  <2>1. /\ pc = "discover" /\ pc' = "update" /\ record' \in {record, {}, None}
        /\ UNCHANGED <<sessions, session, fresh, pending, lost, logouts>>
    BY <1>2 DEF Discover, Rediscovered, others
  <2>2. pending = Values /\ ~fresh
    BY <2>1 DEF Negotiated, Early
  <2>3. record' = {} => record' \ pending' = HeldValues' \ pending'
    <3> HIDE DEF Values
    <3> QED BY <2>1, <2>2 DEF HeldValues
  <2> QED BY <2>1, <2>2, <2>3 DEF Negotiated, Early, HeldValues
<1>3. CASE UpdateNode
  <2>1. /\ pc = "update" /\ ~fresh /\ fresh' = fresh /\ lost' = lost
        /\ UNCHANGED <<sessions, session, logouts>>
    BY <1>3 DEF UpdateNode, Negotiated, Early, others
  <2>2. CASE record = None
    BY <1>0, <1>3, <2>1, <2>2 DEF UpdateNode, Fail, Negotiated, Early
  <2>3. CASE record # None
    <3>1. PICK v \in pending :
            /\ pending' = pending \ {v} /\ record' = record \cup {v}
            /\ pc' = IF pending' = {} THEN "find" ELSE "update"
      BY <1>3, <2>3 DEF UpdateNode
    <3>2. /\ lost \cap pending = {} /\ v \in Values
          /\ record \ pending = HeldValues \ pending
      BY <2>1, <2>3 DEF Negotiated, TypeOK
    <3>3. lost \cap pending' = {}
      BY <3>1, <3>2
    <3>4. record' \ pending' = HeldValues \ pending'
      <4> HIDE DEF Values
      <4> QED BY <3>1, <3>2 DEF HeldValues
    <3>5. HeldValues' = HeldValues
      BY <2>1 DEF HeldValues
    <3> QED BY <2>1, <3>1, <3>3, <3>4, <3>5 DEF Negotiated, Early
  <2> QED BY <2>2, <2>3
<1>4. CASE FindSession
  BY <1>4, <1>0 DEF FindSession, Fail, Negotiated, HeldValues, Early, Ended, system,
        script, others
<1>5. CASE Login
  <2>1. PICK s \in Sids \ Open :
          sessions' = [sessions EXCEPT ![s] = [mine |-> TRUE, under |-> record]]
    BY <1>5 DEF Login
  <2>2. record = HeldValues
    <3>1. pending = {} /\ record \ pending = HeldValues \ pending
      BY <1>5 DEF Login, Negotiated, Early
    <3> QED BY <3>1
  <2>3. sessions'[s] = [mine |-> TRUE, under |-> record]
    BY <2>1 DEF TypeOK
  <2>4. [mine |-> TRUE, under |-> record] \in SessionRecord
    BY <2>2 DEF SessionRecord, HeldValues
  <2>5. sessions'[s] # None
    BY <2>3, <2>4, IscsiLoginAssumption DEF SessionRecord
  <2>6. s \in Mine' /\ sessions'[s].under = HeldValues
    BY <2>1, <2>2, <2>3, <2>5 DEF Mine, Open
  <2>7. session = None
    BY <1>5 DEF Login, Chosen, Before
  <2>8. HeldValues' = HeldValues
    BY <1>5 DEF Login, others, HeldValues
  <2> QED BY <1>5, <2>6, <2>7, <2>8 DEF Login, Negotiated, Early
<1>6. CASE Settle
  BY <1>6, <1>0 DEF Settle, Negotiated, HeldValues, Early, Ended, system, script, others
<1>7. CASE PollSession
  <2>1. CASE session' = session
    BY <1>7, <1>0, <2>1 DEF PollSession, Fail, Negotiated, HeldValues, Early, Ended, system, script, others
  <2>2. CASE session' # session
    <3>1. Mine = {session'} /\ pc' = "list" /\ UNCHANGED <<system, others>>
          /\ UNCHANGED <<pending, fresh>>
      BY <1>7, <2>2, FoundIsMine DEF PollSession
    <3>2. record' = record /\ sessions' = sessions /\ lost' = lost
      BY <3>1 DEF system, others
    <3>3. HeldValues' = HeldValues
      BY <3>2 DEF HeldValues
    <3> QED BY <1>0, <3>1, <3>2, <3>3 DEF Negotiated, Early
  <2> QED BY <2>1, <2>2
<1>8. CASE ListDevices
  BY <1>8, <1>0 DEF ListDevices, Fail, Negotiated, HeldValues, Early, Ended, system,
        script, others
<1>9. CASE NextDevice
  BY <1>9, <1>0 DEF NextDevice, Fail, Negotiated, HeldValues, Early, Ended, system,
        script, others
<1>10. CASE WriteSectors
  BY <1>10, <1>0 DEF WriteSectors, Write, Negotiated, HeldValues, Early, Ended, system,
        script, others
<1>11. CASE WriteDepth
  BY <1>11, <1>0 DEF WriteDepth, Write, Negotiated, HeldValues, Early, Ended, system,
        script, others
<1>12. CASE CommandFails
  BY <1>12, <1>0 DEF CommandFails, Fail, Negotiated, HeldValues, Early, Ended, system,
        script, others
<1>13. CASE Attach
  BY <1>13, <1>0 DEF Attach, Negotiated, HeldValues, Early, Ended, system, script,
        others
<1>14. CASE MakeNode
  BY <1>14, <1>0 DEF MakeNode, Negotiated, HeldValues, Early, Ended, system, script,
        others
<1>15. CASE OtherLogin
  BY <1>15, <1>0 DEF OtherLogin, Change, Negotiated, HeldValues, Early, Ended, system,
        script, others
<1>16. CASE Logout
  BY <1>16, <1>0 DEF Logout, Change, Negotiated, HeldValues, Early, Ended, system,
        script, others
<1>18. CASE OtherDiscovers
  <2>1. /\ record' \in {record, {}, None}
        /\ lost' = IF fresh \/ record' = record THEN lost ELSE Values \ pending
        /\ UNCHANGED <<pc, pending, sessions, session, fresh, logouts>>
    BY <1>18 DEF OtherDiscovers, Rediscovered, script
  <2>2. CASE lost' = lost /\ (fresh \/ record' = record)
    BY <2>1, <2>2 DEF Negotiated, HeldValues, Quiet, Mine, Open
  <2>3. CASE ~fresh /\ lost' = Values \ pending /\ record' \in {{}, None}
    <3>1. HeldValues' \ pending = {} /\ lost' \cap pending' = {}
      <4> HIDE DEF Values
      <4> QED BY <2>1, <2>3 DEF HeldValues
    <3> QED BY <2>1, <2>3, <3>1 DEF Negotiated
  <2> QED BY <2>1, <2>2, <2>3
<1>17. CASE UNCHANGED vars
  BY <1>17, <1>0 DEF vars, Negotiated, HeldValues, Early, Ended, system, script, others
<1> QED BY <1>1, <1>2, <1>3, <1>4, <1>5, <1>6, <1>7, <1>8, <1>9,
           <1>10, <1>11, <1>12, <1>13, <1>14, <1>15, <1>16, <1>17, <1>18
      DEF Next, Script, Environment

-----------------------------------------------------------------------------
LEMMA LoginInvariant ==
  Spec => [](TypeOK /\ Chosen /\ OnlyOwnDevices /\ OneEach /\ Progress /\ Negotiated)
BY TypeInit, ChosenInit, OwnInit, LimitsInit, NegotiatedInit, TypeNext,
   ChosenNext, OwnNext, OneEachNext, ProgressNext, NegotiatedNext, PTL DEF Spec

(* Every state has the type TypeOK gives it; past the first loop there is  *)
(* a session.                                                              *)
THEOREM LoginTypes == Spec => []TypeOK
BY LoginInvariant, PTL

(* Nobody else's device is limited: areca_iscsi.sh 51-60, 76-131. *)
THEOREM OthersLeftAlone == Spec => []OnlyOwnDevices
BY LoginInvariant, PTL

(* A script that ends well has limited the device of its session. *)
THEOREM SuccessIsLimited == Spec => []DoneIsLimited
<1>1. Chosen /\ Progress => DoneIsLimited
  BY DEF Progress, DoneIsLimited, AtLimits, AtDevice
<1> QED BY <1>1, LoginInvariant, PTL

(* A login of the script's own is negotiated under all four values, as far *)
(* as nobody's discovery took them out of the record before it.            *)
THEOREM OwnLoginNegotiated == Spec => []FreshIsNegotiated
<1>1. TypeOK /\ Negotiated => FreshIsNegotiated
  BY IscsiLoginAssumption DEF TypeOK, Negotiated, HeldValues, FreshIsNegotiated
<1> QED BY <1>1, LoginInvariant, PTL

-----------------------------------------------------------------------------
(* The commands the script has left.                                       *)

LEMMA DevicesCounted ==
  /\ Cardinality(Devices) \in Nat
  /\ \A S \in SUBSET Devices :
       /\ IsFiniteSet(S) /\ Cardinality(S) \in 0..Cardinality(Devices)
<1>1. IsFiniteSet(Devices)
  BY IscsiLoginAssumption
<1> QED BY <1>1, FS_Subset, FS_CardinalityType

LEMMA ValuesFinite == \A S \in SUBSET Values : IsFiniteSet(S)
<1>1. IsFiniteSet({})
  BY FS_EmptySet
<1>2. IsFiniteSet({} \cup {"cmds_max"})
  BY <1>1, FS_AddElement
<1>3. IsFiniteSet(({} \cup {"cmds_max"}) \cup {"queue_depth"})
  BY <1>2, FS_AddElement
<1>4. IsFiniteSet((({} \cup {"cmds_max"}) \cup {"queue_depth"}) \cup {"MaxBurstLength"})
  BY <1>3, FS_AddElement
<1>5. IsFiniteSet(((({} \cup {"cmds_max"}) \cup {"queue_depth"}) \cup {"MaxBurstLength"})
                    \cup {"FirstBurstLength"})
  BY <1>4, FS_AddElement
<1>6. Values = ((({} \cup {"cmds_max"}) \cup {"queue_depth"}) \cup {"MaxBurstLength"})
                    \cup {"FirstBurstLength"}
  BY DEF Values
<1> QED BY <1>5, <1>6, FS_Subset

(* What the counts of a state are, whatever statement the script is at.    *)
LEMMA Counts ==
  ASSUME TypeOK
  PROVE  /\ WaitSteps = 3 * Cardinality(Devices) + 1 + Polls
         /\ WaitSteps \in Nat /\ Polls \in Nat \ {0} /\ polls \in 0..(Polls - 1)
         /\ IsFiniteSet(pending) /\ Cardinality(pending) \in Nat
         /\ IsFiniteSet(todo) /\ Cardinality(todo) \in 0..Cardinality(Devices)
<1>1. pending \subseteq Values /\ todo \subseteq Devices /\ polls \in 0..(Polls - 1)
  BY DEF TypeOK
<1>2. Polls \in Nat \ {0}
  BY IscsiLoginAssumption
<1>3. IsFiniteSet(pending) /\ Cardinality(pending) \in Nat
  BY <1>1, ValuesFinite, FS_CardinalityType
<1> QED BY <1>1, <1>2, <1>3, DevicesCounted DEF WaitSteps, DeviceSteps

LEMMA StepsType ==
  ASSUME TypeOK
  PROVE  StepsLeft \in Nat
<1>1. /\ WaitSteps = 3 * Cardinality(Devices) + 1 + Polls /\ WaitSteps \in Nat
      /\ Cardinality(Devices) \in Nat
      /\ Polls \in Nat \ {0} /\ polls \in 0..(Polls - 1)
      /\ Cardinality(pending) \in Nat
      /\ Cardinality(todo) \in 0..Cardinality(Devices)
  BY Counts, DevicesCounted
<1>2. WaitSteps - polls \in Nat /\ WaitSteps + (Polls - polls) \in Nat
  BY <1>1
<1>3. pc \in {"show", "discover", "update", "find", "login", "settle", "poll",
             "list", "configure", "sectors", "depth"} \cup Ended
  BY DEF TypeOK
<1> QED BY <1>1, <1>2, <1>3 DEF StepsLeft, DeviceSteps, Ended

LEMMA CommandTaken ==
  ASSUME TypeOK, Script
  PROVE  StepsLeft' \in 0..(StepsLeft - 1)
<1> DEFINE n == Cardinality(Devices)
           p == Cardinality(pending)
           t == Cardinality(todo)
<1>1. /\ WaitSteps = 3 * n + 1 + Polls /\ WaitSteps \in Nat /\ n \in Nat
      /\ Polls \in Nat \ {0} /\ polls \in 0..(Polls - 1)
      /\ IsFiniteSet(pending) /\ p \in Nat
      /\ IsFiniteSet(todo) /\ t \in 0..n
  BY Counts, DevicesCounted
<1>2. pc' = "failed" => StepsLeft' = 0
  BY DEF StepsLeft
<1> HIDE DEF n
<1>3. CASE ShowNode
  <2>1. /\ StepsLeft = WaitSteps + Polls + p + 5
        /\ \/ StepsLeft' = WaitSteps + Polls + p + 4
           \/ StepsLeft' = WaitSteps + Polls + p + 3
    BY <1>3 DEF ShowNode, StepsLeft, WaitSteps
  <2> QED BY <1>1, <2>1
<1>4. CASE Discover
  <2>1. /\ StepsLeft = WaitSteps + Polls + p + 4
        /\ StepsLeft' = WaitSteps + Polls + p + 3
    BY <1>4 DEF Discover, StepsLeft, WaitSteps
  <2> QED BY <1>1, <2>1
<1>5. CASE UpdateNode
  <2>1. StepsLeft = WaitSteps + Polls + p + 3
    BY <1>5 DEF UpdateNode, StepsLeft
  <2>2. CASE pc' = "failed"
    BY <1>1, <1>2, <2>1, <2>2
  <2>3. CASE pc' # "failed"
    <3>1. PICK v \in pending :
            pending' = pending \ {v} /\ pc' \in {"find", "update"}
      BY <1>5, <2>3 DEF UpdateNode, Fail
    <3>2. Cardinality(pending') = p - 1 /\ p - 1 \in Nat
      <4>1. Cardinality(pending \ {v}) = p - 1 /\ IsFiniteSet(pending \ {v})
        BY <1>1, <3>1, FS_RemoveElement
      <4> QED BY <3>1, <4>1, FS_CardinalityType
    <3>3. \/ StepsLeft' = WaitSteps + Polls + 3
          \/ StepsLeft' = WaitSteps + Polls + Cardinality(pending') + 3
      BY <3>1 DEF StepsLeft, WaitSteps
    <3> QED BY <1>1, <2>1, <3>2, <3>3
  <2> QED BY <2>2, <2>3
<1>6. CASE FindSession
  <2>1. /\ StepsLeft = WaitSteps + Polls + 3
        /\ \/ StepsLeft' = WaitSteps + Polls + 2
           \/ StepsLeft' = WaitSteps + Polls + 1
           \/ StepsLeft' = 0
    BY <1>6 DEF FindSession, StepsLeft, WaitSteps
  <2> QED BY <1>1, <2>1
<1>7. CASE Login
  <2>1. /\ StepsLeft = WaitSteps + Polls + 2
        /\ StepsLeft' = WaitSteps + Polls + 1
    BY <1>7 DEF Login, StepsLeft, WaitSteps
  <2> QED BY <1>1, <2>1
<1>8. CASE Settle
  <2>1. /\ StepsLeft = WaitSteps + Polls + 1
        /\ StepsLeft' = WaitSteps + (Polls - polls)
    BY <1>8 DEF Settle, StepsLeft, WaitSteps
  <2> QED BY <1>1, <2>1
<1>9. CASE PollSession
  <2>1. StepsLeft = WaitSteps + (Polls - polls)
    BY <1>9 DEF PollSession, StepsLeft
  <2>2. \/ pc' = "list" /\ polls' = 0
        \/ pc' = "poll" /\ polls' = polls + 1
        \/ pc' = "failed"
    BY <1>9 DEF PollSession, Fail
  <2>3. \/ StepsLeft' = WaitSteps - 0
        \/ polls + 1 = polls' /\ StepsLeft' = WaitSteps + (Polls - polls') /\ pc' = "poll"
        \/ StepsLeft' = 0
    BY <2>2 DEF StepsLeft, WaitSteps
  <2>4. pc' = "poll" => polls + 1 < Polls
    BY <1>9 DEF PollSession, Fail
  <2> QED BY <1>1, <2>1, <2>3, <2>4
<1>10. CASE ListDevices
  <2>1. StepsLeft = WaitSteps - polls
    BY <1>10 DEF ListDevices, StepsLeft
  <2>2. CASE pc' = "configure"
    <3>1. todo' = Listed
      BY <1>10, <2>2 DEF ListDevices, Fail
    <3>2. Listed \subseteq Devices
      BY DEF Listed, DevicesOf, Present
    <3>3. Cardinality(todo') \in 0..n
      BY <3>1, <3>2, DevicesCounted DEF n
    <3>4. StepsLeft' = 3 * Cardinality(todo') + 1
      BY <2>2 DEF StepsLeft, DeviceSteps
    <3> QED BY <1>1, <2>1, <3>3, <3>4
  <2>3. CASE pc' # "configure"
    <3>1. \/ pc' = "list" /\ polls' = polls + 1 /\ polls + 1 < Polls
          \/ pc' = "failed"
      BY <1>10, <2>3 DEF ListDevices, Fail
    <3>2. \/ StepsLeft' = WaitSteps - polls' /\ polls' = polls + 1 /\ polls + 1 < Polls
          \/ StepsLeft' = 0
      BY <3>1 DEF StepsLeft, WaitSteps
    <3> QED BY <1>1, <2>1, <3>2
  <2> QED BY <2>2, <2>3
<1>11. CASE NextDevice
  <2>1. StepsLeft = 3 * t + 1
    BY <1>11 DEF NextDevice, StepsLeft, DeviceSteps
  <2>2. CASE pc' \in Ended
    <3>1. StepsLeft' = 0
      BY <2>2 DEF Ended, StepsLeft
    <3> QED BY <1>1, <2>1, <3>1
  <2>3. CASE pc' \notin Ended
    <3>1. PICK d \in todo : todo' = todo \ {d} /\ pc' = "sectors"
      BY <1>11, <2>3 DEF NextDevice, Fail, Ended
    <3>2. Cardinality(todo') = t - 1 /\ t - 1 \in Nat
      <4>1. Cardinality(todo \ {d}) = t - 1 /\ IsFiniteSet(todo \ {d})
        BY <1>1, <3>1, FS_RemoveElement
      <4> QED BY <3>1, <4>1, FS_CardinalityType
    <3>3. StepsLeft' = 3 * Cardinality(todo') + 1 + 2
      BY <3>1 DEF StepsLeft, DeviceSteps
    <3> QED BY <1>1, <2>1, <3>2, <3>3
  <2> QED BY <2>2, <2>3
<1>12. CASE WriteSectors
  <2>1. StepsLeft = 3 * t + 1 + 2 /\ StepsLeft' = 3 * t + 1 + 1
    BY <1>12 DEF WriteSectors, StepsLeft, DeviceSteps
  <2> QED BY <1>1, <2>1
<1>13. CASE WriteDepth
  <2>1. StepsLeft = 3 * t + 1 + 1 /\ StepsLeft' = 3 * t + 1
    BY <1>13 DEF WriteDepth, StepsLeft, DeviceSteps
  <2> QED BY <1>1, <2>1
<1>14. CASE CommandFails
  <2>1. StepsLeft' = 0
    BY <1>14, <1>2 DEF CommandFails, Fail
  <2>2. pc \in {"show", "discover", "update", "login", "settle", "configure",
               "sectors", "depth"}
    BY <1>14 DEF CommandFails, TypeOK, Ended
  <2>3. StepsLeft \in Nat \ {0}
    BY <1>1, <2>2 DEF StepsLeft, DeviceSteps
  <2> QED BY <2>1, <2>3
<1> QED BY <1>3, <1>4, <1>5, <1>6, <1>7, <1>8, <1>9, <1>10, <1>11, <1>12,
           <1>13, <1>14 DEF Script

(* Termination without the fairness: every command of the script, failed   *)
(* or not, brings it nearer to its end, and no session or device that      *)
(* comes or goes keeps it from it: areca_iscsi.sh 40-131.                  *)
THEOREM ScriptsAdvance == Spec => ScriptAdvances
<1> DEFINE Advance == /\ Script => StepsLeft' \in 0..(StepsLeft - 1)
                      /\ StepsLeft' <= StepsLeft
<1>1. TypeOK /\ [Next]_vars => [Advance]_vars
  <2> SUFFICES ASSUME TypeOK, Next PROVE Advance
    OBVIOUS
  <2>1. StepsLeft \in Nat
    BY StepsType
  <2>2. CASE Script
    <3>1. StepsLeft' \in 0..(StepsLeft - 1)
      BY <2>2, CommandTaken
    <3>2. StepsLeft' <= StepsLeft
      BY <2>1, <3>1
    <3> QED BY <3>1, <3>2
  <2>3. CASE ~Script /\ Environment
    <3>1. pc' = pc /\ pending' = pending /\ polls' = polls /\ todo' = todo
      BY <2>3 DEF Environment, Attach, MakeNode, OtherLogin, Logout, OtherDiscovers,
                  script
    <3>2. StepsLeft' = StepsLeft
      BY <3>1 DEF StepsLeft, WaitSteps
    <3>3. StepsLeft' <= StepsLeft
      BY <2>1, <3>2
    <3> QED BY <2>3, <3>3
  <2> QED BY <2>2, <2>3 DEF Next
<1> QED BY <1>1, LoginInvariant, PTL DEF Spec, ScriptAdvances
================================================================================
