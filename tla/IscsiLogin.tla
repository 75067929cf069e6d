------------------------------- MODULE IscsiLogin -------------------------------
(***************************************************************************)
(* `areca_iscsi.sh TARGET PORTAL`: sets the node record, logs in or takes  *)
(* the session that is there, waits for its block device and limits the    *)
(* device's queue.  Sessions are made and ended, node records rewritten by *)
(* discoveries, and device names given away, by others at the same time.   *)
(* The script runs under set -e: every command that fails ends it.         *)
(***************************************************************************)
EXTENDS Integers, FiniteSets

CONSTANTS
  Sids,       \* session numbers
  Devices,    \* block device names
  None,
  Polls,      \* rounds of each waiting loop, 30 in the script
  Luns,       \* devices a session has at most, once all have appeared
  MaxChanges  \* bound: logins, logouts and discoveries by others

Values ==
  {"cmds_max", "queue_depth", "MaxBurstLength", "FirstBurstLength"}
QueueLimits == {"max_sectors_kb", "queue_depth"}

ASSUME IscsiLoginAssumption ==
  /\ Polls \in Nat \ {0} /\ Luns \in Nat \ {0} /\ MaxChanges \in Nat
  /\ None \notin Sids /\ None \notin Devices /\ IsFiniteSet(Devices)
  /\ \A values \in SUBSET Values : None # values
  /\ \A s \in [mine : BOOLEAN, under : SUBSET Values] : None # s
  /\ \A d \in [session : Sids, node : BOOLEAN, limits : SUBSET QueueLimits] :
       None # d

VARIABLES
  ported,    \* PORTAL is given with its port, as iscsiadm prints it
  record,    \* the values of the node record the script has a say in
  sessions,  \* whether each is of TARGET at PORTAL, and the values it is under
  device,    \* the session each device belongs to, whether udev has made its
             \*   node, and the queue limits that were written
  pc,        \* the statement the script is at, or how it ended
  pending,   \* values update_node has not set yet
  session,   \* the session the script found
  polls,     \* rounds made of the loop it is in
  todo,      \* devices of the list not limited yet
  current,   \* the one in hand
  fresh,     \* history: the script logged in itself
  changes, logouts,  \* what others have done so far
  lost       \* history: values that a discovery took out of the record again
             \*   between the script's update and its login

system == <<ported, record, sessions, device>>
script == <<pc, pending, session, polls, todo, current, fresh>>
others == <<changes, logouts, lost>>
vars   == <<system, script, others>>

Ended == {"done", "failed"}

Open == {s \in Sids : sessions[s] # None}
Present == {d \in Devices : device[d] # None}
Mine == {s \in Open : sessions[s].mine}
DevicesOf(s) == {d \in Present : device[d].session = s}

Init ==
  /\ ported \in BOOLEAN
  /\ record \in {None, {}, Values}
  /\ sessions \in
       [Sids -> {None} \cup [mine : BOOLEAN, under : {{}, Values}]]
  /\ device = [d \in Devices |-> None]
  /\ pc = "show" /\ pending = Values /\ session = None /\ polls = 0
  /\ todo = {} /\ current = None /\ fresh = FALSE
  /\ changes = 0 /\ logouts = 0 /\ lost = {}

-----------------------------------------------------------------------------
(* The script. *)

Fail == pc' = "failed"

(* iscsiadm -m node -o show, and the discovery when it fails. *)
ShowNode ==
  /\ pc = "show"
  /\ pc' \in IF record = None THEN {"discover"} ELSE {"discover", "update"}
  /\ UNCHANGED <<system, pending, session, polls, todo, current, fresh, others>>

(* What a SendTargets discovery makes of the record: kept as it is, made   *)
(* anew with the defaults, or gone where the portal does not name TARGET.  *)
Rediscovered == {record, {}, None}

Discover ==
  /\ pc = "discover" /\ pc' = "update"
  /\ record' \in Rediscovered
  /\ UNCHANGED <<ported, sessions, device, pending, session, polls, todo,
                 current, fresh, others>>

(* Mutated: an update that fails is passed over. *)
UpdateNodeLenient ==
  /\ pc = "update"
  /\ \E v \in pending :
       /\ pending' = pending \ {v}
       /\ record' \in IF record = None THEN {None} ELSE {record, record \cup {v}}
  /\ pc' = IF pending' = {} THEN "find" ELSE "update"
  /\ UNCHANGED <<ported, sessions, device, session, polls, todo, current,
                 fresh, others>>

(* One update_node. *)
UpdateNode ==
  /\ pc = "update"
  /\ IF record = None
     THEN Fail /\ UNCHANGED <<record, pending>>
     ELSE \E v \in pending :
            /\ pending' = pending \ {v}
            /\ record' = record \cup {v}
            /\ pc' = IF pending' = {} THEN "find" ELSE "update"
  /\ UNCHANGED <<ported, sessions, device, session, polls, todo, current,
                 fresh, others>>

(* find_session_id: what iscsiadm -m session prints of TARGET, with PORTAL *)
(* and a comma after it; nothing when the command fails.                   *)
FindSessionId == {{}, IF ported THEN Mine ELSE {}}

FindSession ==
  /\ pc = "find"
  /\ \E found \in FindSessionId :
       pc' = IF found = {} THEN "login"
             ELSE IF \E s \in Sids : found = {s} THEN "settle" ELSE "failed"
  /\ UNCHANGED <<system, pending, session, polls, todo, current, fresh, others>>

(* iscsiadm --login needs a record, and does not log in a second time. *)
Login ==
  /\ pc = "login" /\ Mine = {} /\ record # None
  /\ \E s \in Sids \ Open :
       sessions' = [sessions EXCEPT ![s] = [mine |-> TRUE, under |-> record]]
  /\ pc' = "settle" /\ fresh' = TRUE
  /\ UNCHANGED <<ported, record, device, pending, session, polls, todo,
                 current, others>>

(* udevadm settle *)
Settle ==
  /\ pc = "settle" /\ pc' = "poll"
  /\ UNCHANGED <<system, pending, session, polls, todo, current, fresh, others>>

(* Mutated: it waits until there is a session. *)
PollSessionForever ==
  /\ pc = "poll"
  /\ \E found \in FindSessionId :
       \/ \E s \in Sids : found = {s} /\ session' = s /\ pc' = "list"
       \/ found = {} /\ UNCHANGED <<session, pc>>
       \/ ~(\E s \in Sids : found \subseteq {s}) /\ Fail /\ UNCHANGED session
  /\ UNCHANGED <<system, pending, polls, todo, current, fresh, others>>

(* One round of the first loop. *)
PollSession ==
  /\ pc = "poll"
  /\ \E found \in FindSessionId :
       \/ \E s \in Sids : found = {s} /\ session' = s /\ pc' = "list" /\ polls' = 0
       \/ /\ found = {} /\ UNCHANGED session
          /\ IF polls + 1 < Polls THEN polls' = polls + 1 /\ UNCHANGED pc
             ELSE Fail /\ UNCHANGED polls
       \/ /\ ~(\E s \in Sids : found \subseteq {s})
          /\ Fail /\ UNCHANGED <<session, polls>>
  /\ UNCHANGED <<system, pending, todo, current, fresh, others>>

(* Mutated: the devices of every session. *)
ListedAny == {d \in Present : device[d].node}

(* The device nodes below the session in sysfs. *)
Listed == {d \in DevicesOf(session) : device[d].node}

(* Mutated: a session without a device is waited for again. *)
ListDevicesAgain ==
  /\ pc = "list"
  /\ IF Listed # {}
     THEN todo' = Listed /\ pc' = "configure" /\ UNCHANGED polls
     ELSE polls' = (polls + 1) % Polls /\ UNCHANGED <<todo, pc>>
  /\ UNCHANGED <<system, pending, session, current, fresh, others>>

(* One round of the second loop. *)
ListDevices ==
  /\ pc = "list"
  /\ IF Listed # {}
     THEN todo' = Listed /\ pc' = "configure" /\ UNCHANGED polls
     ELSE /\ UNCHANGED todo
          /\ IF polls + 1 < Polls THEN polls' = polls + 1 /\ UNCHANGED pc
             ELSE Fail /\ UNCHANGED polls
  /\ UNCHANGED <<system, pending, session, current, fresh, others>>

(* The for loop: both controls of the next device must be there. *)
NextDevice ==
  /\ pc = "configure"
  /\ IF todo = {}
     THEN pc' = "done" /\ UNCHANGED <<todo, current>>
     ELSE \E d \in todo :
            IF d \in Present
            THEN pc' = "sectors" /\ current' = d /\ todo' = todo \ {d}
            ELSE Fail /\ UNCHANGED <<todo, current>>
  /\ UNCHANGED <<system, pending, session, polls, fresh, others>>

(* echo ... > /sys/block/NAME/...: whatever device has the name now. *)
Write(limit) ==
  device' = [device EXCEPT ![current].limits = @ \cup {limit}]

(* Mutated: a value the kernel refuses is passed over. *)
WriteSectorsLenient ==
  /\ pc = "sectors" /\ current \in Present
  /\ Write("max_sectors_kb") \/ UNCHANGED device
  /\ pc' = "depth"
  /\ UNCHANGED <<ported, record, sessions, pending, session, polls, todo,
                 current, fresh, others>>

WriteSectors ==
  /\ pc = "sectors" /\ current \in Present
  /\ Write("max_sectors_kb") /\ pc' = "depth"
  /\ UNCHANGED <<ported, record, sessions, pending, session, polls, todo,
                 current, fresh, others>>

WriteDepth ==
  /\ pc = "depth" /\ current \in Present
  /\ Write("queue_depth") /\ pc' = "configure"
  /\ UNCHANGED <<ported, record, sessions, pending, session, polls, todo,
                 current, fresh, others>>

(* A command that fails: no root, no iscsiadm, a portal that does not      *)
(* answer, a settle that takes too long, a control that cannot be written. *)
CommandFails ==
  /\ pc \notin Ended \cup {"find", "poll", "list"}
  /\ Fail
  /\ UNCHANGED <<system, pending, session, polls, todo, current, fresh, others>>

Script ==
  \/ ShowNode \/ Discover \/ UpdateNode \/ FindSession \/ Login \/ Settle
  \/ PollSession \/ ListDevices \/ NextDevice \/ WriteSectors \/ WriteDepth
  \/ CommandFails

-----------------------------------------------------------------------------
(* The kernel and udev: the devices of a session appear some time later. *)

Attach ==
  /\ \E d \in Devices \ Present, s \in Open :
       /\ Cardinality(DevicesOf(s)) < Luns
       /\ device' = [device EXCEPT
                       ![d] = [session |-> s, node |-> FALSE, limits |-> {}]]
  /\ UNCHANGED <<ported, record, sessions, script, others>>

MakeNode ==
  /\ \E d \in Present :
       ~device[d].node /\ device' = [device EXCEPT ![d].node = TRUE]
  /\ UNCHANGED <<ported, record, sessions, script, others>>

(* Other users of iscsiadm, such as the other two scripts. *)

Change == changes < MaxChanges /\ changes' = changes + 1

OtherLogin ==
  /\ Change
  /\ \E s \in Sids \ Open, mine \in BOOLEAN :
       /\ mine => record # None
       /\ sessions' = [sessions EXCEPT ![s] =
            [mine |-> mine, under |-> IF mine THEN record ELSE {}]]
  /\ UNCHANGED <<ported, record, device, script, logouts, lost>>

Logout ==
  /\ Change /\ logouts' = logouts + 1
  /\ \E s \in Open :
       /\ sessions' = [sessions EXCEPT ![s] = None]
       /\ device' = [d \in Devices |->
                       IF d \in DevicesOf(s) THEN None ELSE device[d]]
  /\ UNCHANGED <<ported, record, script, lost>>

(* areca_iscsi_discover.sh, or any other discovery at PORTAL. *)
OtherDiscovers ==
  /\ Change
  /\ record' \in Rediscovered
  /\ lost' = IF fresh \/ record' = record THEN lost ELSE Values \ pending
  /\ UNCHANGED <<ported, sessions, device, script, logouts>>

Environment == Attach \/ MakeNode \/ OtherLogin \/ Logout \/ OtherDiscovers

Next == Script \/ Environment

Spec == Init /\ [][Next]_vars

(* Every command of the script returns, and its sleeps end. *)
FairSpec == Spec /\ WF_vars(Script)

-----------------------------------------------------------------------------
TypeOK ==
  /\ ported \in BOOLEAN /\ record \in {None} \cup SUBSET Values
  /\ sessions \in [Sids -> {None} \cup [mine : BOOLEAN, under : SUBSET Values]]
  /\ device \in [Devices -> {None} \cup
       [session : Sids, node : BOOLEAN, limits : SUBSET QueueLimits]]
  /\ pc \in {"show", "discover", "update", "find", "login", "settle", "poll",
             "list", "configure", "sectors", "depth"} \cup Ended
  /\ pending \subseteq Values
  /\ session \in Sids \cup {None} /\ current \in Devices \cup {None}
  /\ pc \in {"list", "configure", "sectors", "depth", "done"} => session # None
  /\ pc \in {"sectors", "depth"} => current # None
  /\ polls \in 0..(Polls - 1) /\ lost \subseteq Values
  /\ todo \subseteq Devices /\ fresh \in BOOLEAN
  /\ changes \in 0..MaxChanges /\ logouts \in 0..changes

Quiet == logouts = 0

(* As long as nobody logs out, no device is limited but those of one       *)
(* session of the target at the portal, whatever appears while the script  *)
(* waits: areca_iscsi.sh 51-60, 76-131.                                    *)
OnlyOwnDevices ==
  Quiet => \A d \in Present :
    device[d].limits # {} => session \in Mine /\ device[d].session = session

(* A script that ends well has limited both queues of every device its     *)
(* session has, when the target exports the one LUN of docs/iscsi.md.      *)
DoneIsLimited ==
  pc = "done" /\ Quiet /\ Luns = 1 =>
    /\ DevicesOf(session) # {}
    /\ \A d \in DevicesOf(session) : device[d].limits = QueueLimits

(* The session of a script that logged in itself and ended well was        *)
(* negotiated under all four values, whatever was rewritten while it set   *)
(* them, but for those that somebody's discovery took out of the record    *)
(* again before the login, which goes ahead without them:                  *)
(* areca_iscsi.sh 40-49, 62-64.                                            *)
FreshIsNegotiated ==
  pc = "done" /\ Quiet /\ fresh => sessions[session].under = Values \ lost

(* The same without that exception: a discovery between the updates and    *)
(* the login undoes what was set, areca_iscsi.sh 46-64.                    *)
FreshKeepsLimits ==
  pc = "done" /\ Quiet /\ fresh => sessions[session].under = Values

(* "Login and automatically apply conservative iSCSI limits", README: the  *)
(* same of a session that was there before, areca_iscsi.sh 65-66.          *)
DoneIsNegotiated ==
  pc = "done" /\ Quiet => sessions[session].under = Values

(* The script comes to an end, whatever does not appear. *)
Terminates == <>(pc \in Ended)

(* The commands the script runs at most from here on: one for each value   *)
(* and each round of the two loops left, three for each device.            *)
DeviceSteps(n) == 3 * n + 1
WaitSteps == DeviceSteps(Cardinality(Devices)) + Polls
StepsLeft ==
  CASE pc = "show"      -> WaitSteps + Polls + Cardinality(pending) + 5
    [] pc = "discover"  -> WaitSteps + Polls + Cardinality(pending) + 4
    [] pc = "update"    -> WaitSteps + Polls + Cardinality(pending) + 3
    [] pc = "find"      -> WaitSteps + Polls + 3
    [] pc = "login"     -> WaitSteps + Polls + 2
    [] pc = "settle"    -> WaitSteps + Polls + 1
    [] pc = "poll"      -> WaitSteps + (Polls - polls)
    [] pc = "list"      -> WaitSteps - polls
    [] pc = "configure" -> DeviceSteps(Cardinality(todo))
    [] pc = "sectors"   -> DeviceSteps(Cardinality(todo)) + 2
    [] pc = "depth"     -> DeviceSteps(Cardinality(todo)) + 1
    [] OTHER            -> 0

(* Why it ends: no command, whether it fails or not, leaves the script     *)
(* with as many before it as there were, and sessions and devices that     *)
(* come and go meanwhile add none: areca_iscsi.sh 40-131.                  *)
ScriptAdvances ==
  [][/\ Script => StepsLeft' \in 0..(StepsLeft - 1)
     /\ StepsLeft' <= StepsLeft]_vars
================================================================================
