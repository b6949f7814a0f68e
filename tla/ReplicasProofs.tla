--------------------------- MODULE ReplicasProofs ---------------------------
(***************************************************************************)
(* Any number of operators with caches of any lag implement Topology until *)
(* a pass begins on a stale copy or beside another pass.                   *)
(***************************************************************************)
EXTENDS Replicas, TLAPS

Stage == {"idle", "primary", "standby", "status", "begin", "demote", "promote", "repoint"}
PassType == [pc : Stage, copy : Object, todo : SUBSET Cluster]

Shape ==
  /\ obj \in Object
  /\ writable \subseteq Cluster
  /\ pass \in [Operator -> PassType]

\* One pass at a time.
Exclusive == \A o, p \in Operator : ~At(o, "idle") /\ ~At(p, "idle") => o = p

\* Between passes only the recorded primary or only the spec's is writable, before a primary
\* is recorded only the spec's.
ObjectInv ==
  /\ obj.current = None => writable \subseteq {obj.spec}
  /\ obj.current # None => writable \subseteq {obj.current} \/ writable \subseteq {obj.spec}

\* A normal pass: only the primary of its copy is writable, and it is on record unless none is.
NormalInv(o) ==
  pass[o].pc \in {"primary", "standby", "status"} =>
    /\ writable \subseteq {Copy(o).spec}
    /\ Copy(o).current = obj.current
    /\ obj.current \in {None, Copy(o).spec}
    /\ obj.current = None => Copy(o) = obj
    /\ At(o, "standby") => Copy(o).spec \notin pass[o].todo

\* A failover pass: the copy is the object, and nobody but its new primary is writable once
\* the old one is demoted.
SwitchInv(o) ==
  pass[o].pc \in {"begin", "demote", "promote", "repoint"} =>
    /\ Copy(o) = obj /\ FailoverPending(obj)
    /\ At(o, "promote") => writable \subseteq {obj.spec}
    /\ At(o, "repoint") => writable = {obj.spec} /\ obj.spec \notin pass[o].todo

ReplicaInv ==
  /\ Shape /\ Exclusive /\ ObjectInv
  /\ \A o \in Operator : NormalInv(o) /\ SwitchInv(o)

AbstractStep == Abstract!Next \/ UNCHANGED Abstract!tvars

LEMMA ReplicaInit == Init => ReplicaInv /\ Abstract!Init
<1> SUFFICES ASSUME Init PROVE ReplicaInv /\ Abstract!Init
  OBVIOUS
<1>1. /\ obj = [spec |-> InitPrimary, current |-> None] /\ writable = {}
      /\ \A o \in Operator : pass[o].pc = "idle"
  BY DEF Init, NoPass
<1>2. Shape
  BY ReplicasAssumption DEF Init, Shape, Object, PassType, NoPass, Stage
<1>3. Abstract!Init
  BY <1>1, ReplicasAssumption DEF Abstract!Init
<1> QED
  BY <1>1, <1>2, <1>3 DEF ReplicaInv, Exclusive, ObjectInv, NormalInv, SwitchInv, At

-----------------------------------------------------------------------------
(* A step of the operator whose pass is in flight.                         *)

\* Only o has a pass in flight, before and after the step.
Alone(o) ==
  /\ pass' \in [Operator -> PassType]
  /\ \A p \in Operator \ {o} : pass[p].pc = "idle" /\ pass'[p] = pass[p]

LEMMA Others ==
  ASSUME ReplicaInv, NEW o \in Operator, ~At(o, "idle")
  PROVE  \A p \in Operator \ {o} : pass[p].pc = "idle"
BY DEF ReplicaInv, Exclusive, At

LEMMA AloneGoto ==
  ASSUME ReplicaInv, NEW o \in Operator, ~At(o, "idle"), NEW s \in Stage, NEW T \in SUBSET Cluster,
         Goto(o, s, T)
  PROVE  Alone(o) /\ pass'[o].pc = s /\ pass'[o].todo = T /\ pass'[o].copy = pass[o].copy
<1>1. pass \in [Operator -> PassType]
  BY DEF ReplicaInv, Shape
<1>2. /\ \A p \in Operator \ {o} : pass'[p] = pass[p]
      /\ pass'[o] = [pass[o] EXCEPT !.pc = s, !.todo = T]
      /\ pass' \in [Operator -> PassType]
  BY <1>1 DEF Goto, PassType
<1>3. pass[o] \in PassType
  BY <1>1
<1>4. pass'[o].pc = s /\ pass'[o].todo = T /\ pass'[o].copy = pass[o].copy
  BY <1>2, <1>3 DEF PassType
<1> QED
  BY <1>2, <1>4, Others DEF Alone

LEMMA AloneReturn ==
  ASSUME ReplicaInv, NEW o \in Operator, ~At(o, "idle"), Return(o)
  PROVE  Alone(o) /\ pass'[o].pc = "idle"
<1>1. NoPass \in PassType /\ NoPass.pc = "idle"
  BY ReplicasAssumption DEF NoPass, PassType, Object, Stage
<1>2. pass \in [Operator -> PassType]
  BY DEF ReplicaInv, Shape
<1>3. /\ \A p \in Operator \ {o} : pass'[p] = pass[p]
      /\ pass'[o] = NoPass /\ pass' \in [Operator -> PassType]
  BY <1>1, <1>2 DEF Return
<1> QED
  BY <1>1, <1>3, Others DEF Alone

\* What is left to show of the invariant is about the object and about o.
LEMMA AloneInv ==
  ASSUME NEW o \in Operator, Alone(o), obj' \in Object, writable' \subseteq Cluster,
         ObjectInv', NormalInv(o)', SwitchInv(o)'
  PROVE  ReplicaInv'
<1>1. \A p \in Operator \ {o} : pass'[p].pc = "idle"
  BY DEF Alone
<1>2. Shape' /\ Exclusive'
  BY <1>1 DEF Alone, Shape, Exclusive, At
<1>3. \A p \in Operator \ {o} : NormalInv(p)' /\ SwitchInv(p)'
  BY <1>1 DEF NormalInv, SwitchInv
<1> QED
  BY <1>2, <1>3 DEF ReplicaInv

\* A pass that ends.
LEMMA ReturnInv ==
  ASSUME ReplicaInv, NEW o \in Operator, ~At(o, "idle"), Return(o),
         obj' \in Object, writable' \subseteq Cluster, ObjectInv'
  PROVE  ReplicaInv'
<1>1. Alone(o) /\ pass'[o].pc = "idle"
  BY AloneReturn
<1>2. NormalInv(o)' /\ SwitchInv(o)'
  BY <1>1 DEF NormalInv, SwitchInv
<1> QED
  BY <1>1, <1>2, AloneInv

-----------------------------------------------------------------------------
(* Where the pass of o is, and what the invariant says of it.              *)

LEMMA Facts ==
  ASSUME ReplicaInv, NEW o \in Operator
  PROVE  /\ obj \in Object /\ writable \subseteq Cluster /\ ObjectInv
         /\ pass \in [Operator -> PassType] /\ pass[o] \in PassType
         /\ Copy(o) \in Object /\ pass[o].todo \in SUBSET Cluster
         /\ NormalInv(o) /\ SwitchInv(o)
BY DEF ReplicaInv, Shape, PassType, Copy

\* The pass goes on, and keeps its copy; the object stays.
LEMMA GotoInv ==
  ASSUME ReplicaInv, NEW o \in Operator, ~At(o, "idle"), NEW s \in Stage, NEW T \in SUBSET Cluster,
         Goto(o, s, T), UNCHANGED obj, writable' \subseteq Cluster, ObjectInv',
         s \in {"primary", "standby", "status"} =>
           /\ writable' \subseteq {Copy(o).spec}
           /\ Copy(o).current = obj.current
           /\ obj.current \in {None, Copy(o).spec}
           /\ obj.current = None => Copy(o) = obj
           /\ s = "standby" => Copy(o).spec \notin T,
         s \in {"begin", "demote", "promote", "repoint"} =>
           /\ Copy(o) = obj /\ FailoverPending(obj)
           /\ s = "promote" => writable' \subseteq {obj.spec}
           /\ s = "repoint" => writable' = {obj.spec} /\ obj.spec \notin T
  PROVE  ReplicaInv'
<1>1. Alone(o)
  BY AloneGoto
<1>2. pass'[o].pc = s /\ pass'[o].todo = T /\ pass'[o].copy = pass[o].copy
  BY AloneGoto
<1>3. NormalInv(o)' /\ SwitchInv(o)'
  BY <1>2 DEF NormalInv, SwitchInv, At, Copy, FailoverPending
<1>4. obj' \in Object
  BY Facts
<1> QED
  BY <1>1, <1>3, <1>4, AloneInv

-----------------------------------------------------------------------------
(* One lemma per action: the invariant and the abstract step.              *)

LEMMA ReadStep ==
  ASSUME ReplicaInv, NEW o \in Operator, Read(o), ~disturbed'
  PROVE  ReplicaInv' /\ AbstractStep
<1>1. /\ Head(view[o]) = obj /\ \A p \in Operator \ {o} : pass[p].pc = "idle"
      /\ UNCHANGED <<obj, writable>>
  BY DEF Read, At
<1>2. pass' = [pass EXCEPT ![o] = [pc |-> IF FailoverPending(obj) THEN "begin" ELSE "primary",
                                   copy |-> obj, todo |-> {}]]
  BY <1>1 DEF Read
<1>3. /\ pass' \in [Operator -> PassType]
      /\ \A p \in Operator \ {o} : pass'[p] = pass[p]
      /\ pass'[o].pc = IF FailoverPending(obj) THEN "begin" ELSE "primary"
      /\ pass'[o].copy = obj
  BY <1>2, Facts DEF PassType, Stage
<1>4. Alone(o)
  BY <1>1, <1>3 DEF Alone
<1>5. ObjectInv' /\ obj' \in Object /\ writable' \subseteq Cluster
  BY <1>1, Facts DEF ObjectInv
<1>6. NormalInv(o)'
  BY <1>1, <1>3, Facts DEF NormalInv, At, Copy, FailoverPending, ObjectInv
<1>7. SwitchInv(o)'
  BY <1>1, <1>3 DEF SwitchInv, At, Copy, FailoverPending
<1>8. AbstractStep
  BY <1>1 DEF AbstractStep, Abstract!tvars
<1> QED
  BY <1>4, <1>5, <1>6, <1>7, <1>8, AloneInv

\* A cluster becomes writable beside no other one.
LEMMA GrantStep ==
  ASSUME NEW c \in Cluster, c \in {obj.spec, obj.current}, writable \subseteq {c},
         writable' = writable \cup {c}, UNCHANGED obj
  PROVE  AbstractStep
<1>1. CASE writable = {}
  BY <1>1 DEF AbstractStep, Abstract!Next, Abstract!Grant
<1>2. CASE writable = {c}
  BY <1>2 DEF AbstractStep, Abstract!tvars
<1> QED
  BY <1>1, <1>2

LEMMA StutterStep ==
  ASSUME UNCHANGED <<obj, writable>>
  PROVE  AbstractStep
BY DEF AbstractStep, Abstract!tvars

LEMMA PrimaryStep ==
  ASSUME ReplicaInv, NEW o \in Operator, reconcilePrimary(o)
  PROVE  ReplicaInv' /\ AbstractStep
<1>1. /\ pass[o].pc = "primary" /\ ~At(o, "idle") /\ UNCHANGED obj
      /\ writable' \in {writable, writable \cup {Copy(o).spec}}
      /\ Goto(o, "standby", Cluster \ {Copy(o).spec}) \/ Goto(o, "status", {})
  BY DEF reconcilePrimary, At
<1>2. /\ writable \subseteq {Copy(o).spec} /\ Copy(o).current = obj.current
      /\ obj.current \in {None, Copy(o).spec} /\ (obj.current = None => Copy(o) = obj)
      /\ Copy(o).spec \in Cluster
  BY <1>1, Facts DEF NormalInv, Object
<1>3. writable' \subseteq {Copy(o).spec} /\ writable' \subseteq Cluster
  BY <1>1, <1>2
<1>4. ObjectInv'
  BY <1>1, <1>2, <1>3 DEF ObjectInv
<1>5. ReplicaInv'
  <2>1. CASE Goto(o, "standby", Cluster \ {Copy(o).spec})
    BY <1>1, <1>2, <1>3, <1>4, <2>1, GotoInv DEF Stage
  <2>2. CASE Goto(o, "status", {})
    BY <1>1, <1>2, <1>3, <1>4, <2>2, GotoInv DEF Stage
  <2> QED
    BY <1>1, <2>1, <2>2
<1>6. AbstractStep
  BY <1>1, <1>2, GrantStep, StutterStep
<1> QED
  BY <1>5, <1>6

\* The primary of the copy is not among the standbys: nothing that is writable stops.
LEMMA StandbyStep ==
  ASSUME ReplicaInv, NEW o \in Operator, NEW c \in Cluster, reconcileStandby(o, c)
  PROVE  ReplicaInv' /\ AbstractStep
<1>1. /\ pass[o].pc = "standby" /\ ~At(o, "idle") /\ At(o, "standby") /\ UNCHANGED obj
      /\ c \in pass[o].todo /\ writable' \in {writable, writable \ {c}}
      /\ Goto(o, "standby", pass[o].todo \ {c})
  BY DEF reconcileStandby, At, IsFirst
<1>2. /\ writable \subseteq {Copy(o).spec} /\ Copy(o).current = obj.current
      /\ obj.current \in {None, Copy(o).spec} /\ (obj.current = None => Copy(o) = obj)
      /\ Copy(o).spec \notin pass[o].todo /\ pass[o].todo \in SUBSET Cluster
  BY <1>1, Facts DEF NormalInv
<1>3. UNCHANGED writable
  BY <1>1, <1>2
<1>4. ObjectInv' /\ writable' \subseteq Cluster
  BY <1>1, <1>3, Facts DEF ObjectInv
<1>5. ReplicaInv'
  BY <1>1, <1>2, <1>3, <1>4, GotoInv DEF Stage
<1> QED
  BY <1>1, <1>3, <1>5, StutterStep

LEMMA WriteObject ==
  ASSUME NEW n, Write(n) \/ UNCHANGED <<obj, view>>
  PROVE  obj' \in {obj, n}
BY DEF Write

LEMMA UpdateStatusStep ==
  ASSUME ReplicaInv, NEW o \in Operator, UpdateStatus(o)
  PROVE  ReplicaInv' /\ AbstractStep
<1> DEFINE n == [obj EXCEPT !.current = IF Copy(o).current = Copy(o).spec THEN @ ELSE Copy(o).spec]
<1>1. /\ pass[o].pc \in {"standby", "status"} /\ ~At(o, "idle")
      /\ Return(o) /\ UNCHANGED writable
  BY DEF UpdateStatus, At
<1>2. obj' \in {obj, n}
  BY WriteObject DEF UpdateStatus
<1>3. /\ writable \subseteq {Copy(o).spec} /\ Copy(o).current = obj.current
      /\ obj.current \in {None, Copy(o).spec} /\ (obj.current = None => Copy(o) = obj)
      /\ Copy(o) \in Object /\ obj \in Object /\ writable \subseteq Cluster /\ ObjectInv
  BY <1>1, Facts DEF NormalInv
<1>4. CASE obj' = obj
  BY <1>1, <1>3, <1>4, ReturnInv, StutterStep DEF ObjectInv
<1>5. CASE obj' = n /\ n # obj
  <2>1. obj.current = None /\ Copy(o) = obj /\ obj' = [obj EXCEPT !.current = obj.spec]
    BY <1>3, <1>5 DEF Object
  <2>2. obj' \in Object /\ obj'.spec = obj.spec /\ obj'.current = obj.spec /\ obj.spec \in Cluster
    BY <1>3, <2>1 DEF Object
  <2>3. ObjectInv'
    BY <1>1, <1>3, <2>1, <2>2 DEF ObjectInv
  <2>4. Abstract!Record
    BY <1>1, <1>3, <2>1, <2>2, ReplicasAssumption DEF Abstract!Record
  <2> QED
    BY <1>1, <1>3, <2>2, <2>3, <2>4, ReturnInv DEF AbstractStep, Abstract!Next
<1> QED
  BY <1>2, <1>4, <1>5

LEMMA FailoverBeginStep ==
  ASSUME ReplicaInv, NEW o \in Operator, FailoverBegin(o)
  PROVE  ReplicaInv' /\ AbstractStep
<1>1. /\ pass[o].pc = "begin" /\ ~At(o, "idle") /\ UNCHANGED <<obj, writable>>
  BY DEF FailoverBegin, At
<1>2. Copy(o) = obj /\ FailoverPending(obj)
  BY <1>1, Facts DEF SwitchInv
<1>3. pass' = [pass EXCEPT ![o].pc = "demote", ![o].copy = obj]
  BY <1>2 DEF FailoverBegin
<1>4. /\ pass' \in [Operator -> PassType]
      /\ \A p \in Operator \ {o} : pass'[p] = pass[p]
      /\ pass'[o].pc = "demote" /\ pass'[o].copy = obj
  BY <1>3, Facts DEF PassType, Stage
<1>5. Alone(o)
  BY <1>1, <1>4, Others DEF Alone
<1>6. NormalInv(o)' /\ SwitchInv(o)'
  BY <1>1, <1>2, <1>4 DEF NormalInv, SwitchInv, At, Copy, FailoverPending
<1>7. ObjectInv' /\ obj' \in Object /\ writable' \subseteq Cluster
  BY <1>1, Facts DEF ObjectInv
<1> QED
  BY <1>1, <1>5, <1>6, <1>7, AloneInv, StutterStep

\* Without a stale read there is always another primary to switch to.
LEMMA RefusedStep ==
  ASSUME ReplicaInv, NEW o \in Operator, FailoverRefused(o)
  PROVE  ReplicaInv' /\ AbstractStep
<1>1. pass[o].pc = "demote" /\ Copy(o).spec = Copy(o).current
  BY DEF FailoverRefused, At
<1> QED
  BY <1>1, Facts DEF SwitchInv, FailoverPending

\* A call of the orchestrator that changes the writable clusters to W, and may end the pass.
LEMMA CallEffect ==
  ASSUME NEW o \in Operator, NEW W, NEW s, NEW T, Call(o, W, s, T)
  PROVE  /\ UNCHANGED obj
         /\ writable' = W \/ writable' = writable
         /\ (Goto(o, s, T) /\ writable' = W) \/ Return(o)
BY DEF Call

LEMMA DemoteStep ==
  ASSUME ReplicaInv, NEW o \in Operator, demoteCluster(o)
  PROVE  ReplicaInv' /\ AbstractStep
<1>1. pass[o].pc = "demote" /\ ~At(o, "idle")
  BY DEF demoteCluster, At
<1>2. Copy(o) = obj /\ FailoverPending(obj) /\ obj \in Object /\ writable \subseteq Cluster
  BY <1>1, Facts DEF SwitchInv
<1>3. Call(o, writable \ {obj.current}, "promote", {})
  BY <1>2 DEF demoteCluster
<1>4. /\ UNCHANGED obj
      /\ writable' = writable \ {obj.current} \/ writable' = writable
      /\ (Goto(o, "promote", {}) /\ writable' = writable \ {obj.current}) \/ Return(o)
  BY <1>3, CallEffect
<1>5. writable \subseteq {obj.current} \/ writable \subseteq {obj.spec}
  BY <1>2, Facts DEF ObjectInv
<1>6. ObjectInv' /\ writable' \subseteq Cluster /\ obj' \in Object
  BY <1>2, <1>4, <1>5, Facts DEF ObjectInv, FailoverPending
<1>7. AbstractStep
  <2>1. CASE writable' = writable
    BY <1>4, <2>1, StutterStep
  <2>2. CASE writable' # writable
    <3>1. writable = {obj.current} /\ writable' = {} /\ obj.spec # obj.current
      BY <1>2, <1>4, <1>5, <2>2 DEF FailoverPending
    <3> QED
      BY <1>4, <3>1 DEF AbstractStep, Abstract!Next, Abstract!Fence
  <2> QED
    BY <2>1, <2>2
<1>8. CASE Return(o)
  BY <1>1, <1>6, <1>7, <1>8, ReturnInv
<1>9. CASE Goto(o, "promote", {}) /\ writable' = writable \ {obj.current}
  <2>1. writable' \subseteq {obj.spec}
    BY <1>5, <1>9
  <2>2. ReplicaInv'
    BY <1>1, <1>2, <1>4, <1>6, <1>9, <2>1, GotoInv DEF Stage
  <2> QED
    BY <1>7, <2>2
<1> QED
  BY <1>4, <1>8, <1>9

LEMMA PromoteStep ==
  ASSUME ReplicaInv, NEW o \in Operator, promoteCluster(o)
  PROVE  ReplicaInv' /\ AbstractStep
<1> DEFINE T == Cluster \ {obj.spec, obj.current}
<1>1. pass[o].pc = "promote" /\ ~At(o, "idle") /\ At(o, "promote")
  BY DEF promoteCluster, At
<1>2. /\ Copy(o) = obj /\ FailoverPending(obj) /\ obj \in Object /\ writable \subseteq {obj.spec}
      /\ obj.spec \in Cluster
  BY <1>1, Facts DEF SwitchInv, Object
<1>3. Call(o, writable \cup {obj.spec}, "repoint", T)
  BY <1>2 DEF promoteCluster
<1>4. /\ UNCHANGED obj
      /\ writable' = writable \cup {obj.spec} \/ writable' = writable
      /\ (Goto(o, "repoint", T) /\ writable' = writable \cup {obj.spec}) \/ Return(o)
  BY <1>3, CallEffect
<1>5. ObjectInv' /\ writable' \subseteq Cluster /\ obj' \in Object
  BY <1>2, <1>4 DEF ObjectInv, FailoverPending
<1>6. AbstractStep
  BY <1>2, <1>4, GrantStep, StutterStep
<1>7. CASE Return(o)
  BY <1>1, <1>5, <1>6, <1>7, ReturnInv
<1>8. CASE Goto(o, "repoint", T) /\ writable' = writable \cup {obj.spec}
  <2>1. writable' = {obj.spec} /\ obj.spec \notin T /\ T \in SUBSET Cluster
    BY <1>2, <1>8
  <2> HIDE DEF T
  <2>2. ReplicaInv'
    BY <1>1, <1>2, <1>4, <1>5, <1>8, <2>1, GotoInv DEF Stage
  <2> QED
    BY <1>6, <2>2
<1> QED
  BY <1>4, <1>7, <1>8

LEMMA RepointStep ==
  ASSUME ReplicaInv, NEW o \in Operator, NEW c \in Cluster, repoint(o, c)
  PROVE  ReplicaInv' /\ AbstractStep
<1> DEFINE T == pass[o].todo \ {c}
<1>1. /\ pass[o].pc = "repoint" /\ ~At(o, "idle") /\ At(o, "repoint") /\ c \in pass[o].todo
      /\ Call(o, writable \ {c}, "repoint", T)
  BY DEF repoint, At, IsFirst
<1>2. /\ Copy(o) = obj /\ FailoverPending(obj) /\ obj \in Object /\ writable = {obj.spec}
      /\ obj.spec \notin pass[o].todo /\ obj.spec \in Cluster /\ pass[o].todo \in SUBSET Cluster
  BY <1>1, Facts DEF SwitchInv, Object
<1>3. /\ UNCHANGED obj
      /\ writable' = writable \ {c} \/ writable' = writable
      /\ Goto(o, "repoint", T) \/ Return(o)
  BY <1>1, CallEffect
<1>4. UNCHANGED writable
  BY <1>1, <1>2, <1>3
<1>5. ObjectInv' /\ writable' \subseteq Cluster /\ obj' \in Object
  BY <1>2, <1>3, <1>4 DEF ObjectInv, FailoverPending
<1>6. CASE Return(o)
  BY <1>1, <1>3, <1>4, <1>5, <1>6, ReturnInv, StutterStep
<1>7. CASE Goto(o, "repoint", T)
  <2>1. obj.spec \notin T /\ T \in SUBSET Cluster
    BY <1>2
  <2> HIDE DEF T
  <2>2. ReplicaInv'
    BY <1>1, <1>2, <1>3, <1>4, <1>5, <1>7, <2>1, GotoInv DEF Stage
  <2> QED
    BY <1>3, <1>4, <2>2, StutterStep
<1> QED
  BY <1>3, <1>6, <1>7

LEMMA CommitStep ==
  ASSUME ReplicaInv, NEW o \in Operator, FailoverCommit(o)
  PROVE  ReplicaInv' /\ AbstractStep
<1>1. pass[o].pc = "repoint" /\ ~At(o, "idle") /\ At(o, "repoint") /\ Return(o) /\ UNCHANGED writable
  BY DEF FailoverCommit, At
<1>2. /\ Copy(o) = obj /\ FailoverPending(obj) /\ obj \in Object /\ writable = {obj.spec}
      /\ obj.spec \in Cluster /\ writable \subseteq Cluster /\ ObjectInv
  BY <1>1, Facts DEF SwitchInv, Object
<1>3. obj' \in {obj, [obj EXCEPT !.current = obj.spec]}
  BY <1>2, WriteObject DEF FailoverCommit
<1>4. CASE obj' = obj
  BY <1>1, <1>2, <1>4, ReturnInv, StutterStep DEF ObjectInv
<1>5. CASE obj' = [obj EXCEPT !.current = obj.spec]
  <2>1. obj' \in Object /\ obj'.spec = obj.spec /\ obj'.current = obj.spec
    BY <1>2, <1>5 DEF Object
  <2>2. ObjectInv'
    BY <1>1, <1>2, <2>1 DEF ObjectInv
  <2>3. Abstract!Record
    BY <1>1, <1>2, <2>1, ReplicasAssumption DEF Abstract!Record, FailoverPending
  <2> QED
    BY <1>1, <1>2, <2>1, <2>2, <2>3, ReturnInv DEF AbstractStep, Abstract!Next
<1> QED
  BY <1>3, <1>4, <1>5

LEMMA CrashStep ==
  ASSUME ReplicaInv, NEW o \in Operator, Crash(o)
  PROVE  ReplicaInv' /\ AbstractStep
<1>1. ~At(o, "idle") /\ Return(o) /\ UNCHANGED <<obj, writable>>
  BY DEF Crash
<1>2. ObjectInv' /\ writable' \subseteq Cluster /\ obj' \in Object
  BY <1>1, Facts DEF ObjectInv
<1> QED
  BY <1>1, <1>2, ReturnInv, StutterStep

\* A delivery, the end of the faults and a stuttering step.
LEMMA QuietStep ==
  ASSUME ReplicaInv, UNCHANGED <<obj, writable, pass>>
  PROVE  ReplicaInv' /\ AbstractStep
<1>1. ReplicaInv'
  BY DEF ReplicaInv, Shape, Exclusive, ObjectInv, NormalInv, SwitchInv, At, Copy, FailoverPending
<1> QED
  BY <1>1, StutterStep

\* An edit comes when the primary of the spec is on record, and then the passes in flight are
\* normal ones towards that primary.
LEMMA UserEditStep ==
  ASSUME ReplicaInv, UserEdit
  PROVE  ReplicaInv' /\ AbstractStep
<1>1. /\ obj \in Object /\ writable \subseteq Cluster /\ pass \in [Operator -> PassType]
      /\ Exclusive /\ ObjectInv /\ \A o \in Operator : NormalInv(o) /\ SwitchInv(o)
  BY DEF ReplicaInv, Shape
<1>2. PICK p \in Cluster \ {obj.spec} : Write([obj EXCEPT !.spec = p])
  BY DEF UserEdit
<1>3. UNCHANGED <<writable, pass>> /\ obj.current = obj.spec
  BY DEF UserEdit
<1>4. obj' \in Object /\ obj'.spec = p /\ obj'.current = obj.current /\ obj.current \in Cluster
  BY <1>1, <1>2, <1>3 DEF Object, Write
<1>5. obj.current # None /\ obj'.current # None
  BY <1>4, ReplicasAssumption
<1>6. writable \subseteq {obj.current}
  BY <1>1, <1>3, <1>5 DEF ObjectInv
<1>7. ObjectInv'
  BY <1>3, <1>4, <1>5, <1>6 DEF ObjectInv
<1>8. ASSUME NEW o \in Operator PROVE NormalInv(o)' /\ SwitchInv(o)'
  <2>1. NormalInv(o)'
    BY <1>1, <1>3, <1>4, <1>5, <1>8 DEF NormalInv, At, Copy
  <2>2. pass[o].pc \notin {"begin", "demote", "promote", "repoint"}
    BY <1>1, <1>3 DEF SwitchInv, FailoverPending
  <2>3. SwitchInv(o)'
    BY <1>3, <2>2 DEF SwitchInv
  <2> QED
    BY <2>1, <2>3
<1>9. Shape' /\ Exclusive'
  BY <1>1, <1>3, <1>4 DEF Shape, Exclusive, At
<1>10. Abstract!Desire
  BY <1>2, <1>3, <1>4, <1>6 DEF Abstract!Desire
<1> QED
  BY <1>7, <1>8, <1>9, <1>10 DEF ReplicaInv, AbstractStep, Abstract!Next

-----------------------------------------------------------------------------
LEMMA DisturbedStays == [Next]_rvars => (disturbed => disturbed')
BY DEF Next, rvars, Step, Deliver, Read, reconcilePrimary, reconcileStandby, UpdateStatus,
   FailoverBegin, FailoverRefused, demoteCluster, promoteCluster, repoint, Call, FailoverCommit,
   Crash, UserEdit, Settle

LEMMA UndisturbedStep ==
  ASSUME ReplicaInv, [Next]_rvars, ~disturbed'
  PROVE  ReplicaInv' /\ AbstractStep
<1>1. ASSUME NEW o \in Operator, Step(o) PROVE ReplicaInv' /\ AbstractStep
  <2>1. ASSUME NEW c \in Cluster, reconcileStandby(o, c) \/ repoint(o, c)
        PROVE  ReplicaInv' /\ AbstractStep
    BY <2>1, StandbyStep, RepointStep
  <2> QED
    BY <1>1, <2>1, ReadStep, PrimaryStep, UpdateStatusStep, FailoverBeginStep, RefusedStep,
       DemoteStep, PromoteStep, CommitStep DEF Step
<1>2. ASSUME NEW o \in Operator, Deliver(o) PROVE ReplicaInv' /\ AbstractStep
  BY <1>2, QuietStep DEF Deliver
<1>3. CASE Settle
  BY <1>3, QuietStep DEF Settle
<1>4. CASE UNCHANGED rvars
  BY <1>4, QuietStep DEF rvars
<1> QED
  BY <1>1, <1>2, <1>3, <1>4, CrashStep, UserEditStep DEF Next

LEMMA Undisturbed == Spec => [](disturbed \/ ReplicaInv)
<1>1. Init => disturbed \/ ReplicaInv
  BY ReplicaInit
<1>2. (disturbed \/ ReplicaInv) /\ [Next]_rvars => (disturbed \/ ReplicaInv)'
  BY DisturbedStays, UndisturbedStep
<1> QED
  BY <1>1, <1>2, PTL DEF Spec

\* For any number of operators with caches of any lag, calls that fail and crashes: while no
\* pass read a stale object or began beside another pass, at most one cluster is writable.
THEOREM OneWriterUntilDisturbedCorrect == Spec => []OneWriterUntilDisturbed
<1>1. ReplicaInv => OneWriter
  BY DEF ReplicaInv, ObjectInv, OneWriter
<1>2. disturbed \/ ReplicaInv => OneWriterUntilDisturbed
  BY <1>1 DEF OneWriterUntilDisturbed
<1> QED
  BY <1>2, Undisturbed, PTL

\* Until then every step of every operator is a step of the single-writer protocol.
THEOREM TopologyUntilDisturbedCorrect == Spec => TopologyUntilDisturbed
<1>1. Init => Abstract!Init
  BY ReplicaInit
<1>2. (disturbed \/ ReplicaInv) /\ [Next]_rvars
        => [disturbed' \/ Abstract!Next]_(Abstract!tvars)
  BY DisturbedStays, UndisturbedStep DEF AbstractStep
<1> QED
  BY <1>1, <1>2, Undisturbed, PTL DEF Spec, TopologyUntilDisturbed
=============================================================================
