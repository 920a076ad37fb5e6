--------------------------- MODULE ServingProofs ---------------------------
(***************************************************************************)
(* Proofs about Serving, for any number of calls, backends, instances,     *)
(* chunks and threads: who holds which lock, which models are in memory,   *)
(* and the safety properties that follow.                                  *)
(***************************************************************************)
EXTENDS Serving, TLAPS

Speech(r)    == Kind(r) \in {"batch", "stream", "session", "load"}
Dropping     == loop # Nobody /\ pc[loop] = "drop"
InBackend(r) == pc[r] \in {"thread", "lock", "infer", "over"}

(* Which requests can be where, and what is on the loop.                   *)
Control(r) ==
    /\ pc[r] = "new" => inst[r] = None /\ sent[r] = 0
    /\ pc[r] \in {"ready", "back"} => Pooled(r)
    /\ InBackend(r) => Pooled(r) \/ (Kind(r) = "batch" /\ loop = r)
    /\ pc[r] \in {"pop", "drop"} => loop = r /\ ~Speech(r)
    /\ loop = r => pc[r] \in {"pop", "drop"} \/ (Kind(r) = "batch" /\ InBackend(r))
    /\ (Kind(r) = "stream" /\ pc[r] \in {"lock", "infer"}) => sent[r] > 0
    /\ pc[r] = "lock" => HasLock(r)
    /\ inst[r] <= made

ControlInv == \A r \in Requests : Control(r)

(* The models in memory are those in the cache, and the one that is being  *)
(* unloaded; an instance is known under one name only.                     *)
CacheInv ==
    /\ live = ({cache[n] : n \in Names} \ {None})
              \cup (IF Dropping THEN {inst[loop]} ELSE {})
    /\ \A m, n \in Names : cache[m] = cache[n] /\ cache[m] # None => m = n
    /\ \A n \in Names : loaded[n] = 1 <=> cache[n] # None \/ (Dropping /\ victim = n)
    /\ todo \subseteq {n \in Names : cache[n] # None}
    /\ Dropping => /\ victim \in Names /\ inst[loop] # None
                   /\ \A n \in Names : cache[n] # inst[loop]
                   /\ cache[victim] = None

NameInv ==
    \A r \in Requests : (Speech(r) /\ inst[r] # None) =>
        /\ \A n \in Names : cache[n] = inst[r] => n = job[r].name
        /\ Dropping /\ inst[loop] = inst[r] => victim = job[r].name

(* A request that is in its inference, or whose stream is suspended inside *)
(* its "with", has the lock of its instance, and nobody else's model.      *)
Keeps(r) == \/ pc[r] = "infer" /\ HasLock(r)
            \/ Across(r) /\ pc[r] \in {"ready", "thread", "back"} /\ sent[r] > 1

LockInv ==
    /\ \A r \in Requests : Keeps(r) => inst[r] \in live /\ holder[inst[r]] = r
    /\ \A i \in Instances, r \in Requests : holder[i] = r => inst[r] = i /\ Keeps(r)

ActiveInv == \A r \in Requests :
    (Pooled(r) \/ Kind(r) = "batch") /\ pc[r] \notin {"new", "done"} => inst[r] # None

IInv == ServingTypeOK /\ ControlInv /\ CacheInv /\ NameInv /\ LockInv /\ ActiveInv
        /\ BatchKeepsItsModel

-----------------------------------------------------------------------------
LEMMA InitIInv == ServingInit => IInv
<1> SUFFICES ASSUME ServingInit PROVE IInv
  OBVIOUS
<1> USE NamesAssumption, NobodyAssumption, BoundsAssumption, JobsAssumption
<1>1. ServingTypeOK
  BY DEF ServingInit, ServingTypeOK, Instances, None
<1>2. ~Dropping
  BY DEF ServingInit, Dropping
<1>3. ControlInv /\ ActiveInv /\ BatchKeepsItsModel
  BY DEF ServingInit, ControlInv, Control, ActiveInv, BatchKeepsItsModel, InBackend, None
<1>4. CacheInv /\ NameInv
  BY <1>2 DEF ServingInit, CacheInv, NameInv, None
<1>5. LockInv
  BY DEF ServingInit, LockInv, Keeps
<1> QED BY <1>1, <1>3, <1>4, <1>5 DEF IInv

(* A step that leaves the cache and the loop alone.                        *)
LEMMA CacheUntouched ==
    ASSUME CacheInv, NameInv, UNCHANGED <<job, inst, lifecycle>>,
           Dropping' <=> Dropping, Dropping => loop' = loop
    PROVE  CacheInv' /\ NameInv'
<1>1. UNCHANGED <<todo, victim, cache, loaded, made, live>>
  BY DEF lifecycle
<1>2. CacheInv'
  BY <1>1 DEF CacheInv
<1>3. NameInv'
  BY <1>1 DEF NameInv, Speech, Kind
<1> QED BY <1>2, <1>3

(* What a request holds it alone gives back.                               *)
LEMMA ReleasedLocks ==
    ASSUME ServingTypeOK, NEW r \in Requests, holder' = Released(r)
    PROVE  /\ holder' \in [Instances -> Requests \cup {Nobody}]
           /\ \A i \in Instances : holder'[i] # r
           /\ \A i \in Instances : holder[i] # r => holder'[i] = holder[i]
           /\ \A i \in Instances : holder'[i] # Nobody => holder'[i] = holder[i]
BY NobodyAssumption DEF ServingTypeOK, Released

LEMMA LiveInstances ==
    ASSUME ServingTypeOK
    PROVE  live \subseteq Instances /\ None \notin live
<1>1. made \in Nat /\ made <= MaxInstances
  BY BoundsAssumption DEF ServingTypeOK
<1> QED BY <1>1, BoundsAssumption DEF ServingTypeOK, Instances, None

-----------------------------------------------------------------------------
(* The steps that change neither the cache nor the locks: of a task on the *)
(* loop or of a thread.                                                    *)
LEMMA QuietStep ==
    ASSUME IInv, NEW r \in Requests,
           StartFails(r) \/ Submit(r) \/ Resume(r) \/ Reply(r) \/ Header(r) \/ Enter(r)
           \/ EndUnload(r)
    PROVE  IInv'
<1> USE NobodyAssumption, NamesAssumption DEF IInv
<1>1. UNCHANGED <<job, inst, lifecycle, holder>>
      /\ UNCHANGED <<todo, victim, cache, loaded, made, live>>
  BY DEF StartFails, Submit, Resume, Reply, Header, Enter, EndUnload, lifecycle
<1>2. PICK l \in {"ready", "thread", "lock", "infer", "back", "over", "done"} : Goto(r, l)
  BY DEF StartFails, Submit, Resume, Reply, Header, Enter, EndUnload
<1>3. /\ pc' = [pc EXCEPT ![r] = l]
      /\ pc'[r] = l /\ \A s \in Requests : s # r => pc'[s] = pc[s]
  BY <1>2 DEF Goto, ServingTypeOK
<1>4. ServingTypeOK'
  BY <1>1, <1>3 DEF ServingTypeOK, StartFails, Submit, Resume, Reply, Header, Enter, EndUnload
<1>5. (Dropping' <=> Dropping) /\ (Dropping => loop' = loop)
  BY <1>3 DEF Dropping, ControlInv, Control, Pooled, Speech, InBackend, ServingTypeOK,
              StartFails, Submit, Resume, Reply, Header, Enter, EndUnload
<1>6. CacheInv' /\ NameInv'
  BY <1>1, <1>5, CacheUntouched
<1>7. ControlInv'
  <2> SUFFICES ASSUME NEW s \in Requests PROVE Control(s)'
    BY DEF ControlInv
  <2>1. CASE s = r
    BY <1>1, <1>3, <2>1
       DEF ControlInv, Control, ServingTypeOK, InBackend, Pooled, Kind, Speech, Begun, HasLock,
           StartFails, Submit, Resume, Reply, Header, Enter, EndUnload, Goto
  <2>2. CASE s # r
    BY <1>1, <1>3, <2>2
       DEF ControlInv, Control, ServingTypeOK, InBackend, Pooled, Kind, Speech, HasLock,
           StartFails, Submit, Resume, Reply, Header, Enter, EndUnload
  <2> QED BY <2>1, <2>2
<1>8. \A s \in Requests : Keeps(s)' <=> Keeps(s)
  <2> SUFFICES ASSUME NEW s \in Requests PROVE Keeps(s)' <=> Keeps(s)
    OBVIOUS
  <2> USE DEF Keeps, HasLock, Across, Kind
  <2>1. CASE s = r
    <3>1. sent' \in [Requests -> Nat] /\ sent \in [Requests -> Nat]
      BY <1>4 DEF ServingTypeOK
    <3>2. CASE StartFails(r) \/ Submit(r) \/ Resume(r) \/ Reply(r) \/ EndUnload(r)
      BY <1>1, <1>3, <2>1, <3>2
         DEF ControlInv, Control, StartFails, Submit, Resume, Reply, EndUnload, Goto, InBackend, Pooled
    <3>3. CASE Header(r)
      <4>1. sent[r] = 0 /\ sent'[r] = 1 /\ pc[r] = "thread" /\ pc'[r] = "back"
        BY <1>3, <3>1, <3>3 DEF Header, Goto, ServingTypeOK
      <4> QED BY <2>1, <4>1
    <3>4. CASE Enter(r)
      <4>1. /\ pc[r] = "thread" /\ sent'[r] = sent[r] /\ job' = job
            /\ pc'[r] \in {"infer", "over", "lock"}
            /\ Begun(r) => pc'[r] = "infer"
            /\ ~Begun(r) => (pc'[r] = "infer" => ~HasLock(r))
        BY <1>3, <3>4 DEF Enter, Goto, ServingTypeOK
      <4> QED BY <2>1, <4>1 DEF Begun
    <3> QED BY <3>2, <3>3, <3>4
  <2>2. CASE s # r
    BY <1>1, <1>3, <2>2
       DEF ServingTypeOK, Keeps, HasLock, Across, Kind,
           StartFails, Submit, Resume, Reply, Header, Enter, EndUnload
  <2> QED BY <2>1, <2>2
<1>9. LockInv'
  BY <1>1, <1>8 DEF LockInv, ServingTypeOK
<1>10. ActiveInv' /\ BatchKeepsItsModel'
  BY <1>1, <1>3 DEF ActiveInv, BatchKeepsItsModel, Pooled, Kind, ServingTypeOK, ControlInv, Control,
       StartFails, Submit, Resume, Reply, Header, Enter, EndUnload, Goto, InBackend
<1> QED BY <1>4, <1>6, <1>7, <1>9, <1>10

(* The steps that give back what a request holds.                          *)
LEMMA ReleaseStep ==
    ASSUME IInv, NEW r \in Requests,
           \/ Close(r) \/ Exhausted(r) \/ InferRaises(r)
           \/ Infer(r) /\ ~Across(r)
    PROVE  IInv'
<1> USE NobodyAssumption, NamesAssumption DEF IInv
<1>1. /\ UNCHANGED <<job, inst, loop, lifecycle>>
      /\ UNCHANGED <<todo, victim, cache, loaded, made, live>>
      /\ holder' = Released(r)
      /\ pc[r] \in {"ready", "thread", "infer"}
      /\ sent' = sent \/ sent' = [sent EXCEPT ![r] = @ + 1]
  BY DEF Close, Exhausted, InferRaises, Infer, lifecycle
<1>2. PICK l \in {"back", "over", "done"} : Goto(r, l)
  BY DEF Close, Exhausted, InferRaises, Infer
<1>3. /\ pc' = [pc EXCEPT ![r] = l]
      /\ pc'[r] = l /\ \A s \in Requests : s # r => pc'[s] = pc[s]
  BY <1>2 DEF Goto, ServingTypeOK
<1>4. /\ l = "back" => Pooled(r) /\ ~Across(r)
      /\ l = "over" => pc[r] \in {"thread", "infer"}
      /\ l = "done" => pc[r] = "ready"
  BY <1>1, <1>3 DEF Close, Exhausted, InferRaises, Infer, Goto, ControlInv, Control, InBackend, Pooled, ServingTypeOK
<1>5. /\ sent' \in [Requests -> Nat]
      /\ \A s \in Requests : s # r => sent'[s] = sent[s]
      /\ \A s \in Requests : sent'[s] >= sent[s]
  BY <1>1 DEF ServingTypeOK
<1>6. ServingTypeOK'
  BY <1>1, <1>3, <1>5, ReleasedLocks DEF ServingTypeOK
<1>7. Dropping' <=> Dropping
  BY <1>1, <1>3 DEF Dropping, ServingTypeOK
<1>8. CacheInv' /\ NameInv'
  BY <1>1, <1>7, CacheUntouched
<1>9. ControlInv'
  <2> SUFFICES ASSUME NEW s \in Requests PROVE Control(s)'
    BY DEF ControlInv
  <2>1. CASE s = r
    BY <1>1, <1>3, <1>4, <2>1 DEF ControlInv, Control, InBackend, Pooled, Kind, Speech, HasLock
  <2>2. CASE s # r
    BY <1>1, <1>3, <1>5, <2>2 DEF ControlInv, Control, InBackend, Pooled, Kind, Speech, HasLock
  <2> QED BY <2>1, <2>2
<1>10. LockInv'
  <2>1. ~Keeps(r)'
    BY <1>1, <1>3, <1>4 DEF Keeps, Across, Kind
  <2>2. \A s \in Requests : s # r => (Keeps(s)' <=> Keeps(s))
    BY <1>1, <1>3, <1>5 DEF Keeps, Across, Kind, HasLock
  <2>3. ASSUME NEW s \in Requests, Keeps(s)'
        PROVE  inst'[s] \in live' /\ holder'[inst'[s]] = s
    <3>1. s # r /\ inst[s] \in live /\ holder[inst[s]] = s
      BY <2>1, <2>2, <2>3 DEF LockInv
    <3>2. inst[s] \in Instances
      BY <3>1, LiveInstances
    <3> QED BY <1>1, <3>1, <3>2, ReleasedLocks
  <2>4. ASSUME NEW i \in Instances, NEW s \in Requests, holder'[i] = s
        PROVE  inst'[s] = i /\ Keeps(s)'
    <3>1. holder[i] = s /\ s # r
      BY <1>1, <2>4, ReleasedLocks
    <3> QED BY <1>1, <2>2, <3>1 DEF LockInv
  <2> QED BY <2>3, <2>4 DEF LockInv
<1>11. ActiveInv' /\ BatchKeepsItsModel'
  BY <1>1, <1>3, <1>4 DEF ActiveInv, BatchKeepsItsModel, Pooled, Kind, ServingTypeOK
<1> QED BY <1>6, <1>8, <1>9, <1>10, <1>11

(* The steps in which a stream that yields inside its "with" keeps the     *)
(* lock, and in which a lock is taken.                                     *)
LEMMA HoldStep ==
    ASSUME IInv, NEW r \in Requests,
           Acquire(r) \/ (Infer(r) /\ Across(r))
    PROVE  IInv'
<1> USE NobodyAssumption, NamesAssumption DEF IInv
<1>1. /\ UNCHANGED <<job, inst, loop, lifecycle>>
      /\ UNCHANGED <<todo, victim, cache, loaded, made, live>>
      /\ pc[r] \in {"lock", "infer"}
      /\ sent' = sent \/ sent' = [sent EXCEPT ![r] = @ + 1]
  BY DEF Acquire, Infer, lifecycle
<1>2. PICK l \in {"back", "over", "infer"} : Goto(r, l)
  BY DEF Acquire, Infer
<1>3. /\ pc' = [pc EXCEPT ![r] = l]
      /\ pc'[r] = l /\ \A s \in Requests : s # r => pc'[s] = pc[s]
  BY <1>2 DEF Goto, ServingTypeOK
<1>4. /\ sent' \in [Requests -> Nat]
      /\ \A s \in Requests : s # r => sent'[s] = sent[s]
      /\ \A s \in Requests : sent'[s] >= sent[s]
  BY <1>1 DEF ServingTypeOK
<1>5. inst[r] \in Instances
  <2>1. inst[r] # None
    BY <1>1 DEF ActiveInv, ControlInv, Control, InBackend, Pooled
  <2> QED BY <2>1 DEF ServingTypeOK
<1>6. /\ l = "infer" => /\ pc[r] = "lock" /\ inst[r] \in live
                        /\ holder[inst[r]] = Nobody /\ holder' = [holder EXCEPT ![inst[r]] = r]
      /\ l = "over" => pc[r] = "lock" /\ holder' = holder
      /\ l = "back" => Across(r) /\ pc[r] = "infer" /\ holder' = holder
                       /\ sent' = [sent EXCEPT ![r] = @ + 1]
  BY <1>3 DEF Acquire, Infer, Goto, Across, ServingTypeOK
<1>7. ServingTypeOK'
  <2>1. holder' \in [Instances -> Requests \cup {Nobody}]
    BY <1>3, <1>6 DEF ServingTypeOK
  <2> QED BY <1>1, <1>3, <1>4, <2>1 DEF ServingTypeOK
<1>8. Dropping' <=> Dropping
  BY <1>1, <1>3 DEF Dropping, ServingTypeOK
<1>9. CacheInv' /\ NameInv'
  BY <1>1, <1>8, CacheUntouched
<1>10. ControlInv'
  <2> SUFFICES ASSUME NEW s \in Requests PROVE Control(s)'
    BY DEF ControlInv
  <2>1. CASE s = r
    <3>1. sent'[r] >= sent[r] /\ sent[r] \in Nat /\ sent'[r] \in Nat
      BY <1>4 DEF ServingTypeOK
    <3>2. (Kind(r)' = "stream" /\ pc'[r] = "infer") => sent'[r] > 0
      BY <1>1, <1>3, <1>6, <3>1 DEF ControlInv, Control, Kind
    <3> QED BY <1>1, <1>3, <1>6, <2>1, <3>2 DEF ControlInv, Control, InBackend, Pooled, Kind, Speech, Across, HasLock
  <2>2. CASE s # r
    BY <1>1, <1>3, <1>4, <2>2 DEF ControlInv, Control, InBackend, Pooled, Kind, Speech, HasLock
  <2> QED BY <2>1, <2>2
<1>11. \A s \in Requests : s # r => (Keeps(s)' <=> Keeps(s))
  BY <1>1, <1>3, <1>4 DEF Keeps, Across, Kind, HasLock
<1>12. LockInv'
  <2>1. CASE l = "infer"
    <3>1. /\ holder'[inst[r]] = r
          /\ \A i \in Instances : i # inst[r] => holder'[i] = holder[i]
      BY <1>5, <1>6, <2>1 DEF ServingTypeOK
    <3>2. Keeps(r)'
      <4>1. HasLock(r)
        BY <1>1, <1>6, <2>1 DEF ControlInv, Control
      <4> QED BY <1>1, <1>3, <2>1, <4>1 DEF Keeps, HasLock
    <3>3. ASSUME NEW s \in Requests, Keeps(s)'
          PROVE  inst'[s] \in live' /\ holder'[inst'[s]] = s
      <4>1. CASE s = r
        BY <1>1, <1>6, <2>1, <3>1, <4>1
      <4>2. CASE s # r
        <5>1. inst[s] \in live /\ holder[inst[s]] = s
          BY <1>11, <3>3, <4>2 DEF LockInv
        <5>2. inst[s] \in Instances /\ inst[s] # inst[r]
          BY <1>6, <2>1, <5>1, LiveInstances
        <5> QED BY <1>1, <3>1, <5>1, <5>2
      <4> QED BY <4>1, <4>2
    <3>4. ASSUME NEW i \in Instances, NEW s \in Requests, holder'[i] = s
          PROVE  inst'[s] = i /\ Keeps(s)'
      <4>1. CASE i = inst[r]
        BY <1>1, <3>1, <3>2, <3>4, <4>1
      <4>2. CASE i # inst[r]
        <5>1. holder[i] = s
          BY <3>1, <3>4, <4>2
        <5>2. inst[s] = i /\ Keeps(s) /\ s # r
          BY <4>2, <5>1 DEF LockInv
        <5> QED BY <1>1, <1>11, <5>2
      <4> QED BY <4>1, <4>2
    <3> QED BY <3>3, <3>4 DEF LockInv
  <2>2. CASE l # "infer"
    <3>1. holder' = holder
      BY <1>6, <2>2
    <3>2. Keeps(r)' <=> Keeps(r)
      <4>1. CASE l = "over"
        BY <1>3, <1>6, <4>1 DEF Keeps
      <4>2. CASE l = "back"
        <5>1. Across(r) /\ Across(r)' /\ HasLock(r) /\ pc[r] = "infer"
          BY <1>1, <1>6, <4>2 DEF Across, Kind, HasLock
        <5>2. sent[r] \in Nat /\ sent[r] > 0 /\ sent'[r] = sent[r] + 1
          BY <1>6, <4>2, <5>1 DEF ControlInv, Control, ServingTypeOK, Across
        <5> QED BY <1>3, <4>2, <5>1, <5>2 DEF Keeps
      <4> QED BY <2>2, <4>1, <4>2
    <3> QED BY <1>1, <1>11, <3>1, <3>2 DEF LockInv
  <2> QED BY <2>1, <2>2
<1>13. ActiveInv' /\ BatchKeepsItsModel'
  BY <1>1, <1>3, <1>6 DEF ActiveInv, BatchKeepsItsModel, Pooled, Kind, ServingTypeOK
<1> QED BY <1>7, <1>9, <1>10, <1>12, <1>13

Starts(r) == SynthesizeSpeech(r) \/ SamplePreset(r) \/ LoadBackend(r)

(* A handler finds or makes its backend.                                   *)
LEMMA StartStep ==
    ASSUME IInv, NEW r \in Requests, Starts(r)
    PROVE  IInv'
<1> USE NobodyAssumption, NamesAssumption, BoundsAssumption DEF IInv
<1> DEFINE n == job[r].name
<1>1. /\ n \in Names /\ Speech(r) /\ Kind(r) \in {"batch", "stream", "session", "load"}
  BY JobsAssumption DEF Starts, SynthesizeSpeech, SamplePreset, LoadBackend, Ensured, Speech, Kind, ServingTypeOK
<1>2. /\ UNCHANGED <<job, sent, todo, victim, holder>>
      /\ loop = Nobody /\ pc[r] = "new" /\ inst[r] = None /\ sent[r] = 0
      /\ ~Dropping
  BY DEF Starts, SynthesizeSpeech, SamplePreset, LoadBackend, Ensured, ControlInv, Control, Dropping
<1>3. PICK l \in {"thread", "done", "ready"} :
        /\ pc' = [pc EXCEPT ![r] = l]
        /\ l = "thread" <=> Kind(r) = "batch"
        /\ l = "ready" => Pooled(r)
        /\ loop' = IF l = "thread" THEN r ELSE Nobody
  BY <1>1 DEF Starts, SynthesizeSpeech, SamplePreset, LoadBackend, Ensured, Goto, Pooled
<1>4. pc'[r] = l /\ \A s \in Requests : s # r => pc'[s] = pc[s]
  BY <1>3 DEF ServingTypeOK
<1>5. ~Dropping'
  BY <1>3, <1>4 DEF Dropping
<1>6. PICK i \in Instances :
        /\ inst' = [inst EXCEPT ![r] = i] /\ i \in live'
        /\ \/ cache[n] = i /\ UNCHANGED <<cache, loaded, made, live>>
           \/ /\ cache[n] = None /\ made < MaxInstances /\ i = made + 1 /\ made' = i
              /\ live' = live \cup {i}
              /\ cache' = [cache EXCEPT ![n] = i]
              /\ loaded' = [loaded EXCEPT ![n] = 1]
  <2>1. CASE cache[n] # None
    <3>1. cache[n] \in Instances /\ cache[n] \in live
      BY <1>1, <2>1 DEF ServingTypeOK, CacheInv
    <3> QED BY <2>1, <3>1 DEF Starts, SynthesizeSpeech, SamplePreset, LoadBackend, Ensured, EnsureBackend
  <2>2. CASE cache[n] = None
    <3>1. made + 1 \in Instances
      BY <2>2 DEF Starts, SynthesizeSpeech, SamplePreset, LoadBackend, Ensured, EnsureBackend, ServingTypeOK, Instances
    <3> QED BY <2>2, <3>1 DEF Starts, SynthesizeSpeech, SamplePreset, LoadBackend, Ensured, EnsureBackend
  <2> QED BY <2>1, <2>2
<1>7. /\ inst'[r] = i /\ \A s \in Requests : s # r => inst'[s] = inst[s]
      /\ i # None /\ i \in Nat /\ made \in Nat /\ made' \in Nat /\ made <= made' /\ i <= made'
      /\ live \subseteq live' /\ made' <= MaxInstances
  <2>1. made \in Nat /\ made <= MaxInstances /\ i \in Nat /\ i # None
    BY DEF ServingTypeOK, Instances, None
  <2>2. cache[n] = i => i \in live
    BY <1>1, <2>1 DEF CacheInv
  <2> QED BY <1>6, <2>1, <2>2 DEF ServingTypeOK
<1>8. ServingTypeOK'
  <2>1. live' \subseteq 1 .. made' /\ made' \in 0 .. MaxInstances
    <3>1. made' \in 0 .. MaxInstances
      BY <1>7
    <3>2. i \in 1 .. made'
      BY <1>7 DEF None
    <3>3. live' \subseteq live \cup {i}
      BY <1>6
    <3>4. live \subseteq 1 .. made'
      BY <1>7 DEF ServingTypeOK
    <3> QED BY <3>1, <3>2, <3>3, <3>4
  <2>2. cache' \in [Names -> {None} \cup Instances] /\ loaded' \in [Names -> 0 .. 1]
        /\ inst' \in [Requests -> {None} \cup Instances]
    BY <1>1, <1>6 DEF ServingTypeOK
  <2> QED BY <1>2, <1>3, <2>1, <2>2 DEF ServingTypeOK
<1>9. ControlInv'
  <2> SUFFICES ASSUME NEW s \in Requests PROVE Control(s)'
    BY DEF ControlInv
  <2>1. CASE s = r
    BY <1>1, <1>2, <1>3, <1>4, <1>7, <2>1
       DEF Control, InBackend, Pooled, Kind, Speech, HasLock
  <2>2. CASE s # r
    <3>1. inst[s] <= made /\ inst[s] \in Nat
      BY DEF ControlInv, Control, ServingTypeOK, None, Instances
    <3> QED BY <1>2, <1>3, <1>4, <1>7, <2>2, <3>1
            DEF ControlInv, Control, InBackend, Pooled, Kind, Speech, HasLock
  <2> QED BY <2>1, <2>2
<1>10. CacheInv'
  <2>1. CASE cache[n] = i /\ UNCHANGED <<cache, loaded, made, live>>
    BY <1>2, <1>5, <2>1 DEF CacheInv
  <2>2. CASE /\ cache[n] = None /\ i = made + 1 /\ live' = live \cup {i}
             /\ cache' = [cache EXCEPT ![n] = i] /\ loaded' = [loaded EXCEPT ![n] = 1]
    <3>1. /\ live = {cache[m] : m \in Names} \ {None}
          /\ \A m \in Names : cache[m] # None => cache[m] \in live
      BY <1>2 DEF CacheInv
    <3>2. i \notin live
      BY <1>7, <2>2 DEF ServingTypeOK
    <3>3. /\ cache'[n] = i /\ \A m \in Names : m # n => cache'[m] = cache[m] /\ cache[m] # i
          /\ loaded'[n] = 1 /\ \A m \in Names : m # n => loaded'[m] = loaded[m]
      BY <1>1, <1>7, <2>2, <3>1, <3>2 DEF ServingTypeOK
    <3>4. live' = {cache'[m] : m \in Names} \ {None}
      BY <1>1, <1>7, <2>2, <3>1, <3>3
    <3>5. \A m, k \in Names : cache'[m] = cache'[k] /\ cache'[m] # None => m = k
      BY <3>3 DEF CacheInv
    <3>6. \A m \in Names : loaded'[m] = 1 <=> cache'[m] # None
      BY <1>2, <1>7, <3>3 DEF CacheInv
    <3>7. todo' \subseteq {m \in Names : cache'[m] # None}
      BY <1>2, <1>7, <3>3 DEF CacheInv
    <3> QED BY <1>5, <3>4, <3>5, <3>6, <3>7 DEF CacheInv
  <2> QED BY <1>6, <2>1, <2>2
<1>11. NameInv'
  <2> SUFFICES ASSUME NEW s \in Requests, Speech(s), inst'[s] # None,
                      NEW m \in Names, cache'[m] = inst'[s]
               PROVE  m = job[s].name
    BY <1>2, <1>5 DEF NameInv, Speech, Kind
  <2>1. CASE s = r
    <3>1. cache'[n] = i
      BY <1>1, <1>6 DEF ServingTypeOK
    <3> QED BY <1>7, <1>10, <2>1, <3>1, <1>1 DEF CacheInv
  <2>2. CASE s # r
    <3>1. inst'[s] = inst[s] /\ inst[s] <= made /\ inst[s] \in Nat
      BY <1>7, <2>2 DEF ControlInv, Control, ServingTypeOK, Instances, None
    <3>2. cache[m] = inst[s]
      BY <1>1, <1>6, <1>7, <3>1 DEF ServingTypeOK
    <3> QED BY <3>1, <3>2 DEF NameInv
  <2> QED BY <2>1, <2>2
<1>12. LockInv'
  <2>1. ~Keeps(r) /\ ~Keeps(r)'
    BY <1>2, <1>3, <1>4 DEF Keeps
  <2>2. \A s \in Requests : s # r => (Keeps(s)' <=> Keeps(s))
    BY <1>2, <1>4 DEF Keeps, HasLock, Across, Kind
  <2> QED BY <1>2, <1>7, <2>1, <2>2 DEF LockInv
<1>13. ActiveInv' /\ BatchKeepsItsModel'
  BY <1>2, <1>3, <1>4, <1>6, <1>7 DEF ActiveInv, BatchKeepsItsModel, Pooled, Kind
<1> QED BY <1>8, <1>9, <1>10, <1>11, <1>12, <1>13

Unloads(r) == UnloadBackend(r) \/ UnloadAll(r)

(* The steps of the unload endpoints.                                      *)
LEMMA UnloadStep ==
    ASSUME IInv, NEW r \in Requests, Unloads(r) \/ Pop(r) \/ Drop(r)
    PROVE  IInv'
<1> USE NobodyAssumption, NamesAssumption, BoundsAssumption DEF IInv
<1>1. /\ UNCHANGED <<job, sent, made, holder>> /\ loop' = r
      /\ ~Speech(r) /\ pc[r] \in {"new", "pop", "drop"}
      /\ loop = r \/ loop = Nobody
  BY DEF Unloads, UnloadBackend, UnloadAll, StartUnload, Pop, Drop, Speech, ControlInv, Control
<1>2. PICK l \in {"pop", "drop"} : pc' = [pc EXCEPT ![r] = l]
  BY DEF Unloads, UnloadBackend, UnloadAll, StartUnload, Pop, Drop, Goto
<1>3. pc'[r] = l /\ \A s \in Requests : s # r => pc'[s] = pc[s]
  BY <1>2 DEF ServingTypeOK
<1>4. /\ inst' \in [Requests -> {None} \cup Instances]
      /\ \A s \in Requests : s # r => inst'[s] = inst[s]
      /\ inst'[r] = inst[r] \/ (\E n \in Names : cache[n] # None /\ inst'[r] = cache[n])
  BY DEF Unloads, UnloadBackend, UnloadAll, StartUnload, Pop, Drop, ServingTypeOK, CacheInv
<1>5. ServingTypeOK'
  <2>1. CASE Unloads(r)
    <3>1. todo' \subseteq Names
      <4>1. job[r].name \in Names
        BY JobsAssumption DEF ServingTypeOK
      <4> QED BY <2>1, <4>1 DEF Unloads, UnloadBackend, UnloadAll, StartUnload
    <3>2. UNCHANGED <<inst, victim, cache, loaded, live>>
      BY <2>1 DEF Unloads, UnloadBackend, UnloadAll, StartUnload
    <3> QED BY <1>1, <1>2, <3>1, <3>2 DEF ServingTypeOK
  <2>2. CASE Pop(r)
    BY <1>1, <1>2, <1>4, <2>2 DEF Pop, ServingTypeOK
  <2>3. CASE Drop(r)
    <3>1. loaded' \in [Names -> 0 .. 1] /\ live' \subseteq 1 .. made
      <4>1. loaded' = [loaded EXCEPT ![victim] = 0] /\ live' = live \ {inst[r]}
        BY <2>3 DEF Drop
      <4>2. loaded' \in [Names -> 0 .. 1]
        <5>1. loaded \in [Names -> 0 .. 1] /\ 0 \in 0 .. 1
          BY DEF ServingTypeOK
        <5> QED BY <4>1, <5>1
      <4> QED BY <4>1, <4>2 DEF ServingTypeOK
    <3>2. UNCHANGED <<inst, todo, cache>> /\ victim' = NoName
      BY <2>3 DEF Drop
    <3>3. pc' \in [Requests -> {"new", "ready", "thread", "lock", "infer", "back",
                               "over", "pop", "drop", "done"}]
      BY <1>2 DEF ServingTypeOK
    <3> QED BY <1>1, <3>1, <3>2, <3>3 DEF ServingTypeOK
  <2> QED BY <2>1, <2>2, <2>3
<1>6. ControlInv'
  <2> SUFFICES ASSUME NEW s \in Requests PROVE Control(s)'
    BY DEF ControlInv
  <2>1. CASE s = r
    <3>1. inst'[r] <= made
      <4>1. \A n \in Names : cache[n] # None => cache[n] <= made
        BY DEF CacheInv, ServingTypeOK
      <4> QED BY <1>4, <4>1 DEF ControlInv, Control
    <3> QED BY <1>1, <1>3, <2>1, <3>1 DEF Control, InBackend, Pooled, Kind, Speech
  <2>2. CASE s # r
    BY <1>1, <1>3, <1>4, <2>2 DEF ControlInv, Control, InBackend, Pooled, Kind, Speech, HasLock
  <2> QED BY <2>1, <2>2
<1>7. \A s \in Requests : (Keeps(s)' <=> Keeps(s)) /\ (Keeps(s) => s # r)
  BY <1>1, <1>3 DEF Keeps, HasLock, Across, Kind, Speech
<1>8. ActiveInv'
  BY <1>1, <1>3, <1>4 DEF ActiveInv, Pooled, Kind, Speech
<1>9. CASE Unloads(r)
  <2>1. ~Dropping /\ ~Dropping'
    BY <1>1, <1>3, <1>9 DEF Unloads, UnloadBackend, UnloadAll, StartUnload, Dropping, Goto, ServingTypeOK
  <2>2. UNCHANGED <<inst, victim, cache, loaded, live>>
        /\ todo' \subseteq {n \in Names : cache[n] # None}
    BY <1>9, JobsAssumption DEF Unloads, UnloadBackend, UnloadAll, StartUnload, ServingTypeOK
  <2>3. CacheInv' /\ NameInv'
    BY <1>1, <2>1, <2>2 DEF CacheInv, NameInv, Speech, Kind
  <2>4. LockInv' /\ BatchKeepsItsModel'
    BY <1>1, <1>3, <1>7, <2>2 DEF LockInv, BatchKeepsItsModel, Kind, Speech
  <2> QED BY <1>5, <1>6, <1>8, <2>3, <2>4
<1>10. CASE Pop(r)
  <2>1. PICK n \in todo : /\ victim' = n /\ todo' = todo \ {n}
                          /\ inst' = [inst EXCEPT ![r] = cache[n]]
                          /\ cache' = [cache EXCEPT ![n] = None]
    BY <1>10 DEF Pop
  <2>2. /\ ~Dropping /\ Dropping' /\ loop' = r /\ pc[r] = "pop"
        /\ UNCHANGED <<loaded, live>>
    BY <1>1, <1>3, <1>10 DEF Pop, Dropping, Goto, ServingTypeOK
  <2>3. /\ n \in Names /\ cache[n] # None /\ inst'[r] = cache[n]
        /\ cache'[n] = None /\ \A m \in Names : m # n => cache'[m] = cache[m]
    BY <2>1 DEF CacheInv, ServingTypeOK
  <2>4. CacheInv'
    <3>1. live' = ({cache'[m] : m \in Names} \ {None}) \cup {inst'[r]}
      BY <2>2, <2>3 DEF CacheInv
    <3>2. \A m, k \in Names : cache'[m] = cache'[k] /\ cache'[m] # None => m = k
      BY <2>3 DEF CacheInv
    <3>3. \A m \in Names : loaded'[m] = 1 <=> cache'[m] # None \/ victim' = m
      BY <2>1, <2>2, <2>3 DEF CacheInv
    <3>4. todo' \subseteq {m \in Names : cache'[m] # None}
      BY <2>1, <2>3 DEF CacheInv
    <3>5. \A m \in Names : cache'[m] # inst'[r]
      BY <2>3 DEF CacheInv
    <3> QED BY <2>1, <2>2, <2>3, <3>1, <3>2, <3>3, <3>4, <3>5 DEF CacheInv
  <2>5. NameInv'
    <3> SUFFICES ASSUME NEW s \in Requests, Speech(s), inst'[s] # None
                 PROVE  /\ \A m \in Names : cache'[m] = inst'[s] => m = job[s].name
                        /\ inst'[r] = inst'[s] => n = job[s].name
      BY <1>1, <2>1, <2>2 DEF NameInv, Speech, Kind
    <3>1. s # r /\ inst'[s] = inst[s]
      BY <1>1, <1>4
    <3> QED BY <2>3, <3>1 DEF NameInv
  <2>6. LockInv' /\ BatchKeepsItsModel'
    BY <1>1, <1>3, <1>4, <1>7, <2>2 DEF LockInv, BatchKeepsItsModel, Kind, Speech
  <2> QED BY <1>5, <1>6, <1>8, <2>4, <2>5, <2>6
<1>11. CASE Drop(r)
  <2>1. /\ Dropping /\ ~Dropping' /\ loop = r /\ pc[r] = "drop"
        /\ victim \in Locked => holder[inst[r]] = Nobody
        /\ live' = live \ {inst[r]} /\ loaded' = [loaded EXCEPT ![victim] = 0]
        /\ UNCHANGED <<inst, cache, todo>>
    BY <1>1, <1>3, <1>11 DEF Drop, Dropping, Goto, ServingTypeOK
  <2>2. CacheInv'
    <3>1. live' = {cache[m] : m \in Names} \ {None}
      BY <2>1 DEF CacheInv
    <3>2. \A m \in Names : loaded'[m] = 1 <=> cache[m] # None
      BY <2>1 DEF CacheInv, ServingTypeOK
    <3> QED BY <2>1, <3>1, <3>2 DEF CacheInv
  <2>3. NameInv'
    BY <1>1, <2>1 DEF NameInv, Speech, Kind
  <2>4. ASSUME NEW s \in Requests, Keeps(s)
        PROVE  inst[s] # inst[r]
    <3>1. HasLock(s) /\ Speech(s) /\ inst[s] \in live /\ holder[inst[s]] = s
      BY <2>4 DEF Keeps, LockInv, HasLock, Across, Speech, Kind, ControlInv, Control, InBackend, Pooled
    <3>2. CASE victim \in Locked
      BY <2>1, <3>1, <3>2
    <3>3. CASE victim \notin Locked
      BY <2>1, <3>1, <3>3, LiveInstances DEF NameInv, HasLock
    <3> QED BY <3>2, <3>3
  <2>5. LockInv'
    BY <1>1, <1>7, <2>1, <2>4 DEF LockInv
  <2>6. BatchKeepsItsModel'
    <3>1. \A s \in Requests : ~(Kind(s) = "batch" /\ pc'[s] \in {"thread", "lock", "infer"})
      BY <1>1, <1>3, <2>1 DEF ControlInv, Control, InBackend, Pooled, Speech
    <3> QED BY <1>1, <3>1 DEF BatchKeepsItsModel, Kind
  <2> QED BY <1>5, <1>6, <1>8, <2>2, <2>3, <2>5, <2>6
<1> QED BY <1>9, <1>10, <1>11

LEMMA StepIInv == IInv /\ [ServingNext]_servingVars => IInv'
<1> SUFFICES ASSUME IInv, [ServingNext]_servingVars PROVE IInv'
  OBVIOUS
<1>1. ASSUME NEW r \in Requests, OnLoop(r) \/ InThread(r) PROVE IInv'
  BY <1>1, QuietStep, ReleaseStep, HoldStep, StartStep, UnloadStep
     DEF OnLoop, InThread, Starts, Unloads
<1>2. CASE UNCHANGED servingVars
  <2>1. UNCHANGED <<job, pc, inst, sent, loop, lifecycle, holder>>
        /\ UNCHANGED <<todo, victim, cache, loaded, made, live>>
    BY <1>2 DEF servingVars, lifecycle
  <2>2. CacheInv' /\ NameInv'
    BY <2>1, CacheUntouched DEF IInv, Dropping
  <2> QED BY <2>1, <2>2
          DEF IInv, ServingTypeOK, ControlInv, Control, LockInv, ActiveInv, BatchKeepsItsModel,
              Keeps, HasLock, Across, Pooled, Kind, Speech, InBackend
<1> QED BY <1>1, <1>2 DEF ServingNext

-----------------------------------------------------------------------------
(* The theorems.                                                           *)

(* The invariant holds whatever is asked of the server.                    *)
THEOREM ServingInvariant == ServingSpec => []IInv
BY InitIInv, StepIInv, PTL DEF ServingSpec

(* Every variable keeps its type; no instance is live that was not made.   *)
THEOREM TypeCorrect == ServingSpec => []ServingTypeOK
BY ServingInvariant, PTL DEF IInv

(* Inference on an instance that has a lock is serialized, from the loop   *)
(* and from the threads alike, and whatever streams keep the lock.         *)
THEOREM InferenceSerialized == ServingSpec => []Serialized
<1>1. IInv => Serialized
  <2> SUFFICES ASSUME IInv, NEW r \in Requests, NEW s \in Requests,
                      pc[r] = "infer", pc[s] = "infer", HasLock(r), inst[r] = inst[s]
               PROVE  r = s
    BY DEF Serialized
  <2> USE DEF IInv
  <2>1. inst[r] \in live /\ holder[inst[r]] = r /\ inst[r] # None
    BY LiveInstances DEF LockInv, Keeps
  <2>2. Speech(r) /\ Speech(s)
    BY DEF ControlInv, Control, InBackend, Pooled, Speech
  <2>3. job[s].name = job[r].name
    <3>1. CASE Dropping /\ inst[loop] = inst[r]
      BY <2>1, <2>2, <3>1 DEF NameInv
    <3>2. CASE \E n \in Names : cache[n] = inst[r]
      BY <2>1, <2>2, <3>2 DEF NameInv
    <3> QED BY <2>1, <3>1, <3>2 DEF CacheInv
  <2>4. Keeps(s)
    BY <2>3 DEF Keeps, HasLock
  <2> QED BY <2>1, <2>4 DEF LockInv
<1> QED BY <1>1, ServingInvariant, PTL

(* No unload takes the model from under an inference.                      *)
THEOREM ModelStaysForInference == ServingSpec => []InferenceHasModel
<1>1. IInv => InferenceHasModel
  BY DEF IInv, LockInv, Keeps, InferenceHasModel
<1> QED BY <1>1, ServingInvariant, PTL

(* A lock is held only by a request that will give it back.                *)
THEOREM LocksAreReturned == ServingSpec => []LockIsReturned
<1>1. IInv => LockIsReturned
  BY DEF IInv, ServingTypeOK, LockInv, Keeps, LockIsReturned
<1> QED BY <1>1, ServingInvariant, PTL

(* A batch call never loses the backend it has just ensured.               *)
THEOREM BatchModelStays == ServingSpec => []BatchKeepsItsModel
BY ServingInvariant, PTL DEF IInv

(* Whenever a handler can look, cache, memory and gauge agree.             *)
THEOREM CacheHonest == ServingSpec => []CacheIsHonest
<1>1. IInv => CacheIsHonest
  BY DEF IInv, CacheInv, Dropping, CacheIsHonest
<1> QED BY <1>1, ServingInvariant, PTL

=============================================================================
