-------------------------- MODULE SubprocessProofs --------------------------
(***************************************************************************)
(* Proofs about the subprocess backends, for every number of backends,     *)
(* ports, calls, spawns and samples.                                       *)
(*                                                                         *)
(* That a call is answered by its own child rests on the event loop: there *)
(* is one load at a time, so a port that was free when it was picked is    *)
(* bound by no other child until its own has bound it; and the address a   *)
(* call has read is that of its instance until the instance is unloaded.   *)
(***************************************************************************)
EXTENDS SubprocessChild, TLAPS

(* There is at most one load, and no instance is both loading and cached.  *)
OneLoad == /\ \A i, j \in loading : i = j
           /\ loading \cap cached = {}

(* The instances with a child are those in the cache or being loaded, and  *)
(* they are those with a port.                                             *)
Ownership == /\ proc = loading \cup cached
             /\ \A i \in Children : port[i] # Unset <=> i \in proc

(* Only the child of the load in progress has not bound its port; a live   *)
(* child has bound the port its instance calls it by, or none; a cached    *)
(* instance whose child nobody saw crash has a child that has bound it.    *)
Binding == /\ \A i \in Children : child[i] = "boot" => i \in loading /\ bound[i] = Unset
           /\ \A i \in Children : Alive(i) => bound[i] \in {Unset, port[i]}
           /\ \A i \in cached \ crashed : Alive(i) /\ bound[i] = port[i]
           /\ \A i \in Children : (child[i] = "none" \/ i > spawned)
                                    => bound[i] = Unset /\ i \notin crashed /\ child[i] = "none"

(* No two live children are bound to one port, nor is one bound to the     *)
(* port of a load in progress unless it is the load's own.                 *)
Exclusive == \A i, j \in Children :
    (i # j /\ Alive(i) /\ bound[i] # Unset) =>
        /\ (Alive(j) => bound[j] # bound[i])
        /\ (j \in loading => port[j] # bound[i])

(* The instance of a call has been loaded, and the address the call has    *)
(* read is the instance's as long as the instance has one.                 *)
Given == \A c \in Calls :
    /\ stage[c] # "new" => of[c] \in (1 .. spawned) \ loading
    /\ stage[c] = "connect" => port[of[c]] \in {url[c], Unset}

IInv == /\ ChildTypeOK /\ NoOrphans /\ SamplesAreWhole /\ AnswerIsComplete /\ OwnChildAnswers
        /\ OneLoad /\ Ownership /\ Binding /\ Exclusive /\ Given

Instances == NoOrphans /\ OneLoad /\ Ownership /\ Binding /\ Exclusive

-----------------------------------------------------------------------------
LEMMA InitIInv == ChildInit => IInv
<1> SUFFICES ASSUME ChildInit PROVE IInv
  OBVIOUS
<1> USE UnsetAssumption, ChildAssumption DEF ChildInit
<1>1. ChildTypeOK
  BY DEF ChildTypeOK, Children, NoChild, SampleBytes, Over
<1>2. Instances
  BY DEF Instances, NoOrphans, OneLoad, Ownership, Binding, Exclusive, Alive, Children
<1>3. SamplesAreWhole /\ AnswerIsComplete /\ OwnChildAnswers /\ Given
  BY DEF SamplesAreWhole, AnswerIsComplete, OwnChildAnswers, Given, SampleBytes
<1> QED BY <1>1, <1>2, <1>3 DEF IInv, Instances

(* A step of the event loop or of a child leaves the calls as they were,   *)
(* and no instance that was loaded is loading again, nor is its port       *)
(* another than it was.                                                    *)
LEMMA CallsUntouched ==
    ASSUME IInv, UNCHANGED calls, crashed \subseteq crashed',
           spawned' \in Nat, spawned <= spawned',
           loading' \cap (1 .. spawned) \subseteq loading,
           proc' \cap (1 .. spawned) \subseteq proc,
           \A i \in 1 .. spawned : port'[i] \in {port[i], Unset}
    PROVE  SamplesAreWhole' /\ AnswerIsComplete' /\ OwnChildAnswers' /\ Given'
<1>1. UNCHANGED <<stage, of, url, peer, written, whole, unread, rest, got>>
  BY DEF calls, body
<1>2. SamplesAreWhole' /\ AnswerIsComplete' /\ OwnChildAnswers'
  <2>1. SamplesAreWhole' /\ AnswerIsComplete'
    BY <1>1 DEF IInv, SamplesAreWhole, AnswerIsComplete
  <2>2. OwnChildAnswers'
    BY <1>1 DEF IInv, OwnChildAnswers, Given
  <2> QED BY <2>1, <2>2
<1>3. Given'
  <2>1. SUFFICES ASSUME NEW c \in Calls, stage[c] # "new"
                 PROVE  /\ of[c] \in (1 .. spawned') \ loading'
                        /\ stage[c] = "connect" => port'[of[c]] \in {url[c], Unset}
    BY <1>1 DEF Given
  <2>2. of[c] \in (1 .. spawned) \ loading
    BY <2>1 DEF IInv, Given
  <2>3. of[c] \in (1 .. spawned') \ loading'
    BY <2>2 DEF IInv, ChildTypeOK
  <2>4. stage[c] = "connect" => port'[of[c]] \in {url[c], Unset}
    BY <2>1, <2>2 DEF IInv, Given
  <2> QED BY <2>3, <2>4
<1> QED BY <1>2, <1>3

(* A step of a call leaves the instances and their children as they were.  *)
LEMMA InstancesUntouched ==
    ASSUME IInv, UNCHANGED <<parent, world>>
    PROVE  Instances'
<1>1. UNCHANGED <<spawned, name, proc, port, loading, cached,
                  child, bound, foreign, crashed>>
  BY DEF parent, world
<1> QED BY <1>1 DEF IInv, Instances, NoOrphans, OneLoad, Ownership, Binding,
                    Exclusive, Alive

-----------------------------------------------------------------------------
(* The event loop.                                                         *)

LEMMA LoadStep ==
    ASSUME IInv, NEW n \in Backends, NEW p \in Ports, Load(n, p)
    PROVE  IInv'
<1> USE UnsetAssumption, ChildAssumption
<1>0. PICK i \in Children : i = spawned + 1
  BY DEF Load, Spawn, IInv, ChildTypeOK, Children
<1>1. /\ loading = {} /\ i \notin 1 .. spawned
      /\ spawned \in Nat /\ proc \subseteq 1 .. spawned /\ cached \subseteq proc
  BY <1>0 DEF Load, Spawn, IInv, ChildTypeOK
<1>2. /\ Free(p) /\ spawned' = i
      /\ name' = [name EXCEPT ![i] = n] /\ proc' = proc \cup {i}
      /\ port' = [port EXCEPT ![i] = p] /\ child' = [child EXCEPT ![i] = "boot"]
      /\ loading' = {i}
      /\ UNCHANGED <<bound, foreign, crashed, cached, calls>>
  BY <1>0, <1>1 DEF Load, Spawn
<1>3. bound[i] = Unset /\ child[i] = "none" /\ i \notin crashed
  BY <1>0, <1>1 DEF IInv, Binding
<1>4. \A j \in Children \ {i} :
         child'[j] = child[j] /\ port'[j] = port[j] /\ (Alive(j)' <=> Alive(j))
  BY <1>2 DEF IInv, ChildTypeOK, Alive
<1>5. child'[i] = "boot" /\ port'[i] = p /\ Alive(i)'
  BY <1>2 DEF IInv, ChildTypeOK, Alive
<1>6. \A j \in Children : Alive(j) => bound[j] # p
  BY <1>2 DEF Free, Bound
<1>7. ChildTypeOK'
  <2>1. spawned' \in 0 .. MaxSpawns /\ proc' \subseteq 1 .. spawned'
    BY <1>0, <1>1, <1>2 DEF Children
  <2> QED BY <2>1, <1>1, <1>2 DEF IInv, ChildTypeOK, calls, body
<1>8. NoOrphans' /\ OneLoad' /\ Ownership'
  <2>1. NoOrphans'
    BY <1>1, <1>2, <1>4 DEF IInv, NoOrphans
  <2>2. OneLoad'
    BY <1>1, <1>2 DEF OneLoad
  <2>3. Ownership'
    BY <1>1, <1>2, <1>4, <1>5 DEF IInv, Ownership
  <2> QED BY <2>1, <2>2, <2>3
<1>9. Binding'
  <2>1. (\A j \in Children : child[j] = "boot" => j \in loading /\ bound[j] = Unset)'
    BY <1>1, <1>2, <1>3, <1>4 DEF IInv, Binding
  <2>2. (\A j \in Children : Alive(j) => bound[j] \in {Unset, port[j]})'
    BY <1>2, <1>3, <1>4 DEF IInv, Binding
  <2>3. (\A j \in cached \ crashed : Alive(j) /\ bound[j] = port[j])'
    <3>1. \A j \in cached : j \in Children \ {i}
      BY <1>1 DEF Children, IInv, ChildTypeOK
    <3> QED BY <3>1, <1>2, <1>4 DEF IInv, Binding
  <2>4. (\A j \in Children : (child[j] = "none" \/ j > spawned)
            => bound[j] = Unset /\ j \notin crashed /\ child[j] = "none")'
    <3>1. SUFFICES ASSUME NEW j \in Children, child'[j] = "none" \/ j > spawned'
                   PROVE  bound'[j] = Unset /\ j \notin crashed' /\ child'[j] = "none"
      OBVIOUS
    <3>2. j # i
      BY <3>1, <1>0, <1>1, <1>2, <1>5
    <3>3. child[j] = "none" \/ j > spawned
      BY <3>1, <3>2, <1>0, <1>1, <1>2, <1>4 DEF Children
    <3> QED BY <3>2, <3>3, <1>2, <1>4 DEF IInv, Binding
  <2> QED BY <2>1, <2>2, <2>3, <2>4 DEF Binding
<1>10. Exclusive'
  BY <1>1, <1>2, <1>3, <1>4, <1>5, <1>6 DEF IInv, Exclusive
<1>11. SamplesAreWhole' /\ AnswerIsComplete' /\ OwnChildAnswers' /\ Given'
  <2>1. /\ spawned' \in Nat /\ spawned <= spawned' /\ loading' \cap (1 .. spawned) = {}
        /\ proc' \cap (1 .. spawned) \subseteq proc
    BY <1>0, <1>1, <1>2
  <2>2. \A j \in 1 .. spawned : port'[j] = port[j]
    BY <1>0, <1>1, <1>4 DEF IInv, ChildTypeOK, Children
  <2> QED BY <2>1, <2>2, <1>2, CallsUntouched
<1> QED BY <1>7, <1>8, <1>9, <1>10, <1>11 DEF IInv

(* An instance that is given up or unloaded: its child is dead, and it is  *)
(* in neither set any more.                                                *)
LEMMA Forgotten ==
    ASSUME IInv, NEW i \in Children, i \in loading \cup cached, Forget(i),
           child' = [child EXCEPT ![i] = "dead"],
           loading' = loading \ {i}, cached' = cached \ {i},
           UNCHANGED <<spawned, name, bound, foreign, crashed, calls>>
    PROVE  IInv'
<1> USE UnsetAssumption, ChildAssumption
<1>1. /\ proc' = proc \ {i} /\ port' = [port EXCEPT ![i] = Unset]
      /\ i \in 1 .. spawned /\ spawned \in Nat
  BY DEF Forget, IInv, ChildTypeOK
<1>2. \A j \in Children \ {i} :
         child'[j] = child[j] /\ port'[j] = port[j] /\ (Alive(j)' <=> Alive(j))
  BY <1>1 DEF IInv, ChildTypeOK, Alive
<1>3. child'[i] = "dead" /\ port'[i] = Unset /\ ~Alive(i)'
  BY <1>1 DEF IInv, ChildTypeOK, Alive
<1>4. ChildTypeOK'
  BY <1>1 DEF IInv, ChildTypeOK, calls, body
<1>5. NoOrphans'
  BY <1>1, <1>2, <1>3 DEF IInv, NoOrphans
<1>6. OneLoad' /\ Ownership'
  BY <1>1, <1>2, <1>3 DEF IInv, OneLoad, Ownership
<1>7. Binding'
  <2>1. (\A j \in Children : child[j] = "boot" => j \in loading /\ bound[j] = Unset)'
    BY <1>2, <1>3 DEF IInv, Binding
  <2>2. (\A j \in Children : Alive(j) => bound[j] \in {Unset, port[j]})'
    BY <1>2, <1>3 DEF IInv, Binding
  <2>3. (\A j \in cached \ crashed : Alive(j) /\ bound[j] = port[j])'
    <3>1. \A j \in cached' : j \in Children \ {i}
      BY DEF Children, IInv, ChildTypeOK
    <3> QED BY <3>1, <1>2 DEF IInv, Binding
  <2>4. (\A j \in Children : (child[j] = "none" \/ j > spawned)
            => bound[j] = Unset /\ j \notin crashed /\ child[j] = "none")'
    <3>1. ~(i > spawned)
      BY <1>1
    <3> QED BY <3>1, <1>2, <1>3 DEF IInv, Binding
  <2> QED BY <2>1, <2>2, <2>3, <2>4 DEF Binding
<1>8. Exclusive'
  BY <1>2, <1>3 DEF IInv, Exclusive
<1>9. SamplesAreWhole' /\ AnswerIsComplete' /\ OwnChildAnswers' /\ Given'
  <2>1. \A j \in 1 .. spawned : port'[j] \in {port[j], Unset}
    BY <1>1, <1>2, <1>3 DEF IInv, ChildTypeOK, Children
  <2> QED BY <2>1, <1>1, CallsUntouched
<1> QED BY <1>4, <1>5, <1>6, <1>7, <1>8, <1>9 DEF IInv

LEMMA PollDeadStep ==
    ASSUME IInv, NEW i \in Children, PollDead(i)
    PROVE  IInv'
<1>1. child' = [child EXCEPT ![i] = "dead"]
  BY DEF PollDead, IInv, ChildTypeOK
<1>2. i \notin cached
  BY DEF PollDead, IInv, OneLoad
<1> QED BY <1>1, <1>2, Forgotten DEF PollDead

LEMMA PollTimeoutStep ==
    ASSUME IInv, NEW i \in Children, PollTimeout(i)
    PROVE  IInv'
<1>1. i \notin cached
  BY DEF PollTimeout, IInv, OneLoad
<1> QED BY <1>1, Forgotten DEF PollTimeout

LEMMA UnloadStep ==
    ASSUME IInv, NEW i \in Children, Unload(i)
    PROVE  IInv'
BY Forgotten DEF Unload

(* The port of the load in progress is bound by no child but its own, so   *)
(* it is its own child that has answered 200.                              *)
LEMMA PollHealthyStep ==
    ASSUME IInv, NEW i \in Children, PollHealthy(i)
    PROVE  IInv'
<1> USE UnsetAssumption, ChildAssumption
<1>1. /\ i \in loading /\ loading' = loading \ {i} /\ cached' = cached \cup {i}
      /\ UNCHANGED <<spawned, name, proc, port, bound, child, foreign, crashed, calls>>
  BY DEF PollHealthy
<1>2. PICK j \in Bound(port[i]) : child[j] = "serve"
  BY DEF PollHealthy
<1>3. port[i] # Unset /\ i \in proc
  BY <1>1 DEF IInv, Ownership
<1>4. j \in Children /\ Alive(j) /\ bound[j] = port[i]
  BY <1>2 DEF Bound
<1>5. j = i
  BY <1>1, <1>3, <1>4 DEF IInv, Exclusive
<1>6. ChildTypeOK'
  BY <1>1 DEF IInv, ChildTypeOK, calls, body
<1>7. NoOrphans'
  BY <1>1 DEF IInv, NoOrphans, Alive
<1>8. OneLoad' /\ Ownership'
  BY <1>1 DEF IInv, OneLoad, Ownership
<1>9. Binding'
  <2>1. child[i] = "serve"
    BY <1>2, <1>5
  <2>2. (\A k \in Children : child[k] = "boot" => k \in loading /\ bound[k] = Unset)'
    BY <2>1, <1>1 DEF IInv, Binding
  <2> QED BY <2>2, <1>1, <1>4, <1>5 DEF IInv, Binding, Alive
<1>10. Exclusive'
  BY <1>1 DEF IInv, Exclusive, Alive
<1>11. SamplesAreWhole' /\ AnswerIsComplete' /\ OwnChildAnswers' /\ Given'
  <2>1. spawned \in Nat
    BY DEF IInv, ChildTypeOK
  <2> QED BY <2>1, <1>1, CallsUntouched
<1> QED BY <1>6, <1>7, <1>8, <1>9, <1>10, <1>11 DEF IInv

-----------------------------------------------------------------------------
(* The child and the machine around it.                                    *)

LEMMA SquatStep ==
    ASSUME IInv, NEW p \in Ports, Squat(p)
    PROVE  IInv'
<1>1. /\ foreign' = foreign \cup {p}
      /\ UNCHANGED <<spawned, name, proc, port, loading, cached,
                     child, bound, crashed, calls>>
  BY DEF Squat, parent
<1>2. ChildTypeOK'
  BY <1>1 DEF IInv, ChildTypeOK, calls, body
<1>3. Instances'
  BY <1>1 DEF IInv, Instances, NoOrphans, OneLoad, Ownership, Binding, Exclusive, Alive
<1>4. SamplesAreWhole' /\ AnswerIsComplete' /\ OwnChildAnswers' /\ Given'
  <2>1. spawned \in Nat
    BY ChildAssumption DEF IInv, ChildTypeOK
  <2> QED BY <2>1, <1>1, CallsUntouched
<1> QED BY <1>2, <1>3, <1>4 DEF IInv, Instances

LEMMA ServeStep ==
    ASSUME IInv, NEW i \in Children, Serve(i)
    PROVE  IInv'
<1> USE UnsetAssumption, ChildAssumption
<1>1. /\ child[i] = "boot" /\ Alive(i)
      /\ UNCHANGED <<spawned, name, proc, port, loading, cached, foreign, crashed, calls>>
  BY DEF Serve, parent, Alive
<1>2. i \in loading /\ bound[i] = Unset
  BY <1>1 DEF IInv, Binding
<1>3. i \notin cached /\ i \in 1 .. spawned /\ port[i] # Unset
  BY <1>2 DEF IInv, OneLoad, ChildTypeOK, Ownership
<1>4. ~(i > spawned) /\ cached \subseteq Children
  BY <1>3 DEF IInv, ChildTypeOK, Children
<1>5. SamplesAreWhole' /\ AnswerIsComplete' /\ OwnChildAnswers' /\ Given'
  <2>1. spawned \in Nat
    BY DEF IInv, ChildTypeOK
  <2> QED BY <2>1, <1>1, CallsUntouched
<1>6. NoOrphans' /\ OneLoad' /\ Ownership'
  <2>1. \A j \in Children : Alive(j)' => Alive(j)
    BY <1>1 DEF Serve, IInv, ChildTypeOK, Alive
  <2> QED BY <2>1, <1>1 DEF IInv, NoOrphans, OneLoad, Ownership
<1>7. CASE /\ Free(port[i]) /\ child' = [child EXCEPT ![i] = "serve"]
           /\ bound' = [bound EXCEPT ![i] = port[i]]
  <2>1. \A j \in Children \ {i} :
           child'[j] = child[j] /\ bound'[j] = bound[j] /\ (Alive(j)' <=> Alive(j))
    BY <1>7 DEF IInv, ChildTypeOK, Alive
  <2>2. child'[i] = "serve" /\ bound'[i] = port[i]
    BY <1>7 DEF IInv, ChildTypeOK
  <2>3. \A j \in Children : Alive(j) => bound[j] # port[i]
    BY <1>7 DEF Free, Bound
  <2>4. ChildTypeOK'
    BY <1>1, <1>7 DEF IInv, ChildTypeOK, calls, body
  <2>5. Binding'
    <3>1. Alive(i)'
      BY <2>2 DEF Alive
    <3> QED BY <3>1, <2>1, <2>2, <1>1, <1>2, <1>3, <1>4 DEF IInv, Binding
  <2>6. Exclusive'
    <3>1. \A j \in loading : j = i
      BY <1>2 DEF IInv, OneLoad
    <3> QED BY <3>1, <2>1, <2>2, <2>3, <1>1 DEF IInv, Exclusive
  <2> QED BY <2>4, <2>5, <2>6, <1>5, <1>6 DEF IInv
<1>8. CASE child' = [child EXCEPT ![i] = "dead"] /\ UNCHANGED bound
  <2>1. \A j \in Children \ {i} : child'[j] = child[j] /\ (Alive(j)' <=> Alive(j))
    BY <1>8 DEF IInv, ChildTypeOK, Alive
  <2>2. child'[i] = "dead" /\ ~Alive(i)'
    BY <1>8 DEF IInv, ChildTypeOK, Alive
  <2>3. ChildTypeOK'
    BY <1>1, <1>8 DEF IInv, ChildTypeOK, calls, body
  <2>4. Binding'
    BY <2>1, <2>2, <1>1, <1>2, <1>3, <1>4, <1>8 DEF IInv, Binding
  <2>5. Exclusive'
    BY <2>1, <2>2, <1>1, <1>8 DEF IInv, Exclusive
  <2> QED BY <2>3, <2>4, <2>5, <1>5, <1>6 DEF IInv
<1> QED BY <1>7, <1>8 DEF Serve

LEMMA DieStep ==
    ASSUME IInv, NEW i \in Children, Die(i)
    PROVE  IInv'
<1> USE UnsetAssumption, ChildAssumption
<1>1. /\ Alive(i) /\ child' = [child EXCEPT ![i] = "dead"] /\ crashed' = crashed \cup {i}
      /\ UNCHANGED <<spawned, name, proc, port, loading, cached, bound, foreign, calls>>
  BY DEF Die, parent
<1>2. \A j \in Children \ {i} : child'[j] = child[j] /\ (Alive(j)' <=> Alive(j))
  BY <1>1 DEF IInv, ChildTypeOK, Alive
<1>3. child'[i] = "dead" /\ ~Alive(i)'
  BY <1>1 DEF IInv, ChildTypeOK, Alive
<1>4. ChildTypeOK'
  BY <1>1 DEF IInv, ChildTypeOK, calls, body
<1>5. NoOrphans' /\ OneLoad' /\ Ownership'
  BY <1>1, <1>2, <1>3 DEF IInv, NoOrphans, OneLoad, Ownership
<1>6. Binding'
  <2>1. ~(child[i] = "none" \/ i > spawned)
    BY <1>1 DEF IInv, Binding, Alive
  <2>2. \A j \in cached : j \in Children
    BY DEF IInv, ChildTypeOK, Children
  <2> QED BY <2>1, <2>2, <1>1, <1>2, <1>3 DEF IInv, Binding
<1>7. Exclusive'
  BY <1>1, <1>2, <1>3 DEF IInv, Exclusive
<1>8. SamplesAreWhole' /\ AnswerIsComplete' /\ OwnChildAnswers' /\ Given'
  <2>1. spawned \in Nat
    BY DEF IInv, ChildTypeOK
  <2> QED BY <2>1, <1>1, CallsUntouched
<1> QED BY <1>4, <1>5, <1>6, <1>7, <1>8 DEF IInv

LEMMA StallStep ==
    ASSUME IInv, NEW i \in Children, Stall(i)
    PROVE  IInv'
<1>1. /\ child[i] \in {"boot", "serve"} /\ child' = [child EXCEPT ![i] = "stuck"]
      /\ UNCHANGED <<spawned, name, proc, port, loading, cached,
                     bound, foreign, crashed, calls>>
  BY DEF Stall, parent
<1>2. \A j \in Children : /\ Alive(j)' <=> Alive(j)
                          /\ child'[j] = "boot" => child[j] = "boot"
                          /\ child'[j] = "none" <=> child[j] = "none"
  BY <1>1 DEF IInv, ChildTypeOK, Alive
<1>3. ChildTypeOK'
  BY <1>1 DEF IInv, ChildTypeOK, calls, body
<1>4. Instances'
  <2>1. \A j \in cached : j \in Children
    BY ChildAssumption DEF IInv, ChildTypeOK, Children
  <2> QED BY <2>1, <1>1, <1>2
          DEF IInv, Instances, NoOrphans, OneLoad, Ownership, Binding, Exclusive
<1>5. SamplesAreWhole' /\ AnswerIsComplete' /\ OwnChildAnswers' /\ Given'
  <2>1. spawned \in Nat
    BY ChildAssumption DEF IInv, ChildTypeOK
  <2> QED BY <2>1, <1>1, CallsUntouched
<1> QED BY <1>3, <1>4, <1>5 DEF IInv, Instances

-----------------------------------------------------------------------------
(* The calls.                                                              *)

LEMMA BeginStep ==
    ASSUME IInv, NEW c \in Calls, Begin(c)
    PROVE  IInv'
<1>1. PICK i \in cached : of' = [of EXCEPT ![c] = i]
  BY DEF Begin
<1>2. /\ stage[c] = "new" /\ stage' = [stage EXCEPT ![c] = "check"]
      /\ UNCHANGED <<parent, world, url, peer, written, whole, unread, rest, got>>
  BY DEF Begin, Enters, body
<1>3. i \in Children /\ i \in (1 .. spawned) \ loading
  BY ChildAssumption DEF IInv, ChildTypeOK, OneLoad, Children
<1>4. Instances'
  BY <1>2, InstancesUntouched
<1>5. ChildTypeOK'
  BY <1>1, <1>2, <1>3 DEF IInv, ChildTypeOK, parent, world
<1>6. SamplesAreWhole' /\ AnswerIsComplete' /\ OwnChildAnswers'
  BY <1>1, <1>2 DEF IInv, ChildTypeOK, SamplesAreWhole, AnswerIsComplete,
                    OwnChildAnswers, world, parent
<1>7. Given'
  BY <1>1, <1>2, <1>3 DEF IInv, ChildTypeOK, Given, parent
<1> QED BY <1>4, <1>5, <1>6, <1>7 DEF IInv, Instances

LEMMA CheckStep ==
    ASSUME IInv, NEW c \in Calls, Check(c)
    PROVE  IInv'
<1>1. /\ stage[c] = "check"
      /\ UNCHANGED <<parent, world, of, url, peer, written, whole, unread, rest, got>>
  BY DEF Check, body
<1>2. \/ stage' = [stage EXCEPT ![c] = "failed"]
      \/ stage' = [stage EXCEPT ![c] = "post"]
  BY DEF Check, Enters
<1>3. Instances'
  BY <1>1, InstancesUntouched
<1>4. ChildTypeOK'
  BY <1>1, <1>2 DEF IInv, ChildTypeOK, parent, world, Over
<1>5. SamplesAreWhole' /\ AnswerIsComplete' /\ OwnChildAnswers'
  BY <1>1, <1>2 DEF IInv, ChildTypeOK, SamplesAreWhole, AnswerIsComplete,
                    OwnChildAnswers, world, parent
<1>6. Given'
  BY <1>1, <1>2 DEF IInv, ChildTypeOK, Given, parent
<1> QED BY <1>3, <1>4, <1>5, <1>6 DEF IInv, Instances

LEMMA AddressStep ==
    ASSUME IInv, NEW c \in Calls, Address(c)
    PROVE  IInv'
<1>1. /\ stage[c] = "post" /\ stage' = [stage EXCEPT ![c] = "connect"]
      /\ url' = [url EXCEPT ![c] = port[of[c]]]
      /\ UNCHANGED <<parent, world, of, peer, written, whole, unread, rest, got>>
  BY DEF Address, Enters, body
<1>2. Instances'
  BY <1>1, InstancesUntouched
<1>3. port[of[c]] \in Ports \cup {Unset}
  <2>1. of[c] \in Children
    BY <1>1, ChildAssumption DEF IInv, Given, ChildTypeOK, Children
  <2> QED BY <2>1 DEF IInv, ChildTypeOK
<1>4. ChildTypeOK'
  BY <1>1, <1>3 DEF IInv, ChildTypeOK, parent, world, Over
<1>5. SamplesAreWhole' /\ AnswerIsComplete' /\ OwnChildAnswers'
  BY <1>1 DEF IInv, ChildTypeOK, SamplesAreWhole, AnswerIsComplete,
              OwnChildAnswers, world, parent
<1>6. Given'
  BY <1>1 DEF IInv, ChildTypeOK, Given, parent
<1> QED BY <1>2, <1>4, <1>5, <1>6 DEF IInv, Instances

(* While the instance has its child, the address is that of its port; the  *)
(* child, unless it has crashed, has bound it, and then nobody else has.   *)
LEMMA ConnectStep ==
    ASSUME IInv, NEW c \in Calls, Connect(c)
    PROVE  IInv'
<1> USE UnsetAssumption, ChildAssumption
<1> DEFINE i == of[c]
           p == url[c]
<1>1. /\ stage[c] = "connect"
      /\ UNCHANGED <<parent, world, of, url, written, whole, unread, rest, got>>
  BY DEF Connect, body
<1>2. Instances'
  BY <1>1, InstancesUntouched
<1>3. i \in 1 .. spawned /\ i \in Children /\ i \notin loading
  BY <1>1 DEF IInv, Given, ChildTypeOK, Children
<1>4. CASE /\ UNCHANGED peer
           /\ \/ stage' = [stage EXCEPT ![c] = "failed"]
              \/ stage' = [stage EXCEPT ![c] = "refused"]
  <2>1. ChildTypeOK'
    BY <1>1, <1>4 DEF IInv, ChildTypeOK, parent, world, Over
  <2>2. SamplesAreWhole' /\ AnswerIsComplete' /\ OwnChildAnswers'
    BY <1>1, <1>4 DEF IInv, ChildTypeOK, SamplesAreWhole, AnswerIsComplete,
                      OwnChildAnswers, world, parent
  <2>3. Given'
    BY <1>1, <1>4 DEF IInv, ChildTypeOK, Given, parent
  <2> QED BY <2>1, <2>2, <2>3, <1>2 DEF IInv, Instances
<1>5. ASSUME p # Unset, NEW j \in Bound(p), peer' = [peer EXCEPT ![c] = j],
             stage' = [stage EXCEPT ![c] = "read"]
      PROVE  IInv'
  <2>1. j \in Children /\ Alive(j) /\ bound[j] = p
    BY DEF Bound
  <2>2. i \in proc /\ i \notin crashed => j = i
    <3>1. SUFFICES ASSUME i \in proc, i \notin crashed PROVE j = i
      OBVIOUS
    <3>2. i \in cached /\ port[i] = p
      BY <3>1, <1>1, <1>3 DEF IInv, Ownership, Given
    <3>3. Alive(i) /\ bound[i] = p
      BY <3>1, <3>2 DEF IInv, Binding
    <3> QED BY <3>3, <2>1, <1>3, <1>5 DEF IInv, Exclusive
  <2>3. ChildTypeOK'
    BY <1>1, <1>5, <2>1 DEF IInv, ChildTypeOK, parent, world
  <2>4. SamplesAreWhole' /\ AnswerIsComplete'
    BY <1>1, <1>5 DEF IInv, ChildTypeOK, SamplesAreWhole, AnswerIsComplete
  <2>5. OwnChildAnswers'
    BY <1>1, <1>5, <2>2 DEF IInv, ChildTypeOK, OwnChildAnswers, world, parent
  <2>6. Given'
    BY <1>1, <1>5 DEF IInv, ChildTypeOK, Given, parent
  <2> QED BY <2>3, <2>4, <2>5, <2>6, <1>2 DEF IInv, Instances
<1> QED BY <1>4, <1>5 DEF Connect, Enters

(* The steps that only move the audio of a call.                           *)
LEMMA AudioStep ==
    ASSUME IInv, NEW c \in Calls, Write(c) \/ EndBody(c) \/ Reads(c)
    PROVE  IInv'
<1> USE ChildAssumption
<1>1. stage[c] = "read" /\ UNCHANGED <<parent, world, stage, of, url, peer>>
  BY DEF Write, EndBody, Reads, Read, Answering
<1>2. Instances'
  BY <1>1, InstancesUntouched
<1>3. Given' /\ OwnChildAnswers'
  BY <1>1 DEF IInv, Given, OwnChildAnswers, parent, world
<1>4. /\ written[c] \in Nat /\ unread[c] \in Nat /\ rest[c] \in 0 .. 3 /\ got[c] \in Nat
      /\ 4 * got[c] + rest[c] + unread[c] = 4 * written[c]
  BY DEF IInv, ChildTypeOK, SamplesAreWhole, SampleBytes
<1>5. CASE Write(c)
  <2>1. /\ written[c] < MaxSamples
        /\ written' = [written EXCEPT ![c] = written[c] + 1]
        /\ unread' = [unread EXCEPT ![c] = unread[c] + 4]
        /\ UNCHANGED <<whole, rest, got>>
    BY <1>5 DEF Write, SampleBytes
  <2>2. ChildTypeOK'
    <3>1. written[c] + 1 \in 0 .. MaxSamples /\ unread[c] + 4 \in Nat
      BY <2>1, <1>4
    <3> QED BY <3>1, <2>1, <1>1 DEF IInv, ChildTypeOK, parent, world
  <2>3. SamplesAreWhole'
    <3>1. SampleBytes * got[c] + rest[c] + (unread[c] + 4) = SampleBytes * (written[c] + 1)
      BY <1>4 DEF SampleBytes
    <3> QED BY <3>1, <2>1 DEF IInv, ChildTypeOK, SamplesAreWhole
  <2>4. AnswerIsComplete'
    BY <2>1, <1>1 DEF IInv, ChildTypeOK, AnswerIsComplete
  <2> QED BY <2>2, <2>3, <2>4, <1>2, <1>3 DEF IInv, Instances
<1>6. CASE EndBody(c)
  <2>1. /\ whole' = [whole EXCEPT ![c] = TRUE]
        /\ UNCHANGED <<written, unread, rest, got>>
    BY <1>6 DEF EndBody
  <2>2. ChildTypeOK'
    BY <2>1, <1>1 DEF IInv, ChildTypeOK, parent, world
  <2>3. SamplesAreWhole' /\ AnswerIsComplete'
    BY <2>1, <1>1 DEF IInv, ChildTypeOK, SamplesAreWhole, AnswerIsComplete
  <2> QED BY <2>2, <2>3, <1>2, <1>3 DEF IInv, Instances
<1>7. CASE Reads(c)
  <2>1. PICK k \in 1 .. SampleBytes * MaxSamples : Read(c, k)
    BY <1>7 DEF Reads
  <2>2. k \in Nat
    BY DEF SampleBytes
  <2> DEFINE q == (rest[c] + k) \div 4
             r == (rest[c] + k) % 4
  <2>3. /\ k <= unread[c]
        /\ unread' = [unread EXCEPT ![c] = unread[c] - k]
        /\ got' = [got EXCEPT ![c] = got[c] + q]
        /\ rest' = [rest EXCEPT ![c] = r]
        /\ UNCHANGED <<written, whole>>
    BY <2>1 DEF Read, SampleBytes
  <2>4. q \in Nat /\ r \in 0 .. 3 /\ 4 * q + r = rest[c] + k
    BY <2>2, <1>4
  <2> HIDE DEF q, r
  <2>5. 4 * (got[c] + q) + r + (unread[c] - k) = 4 * written[c]
    BY <2>2, <2>4, <1>4
  <2>6. ChildTypeOK'
    <3>1. unread[c] - k \in Nat /\ got[c] + q \in Nat /\ got[c] + q <= written[c]
      BY <2>2, <2>3, <2>4, <2>5, <1>4
    <3>2. got[c] + q \in 0 .. MaxSamples
      BY <3>1, <1>4 DEF IInv, ChildTypeOK
    <3> QED BY <3>1, <3>2, <2>3, <2>4, <1>1 DEF IInv, ChildTypeOK, parent, world, SampleBytes
  <2>7. SamplesAreWhole'
    BY <2>3, <2>5 DEF IInv, ChildTypeOK, SamplesAreWhole, SampleBytes
  <2>8. AnswerIsComplete'
    BY <2>3, <1>1 DEF IInv, ChildTypeOK, AnswerIsComplete
  <2> QED BY <2>6, <2>7, <2>8, <1>2, <1>3 DEF IInv, Instances
<1> QED BY <1>5, <1>6, <1>7

(* Nothing is unread and the rest is shorter than a sample, so all that    *)
(* was written has been yielded.                                           *)
LEMMA EndOfBodyStep ==
    ASSUME IInv, NEW c \in Calls, EndOfBody(c)
    PROVE  IInv'
<1>1. /\ stage[c] = "read" /\ unread[c] = 0 /\ whole[c]
      /\ stage' = [stage EXCEPT ![c] = "answered"]
      /\ UNCHANGED <<parent, world, of, url, peer, written, whole, unread, rest, got>>
  BY DEF EndOfBody, Enters, body
<1>2. Instances'
  BY <1>1, InstancesUntouched
<1>3. ChildTypeOK'
  BY <1>1 DEF IInv, ChildTypeOK, parent, world, Over
<1>4. got[c] = written[c]
  <2>1. /\ written[c] \in Nat /\ got[c] \in Nat /\ rest[c] \in 0 .. 3
        /\ 4 * got[c] + rest[c] + unread[c] = 4 * written[c]
    BY ChildAssumption DEF IInv, ChildTypeOK, SamplesAreWhole, SampleBytes
  <2> QED BY <2>1, <1>1
<1>5. SamplesAreWhole' /\ AnswerIsComplete'
  BY <1>1, <1>4 DEF IInv, ChildTypeOK, SamplesAreWhole, AnswerIsComplete
<1>6. OwnChildAnswers' /\ Given'
  BY <1>1 DEF IInv, ChildTypeOK, OwnChildAnswers, Given, parent, world
<1> QED BY <1>2, <1>3, <1>5, <1>6 DEF IInv, Instances

LEMMA BreakStep ==
    ASSUME IInv, NEW c \in Calls, Break(c)
    PROVE  IInv'
<1>1. /\ stage[c] = "read" /\ stage' = [stage EXCEPT ![c] = "failed"]
      /\ written' = [written EXCEPT ![c] = 0] /\ got' = [got EXCEPT ![c] = 0]
      /\ unread' = [unread EXCEPT ![c] = 0] /\ rest' = [rest EXCEPT ![c] = 0]
      /\ UNCHANGED <<parent, world, of, url, peer, whole>>
  BY DEF Break, GiveUp, Enters
<1>2. Instances'
  BY <1>1, InstancesUntouched
<1>3. ChildTypeOK'
  BY <1>1, ChildAssumption DEF IInv, ChildTypeOK, parent, world, Over, SampleBytes
<1>4. SamplesAreWhole'
  <2>1. SampleBytes * 0 + 0 + 0 = SampleBytes * 0
    BY DEF SampleBytes
  <2> QED BY <2>1, <1>1 DEF IInv, ChildTypeOK, SamplesAreWhole
<1>5. AnswerIsComplete'
  BY <1>1 DEF IInv, ChildTypeOK, AnswerIsComplete
<1>6. OwnChildAnswers' /\ Given'
  BY <1>1 DEF IInv, ChildTypeOK, OwnChildAnswers, Given, parent, world
<1> QED BY <1>2, <1>3, <1>4, <1>5, <1>6 DEF IInv, Instances

-----------------------------------------------------------------------------
LEMMA NextIInv == IInv /\ [ChildNext]_childVars => IInv'
<1> SUFFICES ASSUME IInv, [ChildNext]_childVars PROVE IInv'
  OBVIOUS
<1>1. CASE UNCHANGED childVars
  <2>1. UNCHANGED <<parent, world, calls>>
    BY <1>1 DEF childVars
  <2>2. Instances'
    BY <2>1, InstancesUntouched
  <2>3. SamplesAreWhole' /\ AnswerIsComplete' /\ OwnChildAnswers' /\ Given'
    <3>1. spawned \in Nat
      BY ChildAssumption DEF IInv, ChildTypeOK
    <3> QED BY <3>1, <2>1, CallsUntouched DEF parent, world
  <2>4. ChildTypeOK'
    BY <2>1 DEF IInv, ChildTypeOK, parent, world, calls, body
  <2> QED BY <2>2, <2>3, <2>4 DEF IInv, Instances
<1>2. ASSUME NEW n \in Backends, NEW p \in Ports, Load(n, p) PROVE IInv'
  BY <1>2, LoadStep
<1>3. ASSUME NEW p \in Ports, Squat(p) PROVE IInv'
  BY <1>3, SquatStep
<1>4. ASSUME NEW i \in Children,
             PollStep(i) \/ Unload(i) \/ Serve(i) \/ Die(i) \/ Stall(i)
      PROVE  IInv'
  BY <1>4, PollDeadStep, PollHealthyStep, PollTimeoutStep, UnloadStep, ServeStep,
     DieStep, StallStep DEF PollStep
<1>5. ASSUME NEW c \in Calls, Begin(c) \/ CallStep(c) \/ Write(c) \/ EndBody(c)
      PROVE  IInv'
  BY <1>5, BeginStep, CheckStep, AddressStep, ConnectStep, AudioStep, EndOfBodyStep, BreakStep DEF CallStep
<1> QED BY <1>1, <1>2, <1>3, <1>4, <1>5 DEF ChildNext

(* The inductive invariant holds of every state the backends reach.        *)
THEOREM SubprocessInvariant == ChildSpec => []IInv
BY InitIInv, NextIInv, PTL DEF ChildSpec

(* Type correctness.                                                       *)
THEOREM TypeCorrect == ChildSpec => []ChildTypeOK
<1>1. IInv => ChildTypeOK
  BY DEF IInv
<1> QED BY <1>1, SubprocessInvariant, PTL

(* Whatever dies, stalls or times out, and whenever, a child that is alive *)
(* is one the server still holds and can kill.                             *)
THEOREM ChildrenAreOwned == ChildSpec => []NoOrphans
<1>1. IInv => NoOrphans
  BY DEF IInv
<1> QED BY <1>1, SubprocessInvariant, PTL

(* A call is answered by the child of the instance it was given, however   *)
(* the ports were reused, as long as the instance is loaded and its child  *)
(* has not crashed.                                                        *)
THEOREM RightChildAnswers == ChildSpec => []OwnChildAnswers
<1>1. IInv => OwnChildAnswers
  BY DEF IInv
<1> QED BY <1>1, SubprocessInvariant, PTL

(* The buffer of synthesize_stream neither tears nor loses a sample.       *)
THEOREM NoSampleIsTorn == ChildSpec => []SamplesAreWhole
<1>1. IInv => SamplesAreWhole
  BY DEF IInv
<1> QED BY <1>1, SubprocessInvariant, PTL

(* A call that ends without an exception has yielded all that the child    *)
(* had to say.                                                             *)
THEOREM AnswersAreComplete == ChildSpec => []AnswerIsComplete
<1>1. IInv => AnswerIsComplete
  BY DEF IInv
<1> QED BY <1>1, SubprocessInvariant, PTL

=============================================================================
