-------------------------- MODULE SubprocessChild --------------------------
(***************************************************************************)
(* The backends that run in a process of their own (chatterbox, piper,     *)
(* melotts, orpheus, higgs, higgs-mlx): SubprocessBackend of               *)
(* backends/_subprocess.py in the server, and subprocess_shim.py in the    *)
(* child it spawns.  load picks a free port, spawns the child and polls    *)
(* /health; a call POSTs to the port and reads float32 PCM; unload kills   *)
(* the child.                                                              *)
(*                                                                         *)
(* Abstraction.  _ensure_backend makes an instance for every load and an   *)
(* unloaded instance is never loaded again, so instance i spawns child i   *)
(* and no other.  A load that finds no provisioned venv changes nothing    *)
(* and is left out.  load and unload run on the event loop; the 300 s of   *)
(* the health poll and the 600 s of a call may be over at any time.  Audio *)
(* is counted: the child writes whole samples of four bytes, a read takes  *)
(* any number of the bytes that are there.                                 *)
(***************************************************************************)
EXTENDS Naturals, FiniteSets

CONSTANTS
    Backends,    \* the subprocess backends
    Ports,       \* the local ports the OS may hand out
    Calls,       \* synthesis calls
    MaxSpawns,   \* bound on the children ever spawned, for TLC
    MaxSamples,  \* bound on the samples of an answer, for TLC
    Unset        \* None

ASSUME UnsetAssumption == Unset \notin Ports /\ Unset \notin Backends
ASSUME ChildAssumption == MaxSpawns \in Nat /\ MaxSamples \in Nat

SampleBytes == 4
Children    == 1 .. MaxSpawns
NoChild     == 0

VARIABLES
    spawned,  \* instances made so far, each with its child
    name,     \* the backend an instance is of
    proc,     \* the instances whose _proc is not None
    port,     \* _port of each instance
    bound,    \* the port a child has bound
    child,    \* "none", "boot", "serve", "stuck" or "dead"
    foreign,  \* the ports other programs of the machine have bound
    crashed,  \* the children that died with nobody killing them
    loading,  \* the instances in _wait_for_health
    cached,   \* the instances that _BACKENDS holds
    stage,    \* where a call is
    of,       \* the instance a call was given
    url,      \* the port in the URL of its request
    peer,     \* the child that answers it
    written,  \* samples the child has written
    whole,    \* the child has ended the body properly
    unread,   \* bytes written that the call has not read
    rest,     \* length of pcm_buffer
    got       \* samples the call has yielded

parent    == <<spawned, name, proc, port, loading, cached>>
world     == <<child, bound, foreign, crashed>>
body      == <<written, whole, unread, rest, got>>
calls     == <<stage, of, url, peer, body>>
childVars == <<parent, world, calls>>

Alive(i)     == child[i] \in {"boot", "serve", "stuck"}
Bound(p)     == {i \in Children : Alive(i) /\ bound[i] = p}
Free(p)      == Bound(p) = {} /\ p \notin foreign
Named(n)     == {i \in cached \cup loading : name[i] = n}
Over         == {"answered", "failed", "refused"}

ChildInit ==
    /\ spawned = 0 /\ proc = {} /\ loading = {} /\ cached = {}
    /\ name = [i \in Children |-> Unset]
    /\ port = [i \in Children |-> Unset] /\ bound = port
    /\ child = [i \in Children |-> "none"] /\ crashed = {} /\ foreign = {}
    /\ stage = [c \in Calls |-> "new"]
    /\ of = [c \in Calls |-> NoChild] /\ peer = of /\ url = [c \in Calls |-> Unset]
    /\ written = [c \in Calls |-> 0] /\ unread = written
    /\ rest = written /\ got = written
    /\ whole = [c \in Calls |-> FALSE]

-----------------------------------------------------------------------------
(* load and unload, on the event loop.                                     *)

Spawn(n, p) ==
    LET i == spawned + 1 IN
    /\ spawned < MaxSpawns
    /\ Free(p)
    /\ spawned' = i
    /\ name' = [name EXCEPT ![i] = n]
    /\ proc' = proc \cup {i}
    /\ port' = [port EXCEPT ![i] = p]
    /\ child' = [child EXCEPT ![i] = "boot"]
    /\ loading' = loading \cup {i}
    /\ UNCHANGED <<bound, foreign, crashed, cached, calls>>

(* Faulty variant: loads are moved off the event loop.                     *)
LoadOffLoop(n, p) == Named(n) = {} /\ Spawn(n, p)

(* The first call of a backend loads it: _pick_free_port binds a port and  *)
(* releases it, and Popen starts the shim, which will bind it again.       *)
Load(n, p) == loading = {} /\ Named(n) = {} /\ Spawn(n, p)

Forget(i) == /\ proc' = proc \ {i}
             /\ port' = [port EXCEPT ![i] = Unset]

(* poll() says that the child has exited: load raises.                     *)
PollDead(i) ==
    /\ i \in loading /\ child[i] = "dead"
    /\ Forget(i)
    /\ loading' = loading \ {i}
    /\ UNCHANGED <<spawned, name, bound, cached, child, foreign, crashed, calls>>

(* /health answers 200, whichever process it is that answers.              *)
PollHealthy(i) ==
    /\ i \in loading
    /\ \E j \in Bound(port[i]) : child[j] = "serve"
    /\ loading' = loading \ {i}
    /\ cached' = cached \cup {i}
    /\ UNCHANGED <<spawned, name, proc, port, bound, child, foreign, crashed, calls>>

(* Faulty variant: the poll gives up and leaves the child running.         *)
PollTimeoutOrphans(i) ==
    /\ i \in loading
    /\ Forget(i)
    /\ loading' = loading \ {i}
    /\ UNCHANGED <<spawned, name, bound, cached, child, foreign, crashed, calls>>

(* Faulty variant: the poll goes on until the child answers or dies.       *)
PollTimeoutNever(i) ==
    /\ i \in loading /\ child[i] = "dead"
    /\ Forget(i)
    /\ loading' = loading \ {i}
    /\ UNCHANGED <<spawned, name, bound, cached, child, foreign, crashed, calls>>

(* The poll's deadline has passed: the child is terminated or killed and   *)
(* waited for, and load raises.                                            *)
PollTimeout(i) ==
    /\ i \in loading
    /\ Forget(i)
    /\ child' = [child EXCEPT ![i] = "dead"]
    /\ loading' = loading \ {i}
    /\ UNCHANGED <<spawned, name, bound, cached, foreign, crashed, calls>>

(* Faulty variant: unload without the pop from _BACKENDS.                  *)
UnloadStillCached(i) ==
    /\ loading = {} /\ i \in cached
    /\ Forget(i)
    /\ child' = [child EXCEPT ![i] = "dead"]
    /\ UNCHANGED <<spawned, name, bound, loading, cached, foreign, crashed, calls>>

(* The lifecycle endpoints pop the instance and call unload, an alias of   *)
(* shutdown: terminate, wait, kill.                                        *)
Unload(i) ==
    /\ loading = {} /\ i \in cached
    /\ cached' = cached \ {i}
    /\ Forget(i)
    /\ child' = [child EXCEPT ![i] = "dead"]
    /\ UNCHANGED <<spawned, name, bound, loading, foreign, crashed, calls>>

-----------------------------------------------------------------------------
(* The child: build_app loads the backend, then uvicorn serves.            *)

(* uvicorn binds the --port it was given, which is still the _port of an   *)
(* instance whose child nobody has killed; a port that is taken ends it.   *)
Serve(i) ==
    /\ child[i] = "boot"
    /\ \/ /\ Free(port[i])
          /\ child' = [child EXCEPT ![i] = "serve"]
          /\ bound' = [bound EXCEPT ![i] = port[i]]
       \/ /\ ~Free(port[i])
          /\ child' = [child EXCEPT ![i] = "dead"]
          /\ UNCHANGED bound
    /\ UNCHANGED <<parent, foreign, crashed, calls>>

(* A program that has nothing to do with this one binds a free port: it    *)
(* answers no call, nor /health with 200.                                  *)
Squat(p) ==
    /\ Free(p)
    /\ foreign' = foreign \cup {p}
    /\ UNCHANGED <<parent, child, bound, crashed, calls>>

Die(i) ==
    /\ Alive(i)
    /\ child' = [child EXCEPT ![i] = "dead"]
    /\ crashed' = crashed \cup {i}
    /\ UNCHANGED <<parent, bound, foreign, calls>>

(* Its stdout and stderr are pipes that the server never reads: a child    *)
(* that logs much blocks in a write.                                       *)
Stall(i) ==
    /\ child[i] \in {"boot", "serve"}
    /\ child' = [child EXCEPT ![i] = "stuck"]
    /\ UNCHANGED <<parent, bound, foreign, crashed, calls>>

Answering(c) == stage[c] = "read" /\ child[peer[c]] = "serve" /\ ~whole[c]

Write(c) ==
    /\ Answering(c) /\ written[c] < MaxSamples
    /\ written' = [written EXCEPT ![c] = @ + 1]
    /\ unread' = [unread EXCEPT ![c] = @ + SampleBytes]
    /\ UNCHANGED <<parent, world, stage, of, url, peer, whole, rest, got>>

(* The generator of the shim returns: the last, empty chunk is written.    *)
EndBody(c) ==
    /\ Answering(c)
    /\ whole' = [whole EXCEPT ![c] = TRUE]
    /\ UNCHANGED <<parent, world, stage, of, url, peer, written, unread, rest, got>>

-----------------------------------------------------------------------------
(* synthesize_stream, in a worker thread, or for a batch call on the loop. *)

Enters(c, l) == stage' = [stage EXCEPT ![c] = l]

(* _ensure_backend finds the instance.                                     *)
Begin(c) ==
    /\ stage[c] = "new" /\ loading = {}
    /\ \E i \in cached : of' = [of EXCEPT ![c] = i]
    /\ Enters(c, "check")
    /\ UNCHANGED <<parent, world, url, peer, body>>

(* "if self._port is None: raise"                                          *)
Check(c) ==
    /\ stage[c] = "check"
    /\ Enters(c, IF port[of[c]] = Unset THEN "failed" ELSE "post")
    /\ UNCHANGED <<parent, world, of, url, peer, body>>

(* _port is read again, for the URL: it may be None by now.                *)
Address(c) ==
    /\ stage[c] = "post"
    /\ url' = [url EXCEPT ![c] = port[of[c]]]
    /\ Enters(c, "connect")
    /\ UNCHANGED <<parent, world, of, peer, body>>

(* urlopen connects to the port in the URL, which the event loop may have  *)
(* taken from the instance in the meantime: there is no such port, or it   *)
(* is a stranger's, or nobody listens, or a child does.  Nothing is tried  *)
(* again.                                                                  *)
Connect(c) ==
    LET p == url[c] IN
    /\ stage[c] = "connect"
    /\ \/ p \in foreign \cup {Unset} /\ Enters(c, "failed") /\ UNCHANGED peer
       \/ p # Unset /\ Free(p) /\ Enters(c, "refused") /\ UNCHANGED peer
       \/ /\ p # Unset
          /\ \E j \in Bound(p) : peer' = [peer EXCEPT ![c] = j]
          /\ Enters(c, "read")
    /\ UNCHANGED <<parent, world, of, url, body>>

(* Faulty variant: what does not fill a sample is thrown away at once.     *)
ReadTorn(c, k) ==
    /\ stage[c] = "read"
    /\ k <= unread[c]
    /\ unread' = [unread EXCEPT ![c] = @ - k]
    /\ got' = [got EXCEPT ![c] = @ + k \div SampleBytes]
    /\ UNCHANGED <<parent, world, stage, of, url, peer, written, whole, rest>>

(* read() returns k bytes; the whole samples among those buffered are      *)
(* yielded, what is left over waits for the next read.                     *)
Read(c, k) ==
    /\ stage[c] = "read"
    /\ k <= unread[c]
    /\ unread' = [unread EXCEPT ![c] = @ - k]
    /\ got' = [got EXCEPT ![c] = @ + (rest[c] + k) \div SampleBytes]
    /\ rest' = [rest EXCEPT ![c] = (@ + k) % SampleBytes]
    /\ UNCHANGED <<parent, world, stage, of, url, peer, written, whole>>

(* Faulty variant: any end of the data is taken for the end of the body.   *)
EndOfAnyBody(c) ==
    /\ stage[c] = "read" /\ unread[c] = 0
    /\ whole[c] \/ ~Alive(peer[c])
    /\ Enters(c, "answered")
    /\ UNCHANGED <<parent, world, of, url, peer, body>>

(* read() returns nothing: the chunked body has ended.                     *)
EndOfBody(c) ==
    /\ stage[c] = "read" /\ unread[c] = 0
    /\ whole[c]
    /\ Enters(c, "answered")
    /\ UNCHANGED <<parent, world, of, url, peer, body>>

(* The exception leaves the generator, and what it counted goes with it.   *)
GiveUp(c) ==
    /\ Enters(c, "failed")
    /\ written' = [written EXCEPT ![c] = 0] /\ got' = [got EXCEPT ![c] = 0]
    /\ unread' = [unread EXCEPT ![c] = 0] /\ rest' = [rest EXCEPT ![c] = 0]
    /\ UNCHANGED <<parent, world, of, url, peer, whole>>

(* Faulty variant: read() has no timeout.                                  *)
BreakOnDeath(c) ==
    /\ stage[c] = "read" /\ ~whole[c]
    /\ ~Alive(peer[c])
    /\ GiveUp(c)

(* read() raises: the child has died, or its generator has raised and the  *)
(* connection is closed within the body, or 600 s have brought nothing.    *)
Break(c) ==
    /\ stage[c] = "read" /\ ~whole[c]
    /\ GiveUp(c)

-----------------------------------------------------------------------------
Reads(c)      == \E k \in 1 .. SampleBytes * MaxSamples : Read(c, k)
CallStep(c)   == \/ Check(c) \/ Address(c) \/ Connect(c)
                 \/ Reads(c) \/ EndOfBody(c) \/ Break(c)
PollStep(i)   == PollDead(i) \/ PollHealthy(i) \/ PollTimeout(i)

ChildNext ==
    \/ \E n \in Backends, p \in Ports : Load(n, p)
    \/ \E p \in Ports : Squat(p)
    \/ \E i \in Children : PollStep(i) \/ Unload(i) \/ Serve(i) \/ Die(i) \/ Stall(i)
    \/ \E c \in Calls : Begin(c) \/ CallStep(c) \/ Write(c) \/ EndBody(c)

ChildSpec == ChildInit /\ [][ChildNext]_childVars

(* Threads run, and both deadlines pass.  Nothing is assumed of the child. *)
ChildFairness ==
    /\ \A c \in Calls : WF_childVars(CallStep(c))
    /\ \A i \in Children : WF_childVars(PollStep(i))

-----------------------------------------------------------------------------
(* Properties.                                                             *)

ChildTypeOK ==
    /\ spawned \in 0 .. MaxSpawns
    /\ name \in [Children -> Backends \cup {Unset}]
    /\ proc \subseteq 1 .. spawned
    /\ port \in [Children -> Ports \cup {Unset}]
    /\ bound \in [Children -> Ports \cup {Unset}]
    /\ child \in [Children -> {"none", "boot", "serve", "stuck", "dead"}]
    /\ crashed \subseteq Children /\ foreign \subseteq Ports
    /\ loading \subseteq proc /\ cached \subseteq proc
    /\ stage \in [Calls -> {"new", "check", "post", "connect", "read"} \cup Over]
    /\ of \in [Calls -> {NoChild} \cup Children] /\ peer \in [Calls -> {NoChild} \cup Children]
    /\ url \in [Calls -> Ports \cup {Unset}]
    /\ written \in [Calls -> 0 .. MaxSamples] /\ got \in [Calls -> 0 .. MaxSamples]
    /\ unread \in [Calls -> Nat] /\ rest \in [Calls -> 0 .. SampleBytes - 1]
    /\ whole \in [Calls -> BOOLEAN]

(* No child is orphaned: one that is alive, be it stuck, is that of an     *)
(* instance in the cache, or of the load in progress, and can be killed by *)
(* it.  (A child holds 1-2 GB; _subprocess.py 98-99, 254-256.)             *)
NoOrphans ==
    \A i \in Children : Alive(i) => i \in proc /\ i \in cached \cup loading

(* While the instance a call was given is loaded and its child has not     *)
(* crashed, it is this child that answers: neither another's load and      *)
(* unload, nor a port that was free when it was picked, gives the call to  *)
(* another's.  (After an unload it may be: synthesize_stream reads the     *)
(* address and connects with nothing held, _subprocess.py 296 and 302, and *)
(* a load that comes between may have been given the same port.)           *)
OwnChildAnswers ==
    \A c \in Calls :
        (stage[c] \in {"read", "answered"} /\ of[c] \in proc /\ of[c] \notin crashed)
            => peer[c] = of[c]

(* However the bytes are cut up on their way, no sample is torn or lost:   *)
(* those yielded, the bytes kept back and the bytes on their way are what  *)
(* the child has written.                                                  *)
SamplesAreWhole ==
    \A c \in Calls : SampleBytes * got[c] + rest[c] + unread[c] = SampleBytes * written[c]

(* A call that returns without an exception has all of the audio: a child  *)
(* that dies or fails on the way never makes it a shorter answer.          *)
AnswerIsComplete ==
    \A c \in Calls : stage[c] = "answered" => whole[c] /\ got[c] = written[c]

(* A call ends, whatever becomes of its child.                             *)
CallEnds == \A c \in Calls : (stage[c] = "check") ~> (stage[c] \in Over)

(* A load ends, and the event loop with it is free again, whatever becomes *)
(* of the child.                                                           *)
LoadEnds == \A i \in Children : (i \in loading) ~> (i \notin loading)

(* _subprocess.py 41-42: "If the child dies unexpectedly, the next call    *)
(* attempts one restart": a call is refused for want of a child only when  *)
(* one was spawned for its backend since.                                  *)
RestartIsAttempted ==
    \A c \in Calls : stage[c] = "refused" =>
        \E i \in Children : i > of[c] /\ name[i] = name[of[c]]

=============================================================================
