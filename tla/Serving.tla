------------------------------ MODULE Serving ------------------------------
(***************************************************************************)
(* The serving core of server.py: one event loop that runs every handler,  *)
(* a pool of worker threads that runs what is handed to run_in_threadpool  *)
(* or iterated by StreamingResponse, the _BACKENDS cache, and the          *)
(* threading.Lock each backend instance keeps for its model.               *)
(*                                                                         *)
(* A job is one call of the server:                                        *)
(*   "batch"    POST /v1/audio/speech that synthesizes in its handler, on  *)
(*              the loop (stream=false, or a format that is not streamed)  *)
(*   "stream"   POST /v1/audio/speech, stream=true: a generator of which   *)
(*              every next() is a call in a worker thread                  *)
(*   "session"  a WS session or a preset sample: it finds its backend once *)
(*              and later calls synthesize in a worker thread, perhaps     *)
(*              several times                                              *)
(*   "load", "unload", "reset"   the lifecycle endpoints                   *)
(*                                                                         *)
(* Abstraction.  An instance is its number; text, audio and voices are     *)
(* left out; an inference returns or raises.  A handler runs on the loop   *)
(* without interleaving until it awaits, so _ensure_backend, which only    *)
(* handlers call, is one step however long the load takes.                 *)
(***************************************************************************)
EXTENDS Naturals, FiniteSets

CONSTANTS
    Requests,      \* the calls that are made of the server
    Jobs,          \* what they may ask for: kinds and backend names
    Names,         \* backend names
    Locked,        \* those whose instances lock around an inference
    AcrossYield,   \* those whose streams keep the lock between two chunks
    PoolSize,      \* tokens of the worker pool (anyio's limiter)
    MaxYields,     \* bound on the chunks of a stream or a session, for TLC
    MaxInstances,  \* bound on the instances ever made, for TLC
    Nobody, NoName

ASSUME NamesAssumption == AcrossYield \subseteq Locked /\ Locked \subseteq Names
ASSUME NobodyAssumption == Nobody \notin Requests /\ NoName \notin Names
ASSUME BoundsAssumption ==
    PoolSize \in Nat \ {0} /\ MaxYields \in Nat /\ MaxInstances \in Nat

VARIABLES
    job,     \* what each request asks for: a kind and a backend name
    pc,      \* where its handler, generator or thread is
    inst,    \* the backend instance it found or is unloading, or None
    sent,    \* the chunks it has yielded, a stream's WAV header included
    loop,    \* the request whose code occupies the event loop, or Nobody
    todo,    \* loaded_names not yet unloaded by the request on the loop
    victim,  \* the name it has popped from _BACKENDS and is unloading
    cache,   \* _BACKENDS: name -> instance or None
    loaded,  \* metrics.backend_loaded
    made,    \* instances made so far
    live,    \* those whose model (_tts, _pipeline) is not None
    holder   \* the request that holds an instance's lock, or Nobody

lifecycle == <<todo, victim, cache, loaded, made, live>>
servingVars == <<job, pc, inst, sent, loop, lifecycle, holder>>

None      == 0
Instances == 1 .. MaxInstances
Kinds     == {"batch", "stream", "session", "load", "unload", "reset"}

ASSUME JobsAssumption == Jobs \subseteq [kind : Kinds, name : Names]

Kind(r)   == job[r].kind
HasLock(r) == job[r].name \in Locked
Across(r) == Kind(r) = "stream" /\ job[r].name \in AcrossYield
Pooled(r) == Kind(r) \in {"stream", "session"}

(* Requests that hold a token of the pool: it is given back only when the  *)
(* loop resumes the task that waits for the thread.                        *)
Workers == {r \in Requests : Pooled(r) /\ pc[r] \in {"thread", "lock", "infer",
                                                     "back", "over"}}

Goto(r, l) == pc' = [pc EXCEPT ![r] = l]

ServingInit ==
    /\ job \in [Requests -> Jobs]
    /\ pc = [r \in Requests |-> "new"]
    /\ inst = [r \in Requests |-> None]
    /\ sent = [r \in Requests |-> 0]
    /\ loop = Nobody /\ todo = {} /\ victim = NoName
    /\ cache = [n \in Names |-> None]
    /\ loaded = [n \in Names |-> 0]
    /\ made = 0 /\ live = {}
    /\ holder = [i \in Instances |-> Nobody]

-----------------------------------------------------------------------------
(* On the event loop.                                                      *)

(* Faulty variant: the gauge is incremented at every use.                  *)
EnsureBackendCounted(r) ==
    LET n == job[r].name IN
    /\ \/ /\ cache[n] # None
          /\ inst' = [inst EXCEPT ![r] = cache[n]]
          /\ UNCHANGED <<cache, made, live>>
       \/ /\ cache[n] = None /\ made < MaxInstances
          /\ made' = made + 1
          /\ live' = live \cup {made'}
          /\ inst' = [inst EXCEPT ![r] = made']
          /\ cache' = [cache EXCEPT ![n] = made']
    /\ loaded' = [loaded EXCEPT ![n] = @ + 1]

(* _ensure_backend finds the instance in the cache, or makes and loads it. *)
EnsureBackend(r) ==
    LET n == job[r].name IN
    \/ /\ cache[n] # None
       /\ inst' = [inst EXCEPT ![r] = cache[n]]
       /\ UNCHANGED <<cache, loaded, made, live>>
    \/ /\ cache[n] = None /\ made < MaxInstances
       /\ made' = made + 1
       /\ live' = live \cup {made'}
       /\ inst' = [inst EXCEPT ![r] = made']
       /\ cache' = [cache EXCEPT ![n] = made']
       /\ loaded' = [loaded EXCEPT ![n] = 1]

(* The loop meets a new request that needs its backend.                    *)
Ensured(r) ==
    /\ loop = Nobody /\ pc[r] = "new"
    /\ EnsureBackend(r)
    /\ UNCHANGED <<job, sent, todo, victim, holder>>

(* Faulty variant: batch synthesis is moved off the loop.                  *)
SynthesizeSpeechOffLoop(r) ==
    /\ Kind(r) \in {"batch", "stream"} /\ Ensured(r)
    /\ Goto(r, IF Kind(r) = "batch" THEN "thread" ELSE "ready")
    /\ UNCHANGED loop

(* POST /v1/audio/speech.  The handler of a batch call, which a stream of  *)
(* another format than WAV is too, stays on the loop until it has the      *)
(* audio; that of a stream gives the loop back with its response.          *)
SynthesizeSpeech(r) ==
    /\ Kind(r) \in {"batch", "stream"} /\ Ensured(r)
    /\ Goto(r, IF Kind(r) = "batch" THEN "thread" ELSE "ready")
    /\ loop' = IF Kind(r) = "batch" THEN r ELSE Nobody

(* A session, which gives the loop back at its next await; the sample of a *)
(* preset is one with a single sentence.                                   *)
SamplePreset(r) ==
    /\ Kind(r) = "session" /\ Ensured(r)
    /\ Goto(r, "ready")
    /\ UNCHANGED loop

(* POST load answers at once.                                              *)
LoadBackend(r) ==
    /\ Kind(r) = "load" /\ Ensured(r)
    /\ Goto(r, "done")
    /\ UNCHANGED loop

(* Faulty variant: the instance is cached before it is loaded.             *)
StartFailsCached(r) ==
    /\ loop = Nobody
    /\ pc[r] = "new" /\ Kind(r) \in {"batch", "stream", "session", "load"}
    /\ cache[job[r].name] = None /\ made < MaxInstances
    /\ made' = made + 1
    /\ cache' = [cache EXCEPT ![job[r].name] = made']
    /\ Goto(r, "done")
    /\ UNCHANGED <<job, inst, sent, loop, todo, victim, loaded, live, holder>>

(* The module is not installed or load() raises: nothing is cached.        *)
StartFails(r) ==
    /\ loop = Nobody
    /\ pc[r] = "new" /\ Kind(r) \in {"batch", "stream", "session", "load"}
    /\ cache[job[r].name] = None
    /\ Goto(r, "done")
    /\ UNCHANGED <<job, inst, sent, loop, lifecycle, holder>>

(* The next chunk or sentence goes to a worker thread, if one is free.     *)
Submit(r) ==
    /\ loop = Nobody
    /\ pc[r] = "ready"
    /\ Kind(r) = "session" => sent[r] < MaxYields
    /\ Cardinality(Workers) < PoolSize
    /\ Goto(r, "thread")
    /\ UNCHANGED <<job, inst, sent, loop, lifecycle, holder>>

(* The thread is back: its token is free, the chunk is sent, or the stream *)
(* or session is over.                                                     *)
Resume(r) ==
    /\ loop = Nobody
    /\ Pooled(r) /\ pc[r] \in {"back", "over"}
    /\ Goto(r, IF pc[r] = "back" THEN "ready" ELSE "done")
    /\ UNCHANGED <<job, inst, sent, loop, lifecycle, holder>>

Released(r) == [i \in Instances |-> IF holder[i] = r THEN Nobody ELSE holder[i]]

(* Faulty variant: the generator of a client that left is never closed.    *)
CloseUnreleased(r) ==
    /\ loop = Nobody
    /\ pc[r] = "ready"
    /\ Goto(r, "done")
    /\ UNCHANGED <<job, inst, sent, loop, lifecycle, holder>>

(* The client has left, or a session has no further sentence.  Closing a   *)
(* suspended generator leaves its "with self._lock".                       *)
Close(r) ==
    /\ loop = Nobody
    /\ pc[r] = "ready"
    /\ Goto(r, "done")
    /\ holder' = Released(r)
    /\ UNCHANGED <<job, inst, sent, loop, lifecycle>>

(* A batch handler answers and leaves the loop.                            *)
Reply(r) ==
    /\ loop = r
    /\ Kind(r) = "batch" /\ pc[r] = "over"
    /\ Goto(r, "done")
    /\ loop' = Nobody
    /\ UNCHANGED <<job, inst, sent, lifecycle, holder>>

-----------------------------------------------------------------------------
(* In a worker thread, or for a batch call on the loop itself: the code of *)
(* the backends.                                                           *)

(* The first next() of a stream yields the WAV header.                     *)
Header(r) ==
    /\ pc[r] = "thread"
    /\ Kind(r) = "stream" /\ sent[r] = 0
    /\ sent' = [sent EXCEPT ![r] = 1]
    /\ Goto(r, "back")
    /\ UNCHANGED <<job, inst, loop, lifecycle, holder>>

(* A generator that has begun goes on without looking at its model again:  *)
(* it kept the lock, or (kokoro) the pipeline.                             *)
Begun(r) == Kind(r) = "stream" /\ sent[r] > 1 /\ (Across(r) \/ ~HasLock(r))

(* "if self._tts is None: raise", outside the lock; then the lock.         *)
Enter(r) ==
    /\ pc[r] = "thread"
    /\ Kind(r) = "stream" => sent[r] > 0
    /\ sent[r] <= MaxYields
    /\ \/ Begun(r) /\ Goto(r, "infer")
       \/ ~Begun(r) /\ inst[r] \notin live /\ Goto(r, "over")
       \/ ~Begun(r) /\ inst[r] \in live /\ Goto(r, IF HasLock(r) THEN "lock" ELSE "infer")
    /\ UNCHANGED <<job, inst, sent, loop, lifecycle, holder>>

(* The text has no further chunk: StopIteration.                           *)
Exhausted(r) ==
    /\ pc[r] = "thread"
    /\ Kind(r) = "stream" /\ sent[r] > 1
    /\ Goto(r, "over")
    /\ holder' = Released(r)
    /\ UNCHANGED <<job, inst, sent, loop, lifecycle>>

(* Faulty variant: the lock is not waited for.                             *)
AcquireAnyway(r) ==
    /\ pc[r] = "lock"
    /\ IF inst[r] \in live
         THEN holder' = [holder EXCEPT ![inst[r]] = r] /\ Goto(r, "infer")
         ELSE Goto(r, "over") /\ UNCHANGED holder
    /\ UNCHANGED <<job, inst, sent, loop, lifecycle>>

(* "with self._lock: self._tts.infer(...)"; if the model has gone in the   *)
(* meantime the attribute error leaves the "with" at once.                 *)
Acquire(r) ==
    /\ pc[r] = "lock"
    /\ holder[inst[r]] = Nobody
    /\ IF inst[r] \in live
         THEN holder' = [holder EXCEPT ![inst[r]] = r] /\ Goto(r, "infer")
         ELSE Goto(r, "over") /\ UNCHANGED holder
    /\ UNCHANGED <<job, inst, sent, loop, lifecycle>>

(* The audio is there; only a stream that yields inside the "with" keeps   *)
(* the lock.                                                               *)
Infer(r) ==
    /\ pc[r] = "infer"
    /\ Goto(r, IF Kind(r) = "batch" THEN "over" ELSE "back")
    /\ sent' = [sent EXCEPT ![r] = @ + 1]
    /\ holder' = IF Across(r) THEN holder ELSE Released(r)
    /\ UNCHANGED <<job, inst, loop, lifecycle>>

(* Faulty variant: acquire() and release() with no try/finally between.    *)
InferRaisesLocked(r) ==
    /\ pc[r] = "infer"
    /\ Goto(r, "over")
    /\ UNCHANGED <<job, inst, sent, loop, lifecycle, holder>>

InferRaises(r) ==
    /\ pc[r] = "infer"
    /\ Goto(r, "over")
    /\ holder' = Released(r)
    /\ UNCHANGED <<job, inst, sent, loop, lifecycle>>

-----------------------------------------------------------------------------
(* unload_backend_endpoint and unload_all_backends: on the loop throughout.*)

StartUnload(r, names) ==
    /\ loop = Nobody /\ pc[r] = "new"
    /\ loop' = r
    /\ todo' = {n \in names : cache[n] # None}
    /\ Goto(r, "pop")
    /\ UNCHANGED <<job, inst, sent, victim, cache, loaded, made, live, holder>>

UnloadBackend(r) == Kind(r) = "unload" /\ StartUnload(r, {job[r].name})
UnloadAll(r)     == Kind(r) = "reset" /\ StartUnload(r, Names)

Pop(r) ==
    /\ loop = r /\ pc[r] = "pop"
    /\ \E n \in todo :
         /\ victim' = n
         /\ todo' = todo \ {n}
         /\ inst' = [inst EXCEPT ![r] = cache[n]]
         /\ cache' = [cache EXCEPT ![n] = None]
    /\ Goto(r, "drop")
    /\ UNCHANGED <<job, sent, loop, loaded, made, live, holder>>

(* Faulty variant: unload does not take the lock.                          *)
DropUnlocked(r) ==
    /\ loop = r /\ pc[r] = "drop"
    /\ live' = live \ {inst[r]}
    /\ loaded' = [loaded EXCEPT ![victim] = 0]
    /\ victim' = NoName
    /\ Goto(r, "pop")
    /\ UNCHANGED <<job, inst, sent, loop, todo, cache, made, holder>>

(* backend.unload(): "with self._lock: self._tts = None", or without the   *)
(* lock where the backend has none.                                        *)
Drop(r) ==
    /\ loop = r /\ pc[r] = "drop"
    /\ victim \in Locked => holder[inst[r]] = Nobody
    /\ live' = live \ {inst[r]}
    /\ loaded' = [loaded EXCEPT ![victim] = 0]
    /\ victim' = NoName
    /\ Goto(r, "pop")
    /\ UNCHANGED <<job, inst, sent, loop, todo, cache, made, holder>>

EndUnload(r) ==
    /\ loop = r /\ pc[r] = "pop" /\ todo = {}
    /\ loop' = Nobody
    /\ Goto(r, "done")
    /\ UNCHANGED <<job, inst, sent, lifecycle, holder>>

-----------------------------------------------------------------------------
OnLoop(r)   == \/ SynthesizeSpeech(r) \/ SamplePreset(r) \/ LoadBackend(r) \/ StartFails(r)
               \/ Submit(r) \/ Resume(r) \/ Close(r) \/ Reply(r)
               \/ UnloadBackend(r) \/ UnloadAll(r) \/ Pop(r) \/ Drop(r) \/ EndUnload(r)
InThread(r) == Header(r) \/ Enter(r) \/ Exhausted(r) \/ Acquire(r) \/ Infer(r)
               \/ InferRaises(r)

ServingNext == \E r \in Requests : OnLoop(r) \/ InThread(r)

ServingSpec == ServingInit /\ [][ServingNext]_servingVars

(* The loop serves every task that is ready, threads run, inferences end,  *)
(* a client reads on or leaves, and sessions come to an end.               *)
ServingFairness ==
    \A r \in Requests : WF_servingVars(OnLoop(r)) /\ WF_servingVars(InThread(r))

ServingFairSpec == ServingSpec /\ ServingFairness

-----------------------------------------------------------------------------
(* Properties.                                                             *)

ServingTypeOK ==
    /\ job \in [Requests -> Jobs]
    /\ pc \in [Requests -> {"new", "ready", "thread", "lock", "infer", "back",
                            "over", "pop", "drop", "done"}]
    /\ inst \in [Requests -> {None} \cup Instances]
    /\ sent \in [Requests -> Nat]
    /\ loop \in Requests \cup {Nobody}
    /\ todo \subseteq Names /\ victim \in Names \cup {NoName}
    /\ cache \in [Names -> {None} \cup Instances]
    /\ loaded \in [Names -> 0 .. 1]
    /\ made \in 0 .. MaxInstances
    /\ live \subseteq 1 .. made
    /\ holder \in [Instances -> Requests \cup {Nobody}]

(* Two inferences never run at a time on one instance of a backend that    *)
(* has a lock, whether they come from the loop or from worker threads.     *)
Serialized ==
    \A r, s \in Requests :
        (pc[r] = "infer" /\ pc[s] = "infer" /\ HasLock(r) /\ inst[r] = inst[s])
            => r = s

(* No unload takes the model from under an inference of such a backend.    *)
InferenceHasModel ==
    \A r \in Requests : (pc[r] = "infer" /\ HasLock(r)) => inst[r] \in live

(* A lock is held only by a request that will give it back: one that is in *)
(* its inference, or a stream that yields inside the "with" and is not     *)
(* over.  None is left held by an exception, a finished stream or a client *)
(* that has left.                                                          *)
LockIsReturned ==
    \A i \in Instances : holder[i] # Nobody =>
        LET r == holder[i] IN
        /\ inst[r] = i
        /\ \/ pc[r] = "infer"
           \/ Across(r) /\ pc[r] \in {"ready", "thread", "back"} /\ sent[r] > 1

(* A batch call is never told that the backend it has just ensured is not  *)
(* loaded: it holds the loop, so no unload comes between.                  *)
BatchKeepsItsModel ==
    \A r \in Requests :
        (Kind(r) = "batch" /\ pc[r] \in {"thread", "lock", "infer"}) => inst[r] \in live

(* Whenever a handler can look, the models in memory are those in the      *)
(* cache, one for a name, and the gauge that /metrics exports says so: no  *)
(* model is leaked by unload, reset or a failed load.                      *)
CacheIsHonest ==
    loop = Nobody =>
        /\ live = {cache[n] : n \in Names} \ {None}
        /\ \A m, n \in Names : cache[m] = cache[n] /\ cache[m] # None => m = n
        /\ \A n \in Names : loaded[n] = 1 <=> cache[n] # None

(* Where no stream keeps a lock between its chunks, every call of the      *)
(* server is answered: the loop is given back and every lock is.           *)
EveryCallIsAnswered ==
    (\A r \in Requests : ~Across(r)) => \A r \in Requests : <>(pc[r] = "done")

(* docs/ARCHITECTURE.md 179: "Different backends can run in parallel": a   *)
(* call of a backend that keeps no lock across its chunks is answered,     *)
(* whatever the calls of the others do.                                    *)
BackendsRunInParallel ==
    \A r \in Requests :
        (Pooled(r) /\ job[r].name \notin AcrossYield) => <>(pc[r] = "done")

=============================================================================
