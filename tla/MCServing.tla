----------------------------- MODULE MCServing -----------------------------
(***************************************************************************)
(* Three calls of a server with a pool of two threads and backends that    *)
(* lock in the three ways the code has: f5 (and xtts, dia, and the batch   *)
(* calls of neutts) around each inference, neutts around a whole stream,   *)
(* kokoro (and the subprocess backends) not at all.                        *)
(***************************************************************************)
EXTENDS Serving, TLC

CONSTANTS f5, neutts, kokoro

CallsOf(kinds, names) == [kind : kinds, name : names]

(* Everything that can be asked for; the name of a reset means nothing.    *)
AllJobs == CallsOf(Kinds \ {"reset"}, {f5, neutts, kokoro})
           \cup CallsOf({"reset"}, {f5})

(* What a server is asked of which nothing is wanted.                      *)
NothingAsked == job = [r \in Requests |-> [kind |-> "unload", name |-> f5]]

(* No backend that keeps its lock.                                         *)
PerChunkJobs == CallsOf({"batch", "stream", "session", "unload"}, {f5})
                \cup CallsOf({"stream"}, {kokoro})

(* The calls of the claim of docs/ARCHITECTURE.md that fails.              *)
NeuttsJobs == CallsOf({"batch", "stream"}, {neutts}) \cup CallsOf({"stream"}, {kokoro})

Symmetry == Permutations(Requests)
=============================================================================
