----------------------------- MODULE VoiceStore -----------------------------
(***************************************************************************)
(* The voice registry of registry/__init__.py: a directory per voice, with *)
(* ref.wav, ref.txt and metadata.json, on which the server's handlers and  *)
(* the commands of the CLI work, each of them in its own process and none  *)
(* with a lock.  Every file is written in place: it is truncated first,    *)
(* and a process may be killed between any two steps.                      *)
(*                                                                         *)
(* A job is one call: of a handler of server.py, all of which run on its   *)
(* event loop and never await while they use the registry; or of a command *)
(* of cli.py, or of another server on the same registry.                   *)
(*                                                                         *)
(* Abstraction.  What a job writes is its number: job j brings recording   *)
(* j with transcript j, and sets fields of the metadata to j; what was     *)
(* there at the beginning is from job 0.  A file is truncated in one step  *)
(* and written in another.  The temporary file of a trim is left out, and  *)
(* so is what a job does before it comes to the registry.                  *)
(***************************************************************************)
EXTENDS Naturals, FiniteSets

CONSTANTS
    Voices,   \* voice ids
    MaxJobs,  \* bound on the jobs, for TLC
    Absent,   \* no such file
    Torn      \* a file truncated and not written

Fields == {"persona", "backend", "sampling"}  \* of metadata.json, changed by themselves

ASSUME MaxJobsAssumption == MaxJobs \in Nat
ASSUME ContentAssumption ==
    /\ Absent # Torn /\ Absent \notin Nat /\ Torn \notin Nat
    /\ Absent \notin [Fields -> Nat] /\ Torn \notin [Fields -> Nat]

Tasks      == 1 .. MaxJobs
VoiceFiles == {"audio", "text", "meta"}
TaskKinds  == {"clone", "preset", "presetText", "cover", "delete", "edit", "retrim"}

Presets       == {"preset", "presetText"}   \* without a recording; the second brings a transcript
Registrations == {"clone"} \cup Presets
NoFiles       == [f \in VoiceFiles |-> Absent]

Recordings == {Absent, Torn} \cup 0 .. MaxJobs
Metadata   == {Absent, Torn} \cup [Fields -> 0 .. MaxJobs]

VARIABLES
    dirs,    \* the voices that have a directory
    disk,    \* the files in it
    task,    \* what each job is
    step,    \* where it is
    file,    \* the file it is about to write
    seen,    \* the voice as a job has read it
    left,    \* the files a delete has still to unlink
    alone,   \* the jobs that no other has disturbed
    report,  \* what the jobs that were reported done have made of each voice
    sound    \* the voices to which nothing else has happened

kept == <<dirs, disk>>
ghost == <<alone, report, sound>>
storeVars == <<kept, task, step, file, seen, left, ghost>>

NoJob == [kind |-> "none", voice |-> "none", from |-> "none",
          field |-> "none", over |-> FALSE, onLoop |-> FALSE]

Whole(j) == [audio |-> j, text |-> j, meta |-> [f \in Fields |-> j]]
Bare(j)  == [Whole(j) EXCEPT !.audio = Absent, !.text = Absent]

StoreInit ==
    /\ dirs \in SUBSET Voices
    /\ disk \in [Voices -> {NoFiles, Whole(0), Bare(0)}]
    /\ \A v \in Voices : v \in dirs <=> disk[v] # NoFiles
    /\ task = [j \in Tasks |-> NoJob]
    /\ step = [j \in Tasks |-> "new"] /\ file = [j \in Tasks |-> "audio"]
    /\ seen = [j \in Tasks |-> NoFiles]
    /\ left = [j \in Tasks |-> {}]
    /\ alone = Tasks /\ report = disk /\ sound = Voices

Over       == {"done", "refused", "failed", "killed"}
Working(j) == step[j] \notin {"new"} \cup Over

-----------------------------------------------------------------------------
(* Jobs begin.                                                             *)

(* Two jobs that work on a voice at a time, of which one at least is not   *)
(* on the server's loop, disturb each other; who only reads disturbs none. *)
Clash(i, p) == /\ Working(i)
               /\ ~(task[i].onLoop /\ p.onLoop)
               /\ \/ p.voice \in {task[i].voice, task[i].from}
                  \/ p.from = task[i].voice

(* A handler has the loop to itself.                                       *)
Begin(j, p) ==
    /\ p.onLoop => \A i \in Tasks : Working(i) => ~task[i].onLoop
    /\ step[j] = "new" /\ \A i \in Tasks : i < j => step[i] # "new"
    /\ task' = [task EXCEPT ![j] = p]
    /\ step' = [step EXCEPT ![j] = IF p.kind \in Registrations THEN "check" ELSE "look"]
    /\ LET clashing == {i \in Tasks : Clash(i, p)} IN
       /\ alone' = IF clashing = {} THEN alone ELSE alone \ (clashing \cup {j})
       /\ sound' = sound \ {task[i].voice : i \in clashing}
    /\ UNCHANGED <<kept, file, seen, left, report>>

Job(kind, v, onLoop) == [NoJob EXCEPT !.kind = kind, !.voice = v, !.onLoop = onLoop]

(* A recording of its own, with which a voice is registered.               *)
CloneVoice(j, onLoop) == \E v \in Voices, over \in BOOLEAN :
    Begin(j, [Job("clone", v, onLoop) EXCEPT !.over = over])

(* register_voice: an uploaded recording, transcribed if need be.          *)
RegisterVoice(j) == CloneVoice(j, TRUE)

(* pull_from_elevenlabs: the preview of a voice of ElevenLabs, trimmed.    *)
PullFromElevenlabs(j) == CloneVoice(j, TRUE)

(* forge_pick: a voice made of a generated preview.                        *)
ForgePick(j) == CloneVoice(j, TRUE)

(* voice from-elevenlabs, which pulls in another process.                  *)
VoiceFromElevenlabs(j) == CloneVoice(j, FALSE)

(* voice add, with a recording, which is transcribed if need be, or with a *)
(* preset, to which --ref-text may be given as well.                       *)
VoiceAdd(j) == \E v \in Voices, over \in BOOLEAN, kind \in Registrations :
    Begin(j, [Job(kind, v, FALSE) EXCEPT !.over = over])

(* ensure_full_coverage, at the server's start: a variant of a voice for   *)
(* another backend, made of the voice's own files.                         *)
Cover(j) == \E u \in Voices, v \in Voices :
    u # v /\ Begin(j, [Job("cover", v, TRUE) EXCEPT !.from = u])

(* DELETE /voices.                                                         *)
DeleteVoice(j) == \E v \in Voices : Begin(j, Job("delete", v, TRUE))

(* voice delete, which looks first whether there is such a voice.          *)
VoiceDelete(j) == \E v \in Voices : Begin(j, Job("delete", v, FALSE))

(* bind_persona, bind_backend and voice tune each set one field.           *)
Edit(j, f, onLoop) == \E v \in Voices :
    Begin(j, [Job("edit", v, onLoop) EXCEPT !.field = f])

BindPersona(j) == Edit(j, "persona", TRUE)
BindBackend(j) == Edit(j, "backend", TRUE)
Tune(j)        == Edit(j, "sampling", FALSE)

(* voice retrim.                                                           *)
Retrim(j) == \E v \in Voices : Begin(j, [Job("retrim", v, FALSE) EXCEPT !.over = TRUE])

-----------------------------------------------------------------------------
(* Jobs end.                                                               *)

TaskKind(j) == task[j].kind
Here(j)     == disk[task[j].voice]
GoTo(j, l)  == step' = [step EXCEPT ![j] = l] /\ UNCHANGED file
TurnTo(j, f) == step' = [step EXCEPT ![j] = "open"] /\ file' = [file EXCEPT ![j] = f]

(* An exception before anything was changed.                               *)
Refuse(j) == /\ GoTo(j, "refused")
             /\ UNCHANGED <<kept, task, seen, left, ghost>>

(* An exception on the way, or the end of the process.                     *)
Abort(j, how) == /\ GoTo(j, how)
                 /\ sound' = sound \ {task[j].voice}
                 /\ UNCHANGED <<kept, task, seen, left, alone, report>>

(* What a job that is done has made of its voice: a registration, all of   *)
(* it.  No retrim is ever done, see Copiable.                              *)
Outcome(j) ==
    LET old == report[task[j].voice] IN
    CASE TaskKind(j) = "clone"      -> Whole(j)
      [] TaskKind(j) = "preset"     -> Bare(j)
      [] TaskKind(j) = "presetText" -> [Whole(j) EXCEPT !.audio = Absent]
      [] TaskKind(j) = "cover"      -> [report[task[j].from] EXCEPT !.meta = Whole(j).meta]
      [] TaskKind(j) = "delete"     -> NoFiles
      [] TaskKind(j) = "edit"       -> [old EXCEPT !.meta[task[j].field] = j]

(* What a job builds on is sound: a recording brought or a voice removed   *)
(* makes its voice sound whatever it was.  A preset does not: the files it *)
(* does not bring stay what they were (see OverwriteReplaces).             *)
WellFounded(j) ==
    LET old == report[task[j].voice] IN
    CASE TaskKind(j) \in {"clone", "delete"} -> TRUE
      [] TaskKind(j) = "cover"      -> task[j].from \in sound
      [] TaskKind(j) = "edit"       -> task[j].voice \in sound
      [] TaskKind(j) = "preset"     -> task[j].voice \in sound /\ old.audio = Absent /\ old.text = Absent
      [] TaskKind(j) = "presetText" -> task[j].voice \in sound /\ old.audio = Absent

Done(j) ==
    LET v == task[j].voice IN
    /\ GoTo(j, "done")
    /\ sound' = IF j \in alone /\ WellFounded(j)
                  THEN sound \cup {v} ELSE sound \ {v}
    /\ report' = IF v \in sound' THEN [report EXCEPT ![v] = Outcome(j)] ELSE report
    /\ UNCHANGED <<kept, task, seen, left, alone>>

(* The process of a job is killed.                                         *)
Kill(j) == Working(j) /\ Abort(j, "killed")

-----------------------------------------------------------------------------
(* Reading.                                                                *)

(* get and the first half of set_persona, set_backend and tune: the        *)
(* directory is there, and metadata.json can be read.  A voice is read in  *)
(* one step.                                                               *)
Source(j) == IF TaskKind(j) = "cover" THEN task[j].from ELSE task[j].voice

Readable(j) == /\ Source(j) \in dirs
               /\ disk[Source(j)].meta \notin {Absent, Torn}
               /\ TaskKind(j) \in {"cover", "retrim"} => disk[Source(j)].audio # Absent

Look(j) ==
    /\ step[j] = "look" /\ TaskKind(j) # "delete"
    /\ \/ ~Readable(j) /\ Refuse(j)
       \/ /\ Readable(j)
          /\ seen' = [seen EXCEPT ![j] = disk[Source(j)]]
          /\ CASE TaskKind(j) = "edit"   -> TurnTo(j, "meta")
               [] TaskKind(j) = "retrim" -> GoTo(j, "trim")
               [] TaskKind(j) = "cover"  -> GoTo(j, "check")
          /\ UNCHANGED <<kept, task, left, ghost>>

(* trim_to_sentence_boundary raises, for want of a boundary or of the      *)
(* file, or moves the trimmed recording over the old one.                  *)
Trim(j) ==
    /\ step[j] = "trim"
    /\ \/ Refuse(j)
       \/ /\ task[j].voice \in dirs
          /\ disk' = [disk EXCEPT ![task[j].voice].audio = j]
          /\ GoTo(j, "check")
          /\ UNCHANGED <<dirs, task, seen, left, ghost>>

-----------------------------------------------------------------------------
(* register.                                                               *)

Check(j) ==
    /\ step[j] = "check"
    /\ \/ task[j].voice \in dirs /\ ~task[j].over /\ Refuse(j)
       \/ /\ task[j].voice \notin dirs \/ task[j].over
          /\ GoTo(j, "make")
          /\ UNCHANGED <<kept, task, seen, left, ghost>>

Make(j) ==
    /\ step[j] = "make"
    /\ dirs' = dirs \cup {task[j].voice}
    /\ TurnTo(j, CASE TaskKind(j) = "preset"     -> "meta"
                 [] TaskKind(j) = "presetText" -> "text"
                 [] OTHER                  -> "audio")
    /\ UNCHANGED <<disk, task, seen, left, ghost>>

(* copy2 of the recording: of a registered voice it may have gone, and a   *)
(* retrim copies ref.wav to itself (SameFileError).                        *)
Copiable(j) == /\ TaskKind(j) # "retrim"
               /\ TaskKind(j) = "cover" => disk[task[j].from].audio # Absent

Open(j) ==
    LET v == task[j].voice IN
    /\ step[j] = "open"
    /\ \/ /\ v \in dirs /\ (file[j] = "audio" => Copiable(j))
          /\ disk' = [disk EXCEPT ![v][file[j]] = Torn]
          /\ GoTo(j, "write")
          /\ UNCHANGED <<dirs, task, seen, left, ghost>>
       \/ /\ v \notin dirs \/ (file[j] = "audio" /\ ~Copiable(j))
          /\ Abort(j, "failed")

(* Faulty variant: metadata.json is made of the changed field alone.       *)
ContentFresh(j) ==
    CASE file[j] = "audio" -> IF TaskKind(j) = "cover" THEN disk[task[j].from].audio ELSE j
      [] file[j] = "text"  -> IF TaskKind(j) = "cover" THEN seen[j].text ELSE j
      [] file[j] = "meta"  -> Whole(j).meta

Content(j) ==
    CASE file[j] = "audio" -> IF TaskKind(j) = "cover" THEN disk[task[j].from].audio ELSE j
      [] file[j] = "text"  -> IF TaskKind(j) = "cover" THEN seen[j].text ELSE j
      [] file[j] = "meta"  -> IF TaskKind(j) = "edit"
                                THEN [seen[j].meta EXCEPT ![task[j].field] = j]
                                ELSE Whole(j).meta

(* What follows a file; a voice without transcript gets none.              *)
Proceed(j) ==
    CASE file[j] = "audio" -> TurnTo(j, IF TaskKind(j) = "cover" /\ seen[j].text = Absent
                                        THEN "meta" ELSE "text")
      [] file[j] = "text"  -> TurnTo(j, "meta")
      [] file[j] = "meta"  -> GoTo(j, "load")

(* The file may have been unlinked since it was opened: nothing is written *)
(* then, and copy2, which sets the times of ref.wav by its name, raises.   *)
(* A recording unlinked while it is copied is read as far as it was.       *)
(* A file unlinked and created anew counts as the one that was opened.      *)
Write(j) ==
    LET v == task[j].voice
        there == Here(j)[file[j]] # Absent IN
    /\ step[j] = "write"
    /\ \/ /\ there
          /\ disk' = [disk EXCEPT ![v][file[j]] =
                         IF Content(j) = Absent THEN Torn ELSE Content(j)]
          /\ Proceed(j)
          /\ UNCHANGED <<dirs, task, seen, left, ghost>>
       \/ /\ ~there /\ file[j] # "audio"
          /\ Proceed(j)
          /\ UNCHANGED <<kept, task, seen, left, ghost>>
       \/ /\ ~there /\ file[j] = "audio"
          /\ Abort(j, "failed")

(* _load_voice at the end of register, tune, set_persona and set_backend.  *)
Load(j) ==
    /\ step[j] = "load"
    /\ IF Here(j).meta \in {Absent, Torn} THEN Abort(j, "failed") ELSE Done(j)

-----------------------------------------------------------------------------
(* delete: rmtree lists the directory, unlinks each file and removes it.   *)
(* A voice that is not there is no error, or, to the command, a wrong one, *)
(* unless it goes between the two looks of the command.                    *)

Scan(j) ==
    /\ step[j] = "look" /\ TaskKind(j) = "delete"
    /\ \/ /\ task[j].voice \in dirs
          /\ left' = [left EXCEPT ![j] = {f \in VoiceFiles : Here(j)[f] # Absent}]
          /\ GoTo(j, "unlink")
          /\ UNCHANGED <<kept, task, seen, ghost>>
       \/ task[j].voice \notin dirs /\ Done(j)
       \/ task[j].voice \notin dirs /\ ~task[j].onLoop /\ Refuse(j)

Unlink(j) ==
    /\ step[j] = "unlink"
    /\ \E f \in left[j] :
         \/ /\ Here(j)[f] # Absent
            /\ disk' = [disk EXCEPT ![task[j].voice][f] = Absent]
            /\ left' = [left EXCEPT ![j] = @ \ {f}]
            /\ UNCHANGED <<dirs, task, step, file, seen, ghost>>
         \/ Here(j)[f] = Absent /\ Abort(j, "failed")

(* rmdir fails if the directory has gone or is not empty.                  *)
RemoveDir(j) ==
    /\ step[j] = "unlink" /\ left[j] = {}
    /\ \/ /\ task[j].voice \in dirs /\ Here(j) = NoFiles
          /\ dirs' = dirs \ {task[j].voice}
          /\ GoTo(j, "removed")
          /\ UNCHANGED <<disk, task, seen, left, ghost>>
       \/ /\ task[j].voice \notin dirs \/ Here(j) # NoFiles
          /\ Abort(j, "failed")

Removed(j) == step[j] = "removed" /\ Done(j)

-----------------------------------------------------------------------------
Step(j) == \/ RegisterVoice(j) \/ PullFromElevenlabs(j) \/ ForgePick(j)
           \/ VoiceFromElevenlabs(j) \/ VoiceAdd(j) \/ Cover(j) \/ Retrim(j)
           \/ DeleteVoice(j) \/ VoiceDelete(j)
           \/ BindPersona(j) \/ BindBackend(j) \/ Tune(j)
           \/ Look(j) \/ Trim(j) \/ Check(j) \/ Make(j)
           \/ Open(j) \/ Write(j) \/ Load(j) \/ Scan(j) \/ Unlink(j) \/ RemoveDir(j) \/ Removed(j)
           \/ Kill(j)

StoreNext == \E j \in Tasks : Step(j)

StoreSpec == StoreInit /\ [][StoreNext]_storeVars

-----------------------------------------------------------------------------
(* Properties.                                                             *)

(* The registry is what its jobs have been reported to make of it: a voice *)
(* that is not being worked on has the recording, the transcript and every *)
(* field of the metadata that the last jobs gave it, and none of another's *)
(* files, unless a job on it was killed or raised on its way, or worked at *)
(* the same time as a job of another process, or put a preset over other   *)
(* files; and then a registration of a recording or a delete that is not   *)
(* disturbed puts it right.                                                *)
StoreIsAsReported ==
    \A v \in sound :
        (\A j \in Tasks : Working(j) => task[j].voice # v) => disk[v] = report[v]

(* registry/__init__.py 158, "Set overwrite=True to replace an existing    *)
(* voice", and 6-7, "absent for preset-voice backends": a voice that was   *)
(* registered with a preset, and not touched since, has no recording, and  *)
(* no transcript it was not given.                                         *)
OverwriteReplaces ==
    \A j \in Tasks :
        (/\ TaskKind(j) \in Presets /\ step[j] = "done" /\ j \in alone
         /\ \A i \in Tasks : i > j => step[i] = "new")
            => disk[task[j].voice] = Outcome(j)

=============================================================================
