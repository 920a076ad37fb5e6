--------------------------- MODULE VoiceStoreProofs ---------------------------
(***************************************************************************)
(* The registry is what its jobs were reported to make of it, proved for   *)
(* every number of voices and jobs, of the server and of other processes,  *)
(* interleaved file by file and killed anywhere.                           *)
(*                                                                         *)
(* A job that no other has disturbed has its voice, and the one it copies, *)
(* to itself: nobody else's step changes them.  What it leaves at its end  *)
(* is then what it says, file by file, and what it builds on is what was   *)
(* reported.                                                               *)
(***************************************************************************)
EXTENDS VoiceStore, TLAPS

Entry == [audio : Recordings, text : Recordings, meta : Metadata]

Labels == {"new", "look", "trim", "check", "make", "open", "write", "load",
           "unlink", "removed"} \cup Over

TypeInv ==
    /\ dirs \in SUBSET Voices /\ sound \in SUBSET Voices
    /\ disk \in [Voices -> Entry] /\ report \in [Voices -> Entry]
    /\ task = [j \in Tasks |-> task[j]]
    /\ step \in [Tasks -> Labels] /\ file \in [Tasks -> VoiceFiles]
    /\ seen \in [Tasks -> Entry] /\ left \in [Tasks -> SUBSET VoiceFiles]

(* What a job may be.                                                      *)
Sane(p) ==
    /\ p.kind \in TaskKinds /\ p.voice \in Voices
    /\ p.over \in BOOLEAN /\ p.onLoop \in BOOLEAN
    /\ p.kind = "cover"  => p.from \in Voices /\ p.from # p.voice /\ ~p.over
    /\ p.kind = "edit"   => p.field \in Fields
    /\ p.kind = "retrim" => p.over

(* Where a job of a kind may be, and at which file.  A retrim never gets   *)
(* beyond its first file.                                                  *)
PlaceInv(j) ==
    Working(j) =>
        /\ Sane(task[j])
        /\ step[j] = "look" => TaskKind(j) \in {"cover", "edit", "retrim", "delete"}
        /\ step[j] = "trim" => TaskKind(j) = "retrim"
        /\ step[j] \in {"check", "make"} => TaskKind(j) \in Registrations \cup {"cover", "retrim"}
        /\ step[j] = "open"  => TaskKind(j) # "delete"
        /\ step[j] \in {"open", "write"} /\ TaskKind(j) \in {"preset", "edit"} => file[j] = "meta"
        /\ step[j] \in {"open", "write"} /\ TaskKind(j) = "presetText" => file[j] \in {"text", "meta"}
        /\ step[j] \in {"open", "write"} /\ TaskKind(j) = "retrim" => step[j] = "open" /\ file[j] = "audio"
        /\ step[j] \in {"write", "load"} => TaskKind(j) \in Registrations \cup {"cover", "edit"}
        /\ step[j] \in {"unlink", "removed"} => TaskKind(j) = "delete"
        /\ step[j] \in {"open", "write", "load"} /\ TaskKind(j) = "edit" =>
             seen[j].meta \in [Fields -> 0 .. MaxJobs]

DirInv(v) == v \notin dirs => disk[v] = NoFiles

(* Two jobs have to do with the same voice.                                *)
Touch(i, j) == \/ task[j].voice \in {task[i].voice, task[i].from}
               \/ task[j].from = task[i].voice

(* Only one handler has the loop; who is alone has its voices to itself;   *)
(* and no voice that two work on is sound.                                 *)
RivalInv ==
    \A i, j \in Tasks : i # j /\ Working(i) /\ Working(j) =>
        /\ ~(task[i].onLoop /\ task[j].onLoop)
        /\ Touch(i, j) => j \notin alone
        /\ task[i].voice = task[j].voice => task[i].voice \notin sound

(* A job that has not begun to change its voice.                           *)
Early(j) == step[j] \in {"look", "trim"} \/ (step[j] = "check" /\ TaskKind(j) # "retrim")

SoundInv(v) ==
    v \in sound /\ (\A j \in Tasks : Working(j) /\ task[j].voice = v => Early(j))
      => disk[v] = report[v]

(* What an undisturbed job has made so far, and what it builds on.         *)
Before(j) ==
    CASE step[j] = "load" -> VoiceFiles
      [] step[j] \in {"open", "write"} /\ file[j] = "text" -> {"audio"}
      [] step[j] \in {"open", "write"} /\ file[j] = "meta" -> {"audio", "text"}
      [] OTHER -> {}

Brought(j) == IF TaskKind(j) = "clone" THEN VoiceFiles ELSE {"text", "meta"}

BringInv(j) == TaskKind(j) \in {"clone", "presetText"} =>
    \A f \in Before(j) \cap Brought(j) : Here(j)[f] = Whole(j)[f]

KeepInv(j) ==
    TaskKind(j) \in Presets \cup {"edit"} /\ task[j].voice \in sound
        /\ step[j] \in {"make", "open", "write", "load"} =>
          /\ Here(j).audio = report[task[j].voice].audio
          /\ TaskKind(j) # "presetText" => Here(j).text = report[task[j].voice].text

PresetInv(j) == TaskKind(j) = "preset" /\ step[j] = "load" => Here(j).meta = Whole(j).meta

EditInv(j) ==
    TaskKind(j) = "edit" /\ step[j] \in {"open", "write", "load"} =>
        /\ task[j].voice \in sound => seen[j].meta = report[task[j].voice].meta
        /\ step[j] = "load" => Here(j).meta = [seen[j].meta EXCEPT ![task[j].field] = j]

CoverInv(j) ==
    TaskKind(j) = "cover" /\ step[j] \in {"check", "make", "open", "write", "load"} =>
        /\ task[j].from \in sound => seen[j].text = report[task[j].from].text
        /\ step[j] = "make" => Here(j) = NoFiles
        /\ step[j] \in {"open", "write"} /\ file[j] = "audio" => Here(j).text = Absent
        /\ step[j] = "write" /\ file[j] = "audio" => disk[task[j].from].audio # Absent
        /\ step[j] \in {"open", "write"} /\ file[j] = "text" => seen[j].text # Absent
        /\ "text" \in Before(j) => Here(j).text = seen[j].text
        /\ task[j].from \in sound /\ "audio" \in Before(j) =>
             Here(j).audio = report[task[j].from].audio
        /\ step[j] = "load" => Here(j).meta = Whole(j).meta

OwnInv(j) ==
    j \in alone /\ Working(j) =>
        /\ step[j] = "write" => Here(j)[file[j]] = Torn
        /\ step[j] = "removed" => Here(j) = NoFiles
        /\ BringInv(j) /\ KeepInv(j) /\ PresetInv(j) /\ EditInv(j) /\ CoverInv(j)

StoreInv ==
    /\ TypeInv /\ RivalInv
    /\ \A j \in Tasks : PlaceInv(j) /\ OwnInv(j)
    /\ \A v \in Voices : DirInv(v) /\ SoundInv(v)
-----------------------------------------------------------------------------
(* A step of job k changes its own place and its own voice, and only makes *)
(* a voice sound that k had to itself.                                     *)
Frame(k) ==
    /\ Working(k) /\ task' = task /\ alone' = alone
    /\ \A j \in Tasks \ {k} : step'[j] = step[j] /\ file'[j] = file[j] /\ seen'[j] = seen[j]
    /\ \A w \in Voices \ {task[k].voice} :
         /\ disk'[w] = disk[w] /\ report'[w] = report[w]
         /\ (w \in sound' <=> w \in sound) /\ (w \in dirs' <=> w \in dirs)
    /\ task[k].voice \in sound' => task[k].voice \in sound \/ k \in alone

Kept(k) == /\ TypeInv' /\ Frame(k) /\ PlaceInv(k)' /\ OwnInv(k)'
           /\ \A v \in Voices : v = task[k].voice => DirInv(v)' /\ SoundInv(v)'

LEMMA OthersAreLeft ==
    ASSUME StoreInv, NEW k \in Tasks, Frame(k), NEW j \in Tasks, j # k
    PROVE  PlaceInv(j)' /\ OwnInv(j)'
<1>1. /\ task' = task /\ alone' = alone
      /\ step'[j] = step[j] /\ file'[j] = file[j] /\ seen'[j] = seen[j]
  BY DEF Frame
<1>2. Working(j)' <=> Working(j)
  BY <1>1 DEF Working
<1>3. PlaceInv(j) /\ OwnInv(j)
  BY DEF StoreInv
<1>4. PlaceInv(j)'
  BY <1>1, <1>2, <1>3 DEF PlaceInv, TaskKind
<1>5. ASSUME j \in alone, Working(j) PROVE OwnInv(j)'
  <2>1. ~Touch(k, j)
    BY <1>5 DEF StoreInv, RivalInv, Frame
  <2>2. task[j].voice \in Voices /\ task[j].voice # task[k].voice
    BY <1>3, <1>5, <2>1 DEF PlaceInv, Sane, Touch
  <2>3. TaskKind(j) = "cover" => task[j].from \in Voices /\ task[j].from # task[k].voice
    BY <1>3, <1>5, <2>1 DEF PlaceInv, Sane, Touch, TaskKind
  <2>4. LET v == task[j].voice IN
          disk'[v] = disk[v] /\ report'[v] = report[v] /\ (v \in sound' <=> v \in sound)
    BY <2>2 DEF Frame
  <2>5. TaskKind(j) = "cover" => LET u == task[j].from IN
          disk'[u] = disk[u] /\ report'[u] = report[u] /\ (u \in sound' <=> u \in sound)
    BY <2>3 DEF Frame
  <2>6. TaskKind(j)' = TaskKind(j) /\ Here(j)' = Here(j) /\ Before(j)' = Before(j)
    BY <1>1, <2>4 DEF TaskKind, Here, Before
  <2>7. /\ step[j] = "write" => Here(j)[file[j]] = Torn
        /\ step[j] = "removed" => Here(j) = NoFiles
        /\ BringInv(j) /\ KeepInv(j) /\ PresetInv(j) /\ EditInv(j) /\ CoverInv(j)
    BY <1>3, <1>5 DEF OwnInv
  <2>8. BringInv(j)' /\ PresetInv(j)'
    BY <1>1, <2>6, <2>7 DEF Brought, BringInv, PresetInv
  <2>9. KeepInv(j)'
    BY <1>1, <2>4, <2>6, <2>7 DEF KeepInv
  <2>10. EditInv(j)'
    BY <1>1, <2>4, <2>6, <2>7 DEF EditInv
  <2>11. CoverInv(j)'
    BY <1>1, <2>5, <2>6, <2>7 DEF CoverInv
  <2> QED BY <1>1, <2>6, <2>7, <2>8, <2>9, <2>10, <2>11 DEF OwnInv
<1> QED BY <1>1, <1>2, <1>4, <1>5 DEF OwnInv

LEMMA FrameKeeps ==
    ASSUME StoreInv, NEW k \in Tasks, Kept(k)
    PROVE  StoreInv'
<1>1. /\ Frame(k) /\ TypeInv'
      /\ \A j \in Tasks : PlaceInv(j) /\ PlaceInv(j)' /\ OwnInv(j)'
  BY OthersAreLeft DEF Kept, StoreInv
<1>2. task' = task /\ alone' = alone /\ \A j \in Tasks : Working(j)' => Working(j)
  BY <1>1 DEF Frame, Working
<1>3. RivalInv'
  <2> SUFFICES ASSUME NEW i \in Tasks, NEW j \in Tasks, i # j, Working(i)', Working(j)'
               PROVE  /\ ~(task[i].onLoop /\ task[j].onLoop)
                      /\ Touch(i, j) => j \notin alone
                      /\ task[i].voice = task[j].voice => task[i].voice \notin sound'
    BY <1>2 DEF RivalInv, Touch
  <2>1. /\ ~(task[i].onLoop /\ task[j].onLoop)
        /\ Touch(i, j) => j \notin alone
        /\ task[i].voice = task[j].voice => task[i].voice \notin sound
    BY <1>2 DEF StoreInv, RivalInv
  <2>2. ASSUME task[i].voice = task[j].voice PROVE task[i].voice \notin sound'
    <3>1. CASE task[i].voice # task[k].voice
      BY <1>1, <1>2, <2>1, <2>2, <3>1 DEF Frame, PlaceInv, Sane
    <3>2. CASE task[i].voice = task[k].voice
      <4>1. PICK l \in {i, j} : l # k
        OBVIOUS
      <4>2. Touch(l, k) /\ Working(l) /\ l \in Tasks
        BY <1>2, <2>2, <3>2 DEF Touch
      <4>3. k \notin alone
        BY <1>1, <4>1, <4>2 DEF StoreInv, RivalInv, Frame
      <4> QED BY <1>1, <2>1, <2>2, <3>2, <4>3 DEF Frame
    <3> QED BY <3>1, <3>2
  <2> QED BY <2>1, <2>2
<1>4. ASSUME NEW v \in Voices PROVE DirInv(v)' /\ SoundInv(v)'
  <2>1. CASE v = task[k].voice
    BY <2>1 DEF Kept
  <2>2. CASE v # task[k].voice
    <3>1. /\ disk'[v] = disk[v] /\ report'[v] = report[v]
          /\ (v \in sound' <=> v \in sound) /\ (v \in dirs' <=> v \in dirs)
      BY <1>1, <2>2 DEF Frame
    <3>2. DirInv(v)'
      BY <3>1 DEF StoreInv, DirInv
    <3>3. \A j \in Tasks : task[j].voice = v =>
             (Working(j)' <=> Working(j)) /\ (Early(j)' <=> Early(j))
      BY <1>1, <2>2 DEF Frame, Working, Early, TaskKind
    <3>4. SoundInv(v)'
      BY <1>2, <3>1, <3>3 DEF StoreInv, SoundInv
    <3> QED BY <3>2, <3>4
  <2> QED BY <2>1, <2>2
<1> QED BY <1>1, <1>3, <1>4 DEF StoreInv

(* Of a sound voice a job is the only one at work on it.                   *)
LEMMA OnlyOne ==
    ASSUME StoreInv, NEW k \in Tasks, Working(k), task[k].voice \in sound,
           NEW j \in Tasks, Working(j), task[j].voice = task[k].voice
    PROVE  j = k
BY DEF StoreInv, RivalInv

(* Nothing has been done yet to the sound voice of an early job.           *)
LEMMA EarlyIsReported ==
    ASSUME StoreInv, NEW k \in Tasks, Working(k), Early(k), task[k].voice \in sound
    PROVE  Here(k) = report[task[k].voice]
<1>1. \A j \in Tasks : Working(j) /\ task[j].voice = task[k].voice => Early(j)
  BY OnlyOne
<1> QED BY <1>1 DEF StoreInv, SoundInv, Here, PlaceInv, Sane

(* Nobody works on the sound voice that an undisturbed job copies.         *)
LEMMA SourceIsReported ==
    ASSUME StoreInv, NEW k \in Tasks, Working(k), k \in alone, TaskKind(k) = "cover",
           task[k].from \in sound
    PROVE  disk[task[k].from] = report[task[k].from]
<1>1. Sane(task[k])
  BY DEF StoreInv, PlaceInv
<1>2. \A j \in Tasks : Working(j) /\ task[j].voice = task[k].from => j = k
  BY DEF StoreInv, RivalInv, Touch
<1>3. \A j \in Tasks : ~(Working(j) /\ task[j].voice = task[k].from)
  BY <1>1, <1>2 DEF Sane, TaskKind
<1> QED BY <1>1, <1>3 DEF StoreInv, SoundInv, Sane, TaskKind

LEMMA EntriesAreEqual ==
    ASSUME NEW a \in Entry, NEW b \in Entry,
           a.audio = b.audio, a.text = b.text, a.meta = b.meta
    PROVE  a = b
BY DEF Entry

-----------------------------------------------------------------------------
(* A job that is begun disturbs those it clashes with.                     *)
LEMMA InitStore == StoreInit => StoreInv
<1> SUFFICES ASSUME StoreInit PROVE StoreInv
  OBVIOUS
<1>1. \A j \in Tasks : step[j] = "new" /\ ~Working(j)
  BY DEF StoreInit, Working
<1>2. NoFiles \in Entry /\ Whole(0) \in Entry /\ Bare(0) \in Entry
  <2>1. 0 \in Recordings /\ Absent \in Recordings /\ Absent \in Metadata /\ [f \in Fields |-> 0] \in Metadata
    BY MaxJobsAssumption DEF Recordings, Metadata
  <2>2. Whole(0) \in Entry /\ Bare(0) \in Entry
    BY <2>1 DEF Whole, Bare, Entry
  <2>3. NoFiles = [audio |-> Absent, text |-> Absent, meta |-> Absent]
    BY DEF NoFiles, VoiceFiles
  <2> QED BY <2>1, <2>2, <2>3 DEF Entry
<1>3. TypeInv
  BY <1>2 DEF StoreInit, TypeInv, Labels, VoiceFiles
<1>4. RivalInv /\ \A j \in Tasks : PlaceInv(j) /\ OwnInv(j)
  BY <1>1 DEF RivalInv, PlaceInv, OwnInv
<1>5. \A v \in Voices : DirInv(v) /\ SoundInv(v)
  BY DEF StoreInit, DirInv, SoundInv
<1> QED BY <1>3, <1>4, <1>5 DEF StoreInv

LEMMA BeginStore ==
    ASSUME StoreInv, NEW k \in Tasks, NEW p, Sane(p), Begin(k, p)
    PROVE  StoreInv'
<1> DEFINE clashing == {i \in Tasks : Clash(i, p)}
<1>1. /\ p.onLoop => \A i \in Tasks : Working(i) => ~task[i].onLoop
      /\ step[k] = "new"
      /\ task' = [task EXCEPT ![k] = p]
      /\ step' = [step EXCEPT ![k] = IF p.kind \in Registrations THEN "check" ELSE "look"]
      /\ alone' = IF clashing = {} THEN alone ELSE alone \ (clashing \cup {k})
      /\ sound' = sound \ {task[i].voice : i \in clashing}
      /\ UNCHANGED <<kept, file, seen, left, report>>
  BY DEF Begin
<1>2. ~Working(k)
  BY <1>1 DEF Working
<1>3. TypeInv'
  <2>1. task' = [j \in Tasks |-> task'[j]]
    BY <1>1 DEF StoreInv, TypeInv
  <2>2. step' \in [Tasks -> Labels]
    BY <1>1 DEF StoreInv, TypeInv, Labels
  <2> QED BY <1>1, <2>1, <2>2 DEF StoreInv, TypeInv, kept
<1>4. /\ task'[k] = p /\ step'[k] \in {"check", "look"}
      /\ step'[k] = IF p.kind \in Registrations THEN "check" ELSE "look"
      /\ \A j \in Tasks \ {k} : task'[j] = task[j] /\ step'[j] = step[j]
  BY <1>1 DEF StoreInv, TypeInv
<1>5. /\ disk' = disk /\ dirs' = dirs /\ report' = report /\ file' = file /\ seen' = seen
      /\ alone' \subseteq alone /\ sound' \subseteq sound
  BY <1>1 DEF kept
<1>6. Working(k)' /\ \A j \in Tasks \ {k} : Working(j)' <=> Working(j)
  BY <1>4 DEF Working, Over
<1>7. RivalInv'
  <2>1. ASSUME NEW i \in Tasks \ {k}, Working(i)
        PROVE  /\ ~(task[i].onLoop /\ p.onLoop)
               /\ \/ p.voice \in {task[i].voice, task[i].from}
                  \/ p.from = task[i].voice
                 => i \notin alone' /\ k \notin alone' /\ task[i].voice \notin sound'
    <3>1. ~(task[i].onLoop /\ p.onLoop)
      BY <1>1, <2>1 DEF StoreInv, PlaceInv, Sane
    <3>2. ASSUME p.voice \in {task[i].voice, task[i].from} \/ p.from = task[i].voice
          PROVE  i \in clashing
      BY <2>1, <3>1, <3>2 DEF Clash
    <3> QED BY <1>1, <3>1, <3>2
  <2> SUFFICES ASSUME NEW i \in Tasks, NEW j \in Tasks, i # j, Working(i)', Working(j)'
               PROVE  /\ ~(task'[i].onLoop /\ task'[j].onLoop)
                      /\ Touch(i, j)' => j \notin alone'
                      /\ task'[i].voice = task'[j].voice => task'[i].voice \notin sound'
    BY DEF RivalInv
  <2>2. CASE i = k
    BY <1>4, <1>6, <2>1, <2>2 DEF Touch
  <2>3. CASE j = k
    BY <1>4, <1>6, <2>1, <2>3 DEF Touch
  <2>4. CASE i # k /\ j # k
    BY <1>4, <1>5, <1>6, <2>4 DEF StoreInv, RivalInv, Touch
  <2> QED BY <2>2, <2>3, <2>4
<1>8. ASSUME NEW j \in Tasks PROVE PlaceInv(j)' /\ OwnInv(j)'
  <2>1. CASE j = k
    <3>1. PlaceInv(k)'
      BY <1>4 DEF Registrations, Presets, PlaceInv, TaskKind, Sane, TaskKinds
    <3>2. TaskKind(k)' # "cover" \/ step'[k] = "look"
      BY <1>4 DEF Registrations, Presets, TaskKind
    <3>3. Before(k)' = {}
      BY <1>4 DEF Before
    <3>4. OwnInv(k)'
      BY <1>4, <3>2, <3>3 DEF OwnInv, BringInv, KeepInv, PresetInv, EditInv, CoverInv
    <3> QED BY <2>1, <3>1, <3>4
  <2>2. CASE j # k
    <3>1. PlaceInv(j) /\ OwnInv(j) /\ task'[j] = task[j] /\ step'[j] = step[j]
          /\ (Working(j)' <=> Working(j))
      BY <1>4, <1>6, <2>2 DEF StoreInv
    <3>2. PlaceInv(j)'
      BY <1>5, <3>1 DEF PlaceInv, TaskKind
    <3>3. TaskKind(j)' = TaskKind(j) /\ Here(j)' = Here(j) /\ Before(j)' = Before(j)
      BY <1>5, <3>1 DEF TaskKind, Here, Before
    <3>4. ASSUME j \in alone', Working(j) PROVE OwnInv(j)'
      <4>1. /\ step[j] = "write" => Here(j)[file[j]] = Torn
            /\ step[j] = "removed" => Here(j) = NoFiles
            /\ BringInv(j) /\ KeepInv(j) /\ PresetInv(j) /\ EditInv(j) /\ CoverInv(j)
        BY <1>5, <3>1, <3>4 DEF OwnInv
      <4>2. BringInv(j)' /\ PresetInv(j)'
        BY <1>5, <3>1, <3>3, <4>1 DEF Brought, BringInv, PresetInv
      <4>3. KeepInv(j)' /\ EditInv(j)'
        BY <1>5, <3>1, <3>3, <4>1 DEF KeepInv, EditInv
      <4>4. CoverInv(j)'
        BY <1>5, <3>1, <3>3, <4>1 DEF CoverInv
      <4> QED BY <1>5, <3>1, <3>3, <4>1, <4>2, <4>3, <4>4 DEF OwnInv
    <3> QED BY <3>1, <3>2, <3>4 DEF OwnInv
  <2> QED BY <2>1, <2>2
<1>9. ASSUME NEW v \in Voices PROVE DirInv(v)' /\ SoundInv(v)'
  <2>1. DirInv(v)'
    BY <1>5 DEF StoreInv, DirInv
  <2>2. ASSUME v \in sound', \A j \in Tasks : Working(j)' /\ task'[j].voice = v => Early(j)'
        PROVE  disk[v] = report[v]
    <3>1. \A j \in Tasks \ {k} : Early(j)' <=> Early(j)
      BY <1>4 DEF Early, TaskKind
    <3>2. \A j \in Tasks : Working(j) /\ task[j].voice = v => Early(j)
      BY <1>2, <1>4, <1>6, <2>2, <3>1
    <3> QED BY <1>5, <2>2, <3>2 DEF StoreInv, SoundInv
  <2> QED BY <1>5, <2>1, <2>2 DEF SoundInv
<1> QED BY <1>3, <1>7, <1>8, <1>9 DEF StoreInv

LEMMA StartsAreSane ==
    ASSUME StoreInv, NEW k \in Tasks,
           \/ RegisterVoice(k) \/ PullFromElevenlabs(k) \/ ForgePick(k)
           \/ VoiceFromElevenlabs(k) \/ VoiceAdd(k) \/ Cover(k) \/ Retrim(k)
           \/ DeleteVoice(k) \/ VoiceDelete(k)
           \/ BindPersona(k) \/ BindBackend(k) \/ Tune(k)
    PROVE  StoreInv'
<1> SUFFICES \E p : Sane(p) /\ Begin(k, p)
  BY BeginStore DEF Sane
<1>1. ASSUME NEW kind \in TaskKinds \ {"cover", "edit", "retrim"}, NEW v \in Voices,
             NEW over \in BOOLEAN, NEW onLoop \in BOOLEAN
      PROVE  /\ Sane([Job(kind, v, onLoop) EXCEPT !.over = over])
             /\ Sane(Job(kind, v, onLoop))
  BY DEF Sane, Job, NoJob
<1>2. ASSUME NEW onLoop \in BOOLEAN, CloneVoice(k, onLoop) PROVE \E p : Sane(p) /\ Begin(k, p)
  <2>1. PICK v \in Voices, over \in BOOLEAN :
           Begin(k, [Job("clone", v, onLoop) EXCEPT !.over = over])
    BY <1>2 DEF CloneVoice
  <2> QED BY <1>1, <2>1 DEF TaskKinds
<1>3. CASE RegisterVoice(k) \/ PullFromElevenlabs(k) \/ ForgePick(k) \/ VoiceFromElevenlabs(k)
  BY <1>2, <1>3 DEF RegisterVoice, PullFromElevenlabs, ForgePick, VoiceFromElevenlabs
<1>4. CASE VoiceAdd(k)
  <2>1. PICK v \in Voices, over \in BOOLEAN, kind \in Registrations :
           Begin(k, [Job(kind, v, FALSE) EXCEPT !.over = over])
    BY <1>4 DEF VoiceAdd
  <2> QED BY <1>1, <2>1 DEF TaskKinds, Registrations, Presets
<1>5. CASE Cover(k)
  <2>1. PICK u \in Voices, v \in Voices :
           u # v /\ Begin(k, [Job("cover", v, TRUE) EXCEPT !.from = u])
    BY <1>5 DEF Cover
  <2>2. Sane([Job("cover", v, TRUE) EXCEPT !.from = u])
    BY <2>1 DEF Sane, Job, NoJob, TaskKinds
  <2> QED BY <2>1, <2>2
<1>6. CASE Retrim(k)
  <2>1. PICK v \in Voices : Begin(k, [Job("retrim", v, FALSE) EXCEPT !.over = TRUE])
    BY <1>6 DEF Retrim
  <2>2. Sane([Job("retrim", v, FALSE) EXCEPT !.over = TRUE])
    BY DEF Sane, Job, NoJob, TaskKinds
  <2> QED BY <2>1, <2>2
<1>7. CASE DeleteVoice(k) \/ VoiceDelete(k)
  <2>1. PICK v \in Voices, onLoop \in BOOLEAN : Begin(k, Job("delete", v, onLoop))
    BY <1>7 DEF DeleteVoice, VoiceDelete
  <2> QED BY <1>1, <2>1 DEF TaskKinds
<1>8. ASSUME NEW f \in Fields, NEW onLoop \in BOOLEAN, Edit(k, f, onLoop)
      PROVE  \E p : Sane(p) /\ Begin(k, p)
  <2>1. PICK v \in Voices : Begin(k, [Job("edit", v, onLoop) EXCEPT !.field = f])
    BY <1>8 DEF Edit
  <2>2. Sane([Job("edit", v, onLoop) EXCEPT !.field = f])
    BY DEF Sane, Job, NoJob, TaskKinds
  <2> QED BY <2>1, <2>2
<1>9. CASE BindPersona(k) \/ BindBackend(k) \/ Tune(k)
  BY <1>8, <1>9 DEF BindPersona, BindBackend, Tune, Fields
<1> QED BY <1>3, <1>4, <1>5, <1>6, <1>7, <1>9

-----------------------------------------------------------------------------
(* The ends of a job.                                                      *)
LEMMA RefuseStore ==
    ASSUME StoreInv, NEW k \in Tasks, Working(k), Early(k), Refuse(k)
    PROVE  StoreInv'
<1>1. step' = [step EXCEPT ![k] = "refused"] /\ UNCHANGED <<kept, task, seen, left, ghost, file>>
  BY DEF Refuse, GoTo
<1>2. TypeInv'
  BY <1>1 DEF StoreInv, TypeInv, Labels, Over, kept, ghost
<1>3. ~Working(k)'
  BY <1>1 DEF Working, Over, StoreInv, TypeInv
<1>4. Frame(k)
  BY <1>1 DEF Frame, kept, ghost, StoreInv, TypeInv
<1>5. ASSUME NEW v \in Voices, v = task[k].voice PROVE DirInv(v)' /\ SoundInv(v)'
  <2>1. disk' = disk /\ dirs' = dirs /\ report' = report /\ sound' = sound
    BY <1>1 DEF kept, ghost
  <2>2. v \in sound => disk[v] = report[v]
    BY <1>5, EarlyIsReported DEF Here
  <2> QED BY <2>1, <2>2 DEF DirInv, SoundInv, StoreInv
<1> QED BY <1>2, <1>3, <1>4, <1>5, FrameKeeps DEF Kept, PlaceInv, OwnInv

LEMMA AbortStore ==
    ASSUME StoreInv, NEW k \in Tasks, Working(k), NEW how \in Over, Abort(k, how)
    PROVE  StoreInv'
<1>1. /\ step' = [step EXCEPT ![k] = how] /\ sound' = sound \ {task[k].voice}
      /\ UNCHANGED <<kept, task, seen, left, alone, report, file>>
  BY DEF Abort, GoTo
<1>2. TypeInv'
  BY <1>1 DEF StoreInv, TypeInv, Labels, kept
<1>3. ~Working(k)'
  BY <1>1 DEF Working, Over, StoreInv, TypeInv
<1>4. Frame(k)
  BY <1>1 DEF Frame, kept, StoreInv, TypeInv
<1>5. ASSUME NEW v \in Voices, v = task[k].voice PROVE DirInv(v)' /\ SoundInv(v)'
  BY <1>1, <1>5 DEF DirInv, SoundInv, StoreInv, kept
<1> QED BY <1>2, <1>3, <1>4, <1>5, FrameKeeps DEF Kept, PlaceInv, OwnInv

(* A job that ends well must have made of its voice what it reports.       *)
LEMMA DoneStore ==
    ASSUME StoreInv, NEW k \in Tasks, Working(k), Done(k),
           k \in alone /\ WellFounded(k) => Here(k) = Outcome(k)
    PROVE  StoreInv'
<1> DEFINE v == task[k].voice
<1>1. /\ step' = [step EXCEPT ![k] = "done"]
      /\ sound' = IF k \in alone /\ WellFounded(k) THEN sound \cup {v} ELSE sound \ {v}
      /\ report' = IF v \in sound' THEN [report EXCEPT ![v] = Outcome(k)] ELSE report
      /\ UNCHANGED <<kept, task, seen, left, alone, file>>
  BY DEF Done, GoTo
<1>2. v \in Voices /\ disk[v] \in Entry
  BY DEF StoreInv, PlaceInv, Sane, TypeInv
<1>3. v \in sound' => k \in alone /\ Outcome(k) = disk[v]
  BY <1>1 DEF Here
<1>4. report' \in [Voices -> Entry]
  BY <1>1, <1>2, <1>3 DEF StoreInv, TypeInv
<1>5. TypeInv'
  BY <1>1, <1>2, <1>4 DEF StoreInv, TypeInv, Labels, Over, kept
<1>6. ~Working(k)'
  BY <1>1 DEF Working, Over, StoreInv, TypeInv
<1>7. Frame(k)
  BY <1>1, <1>3 DEF Frame, kept, StoreInv, TypeInv
<1>8. ASSUME NEW w \in Voices, w = v PROVE DirInv(w)' /\ SoundInv(w)'
  BY <1>1, <1>2, <1>3, <1>8 DEF DirInv, SoundInv, StoreInv, TypeInv, kept
<1> QED BY <1>5, <1>6, <1>7, <1>8, FrameKeeps DEF Kept, PlaceInv, OwnInv

-----------------------------------------------------------------------------
(* A job goes on and leaves the registry as it is.                         *)
LEMMA GoOn ==
    ASSUME StoreInv, NEW k \in Tasks, Working(k), NEW l \in Labels,
           step' = [step EXCEPT ![k] = l], UNCHANGED <<disk, task, left, ghost>>,
           TypeInv', \A j \in Tasks \ {k} : file'[j] = file[j] /\ seen'[j] = seen[j],
           dirs' \in {dirs, dirs \cup {task[k].voice}},
           Early(k)' => Early(k), Working(k)',
           PlaceInv(k)', OwnInv(k)'
    PROVE  StoreInv'
<1>1. Frame(k)
  BY DEF Frame, ghost, StoreInv, TypeInv
<1>2. ASSUME NEW v \in Voices, v = task[k].voice PROVE DirInv(v)' /\ SoundInv(v)'
  <2>1. disk' = disk /\ report' = report /\ sound' = sound /\ task' = task
    BY DEF ghost
  <2>2. DirInv(v)'
    BY <1>2, <2>1 DEF DirInv, StoreInv
  <2>3. ASSUME v \in sound', \A j \in Tasks : Working(j)' /\ task'[j].voice = v => Early(j)'
        PROVE  disk[v] = report[v]
    BY <1>2, <2>1, <2>3, EarlyIsReported DEF Here
  <2> QED BY <2>1, <2>2, <2>3 DEF SoundInv
<1> QED BY <1>1, <1>2, FrameKeeps DEF Kept

LEMMA LookStore ==
    ASSUME StoreInv, NEW k \in Tasks, Look(k)
    PROVE  StoreInv'
<1>1. step[k] = "look" /\ TaskKind(k) # "delete" /\ Working(k) /\ Early(k)
  BY DEF Look, Working, Over, Early
<1>2. /\ Sane(task[k]) /\ TaskKind(k) \in {"cover", "edit", "retrim"} /\ Source(k) \in Voices
  BY <1>1 DEF StoreInv, PlaceInv, Sane, Source, TaskKind
<1>3. CASE Refuse(k)
  BY <1>1, <1>3, RefuseStore
<1>4. CASE Readable(k) /\ ~Refuse(k)
  <2>1. /\ seen' = [seen EXCEPT ![k] = disk[Source(k)]]
        /\ CASE TaskKind(k) = "edit"   -> TurnTo(k, "meta")
             [] TaskKind(k) = "retrim" -> GoTo(k, "trim")
             [] TaskKind(k) = "cover"  -> GoTo(k, "check")
        /\ UNCHANGED <<kept, task, left, ghost>>
    BY <1>4 DEF Look
  <2>2. /\ TaskKind(k) = "edit" => TurnTo(k, "meta")
        /\ TaskKind(k) = "retrim" => GoTo(k, "trim")
        /\ TaskKind(k) = "cover" => GoTo(k, "check")
    BY <2>1
  <2> DEFINE l == CASE TaskKind(k) = "edit" -> "open" [] TaskKind(k) = "retrim" -> "trim"
                    [] TaskKind(k) = "cover" -> "check"
             f == IF TaskKind(k) = "edit" THEN "meta" ELSE file[k]
  <2>3. /\ l \in {"open", "trim", "check"} /\ f \in VoiceFiles
        /\ TaskKind(k) = "edit" <=> l = "open"
        /\ TaskKind(k) = "cover" <=> l = "check"
        /\ TaskKind(k) = "retrim" <=> l = "trim"
    BY <1>2 DEF StoreInv, TypeInv, VoiceFiles
  <2>4. step' = [step EXCEPT ![k] = l] /\ file' = [file EXCEPT ![k] = f]
    BY <1>2, <2>2 DEF TurnTo, GoTo, StoreInv, TypeInv
  <2> HIDE DEF l, f
  <2>5. TypeInv'
    BY <1>2, <2>1, <2>3, <2>4 DEF StoreInv, TypeInv, Labels, kept, ghost
  <2>6. /\ disk' = disk /\ dirs' = dirs /\ task' = task /\ left' = left
        /\ alone' = alone /\ report' = report /\ sound' = sound
    BY <2>1 DEF kept, ghost
  <2>7. /\ step'[k] = l /\ seen'[k] = disk[Source(k)] /\ TaskKind(k)' = TaskKind(k) /\ Here(k)' = Here(k)
        /\ l = "open" => file'[k] = "meta"
    BY <2>1, <2>3, <2>4, <2>6 DEF StoreInv, TypeInv, TaskKind, Here, f
  <2>13. TaskKind(k) = "edit" => disk[Source(k)].meta \in [Fields -> 0 .. MaxJobs]
    BY <1>2, <1>4 DEF Readable, StoreInv, TypeInv, Entry, Metadata
  <2>8. Working(k)' /\ PlaceInv(k)'
    BY <1>2, <2>3, <2>6, <2>7, <2>13 DEF Working, Over, PlaceInv, TaskKind
  <2>9. ASSUME k \in alone PROVE BringInv(k)' /\ KeepInv(k)' /\ PresetInv(k)' /\ EditInv(k)' /\ CoverInv(k)'
    <3>1. BringInv(k)' /\ PresetInv(k)'
      BY <1>2, <2>3, <2>7 DEF BringInv, PresetInv
    <3>2. TaskKind(k) = "edit" => Source(k) = task[k].voice
      BY DEF Source
    <3>3. task[k].voice \in sound => Here(k) = report[task[k].voice]
      BY <1>1, EarlyIsReported
    <3>4. KeepInv(k)'
      BY <2>6, <2>7, <3>3 DEF KeepInv
    <3>6. EditInv(k)'
      BY <2>3, <2>6, <2>7, <3>2, <3>3 DEF EditInv, Here
    <3>7. TaskKind(k) = "cover" /\ task[k].from \in sound => disk[Source(k)] = report[task[k].from]
      BY <1>1, <2>9, SourceIsReported DEF Source
    <3>8. TaskKind(k) = "cover" => Before(k)' = {}
      BY <2>3, <2>7 DEF Before
    <3>9. CoverInv(k)'
      BY <2>3, <2>6, <2>7, <3>7, <3>8 DEF CoverInv
    <3> QED BY <3>1, <3>4, <3>6, <3>9
  <2>10. OwnInv(k)'
    BY <2>3, <2>6, <2>7, <2>9 DEF OwnInv
  <2>11. \A j \in Tasks \ {k} : file'[j] = file[j] /\ seen'[j] = seen[j]
    BY <2>1, <2>4 DEF StoreInv, TypeInv
  <2>12. l \in Labels /\ UNCHANGED <<disk, task, left, ghost>> /\ dirs' = dirs
    BY <2>3, <2>6 DEF Labels, ghost
  <2> QED BY <1>1, <2>4, <2>5, <2>8, <2>10, <2>11, <2>12, GoOn
<1> QED BY <1>3, <1>4 DEF Look

LEMMA CheckStore ==
    ASSUME StoreInv, NEW k \in Tasks, Check(k)
    PROVE  StoreInv'
<1>1. step[k] = "check" /\ Working(k)
  BY DEF Check, Working, Over
<1>2. Sane(task[k]) /\ TaskKind(k) \in Registrations \cup {"cover", "retrim"}
  BY <1>1 DEF StoreInv, PlaceInv
<1>3. CASE ~task[k].over /\ Refuse(k)
  BY <1>1, <1>2, <1>3, RefuseStore DEF Early, Sane, TaskKind
<1>4. CASE /\ task[k].voice \notin dirs \/ task[k].over
           /\ GoTo(k, "make")
           /\ UNCHANGED <<kept, task, seen, left, ghost>>
  <2>1. /\ step' = [step EXCEPT ![k] = "make"] /\ file' = file /\ seen' = seen
        /\ disk' = disk /\ dirs' = dirs /\ task' = task /\ left' = left
        /\ alone' = alone /\ report' = report /\ sound' = sound
    BY <1>4 DEF GoTo, kept, ghost
  <2>2. TypeInv'
    BY <2>1 DEF StoreInv, TypeInv, Labels
  <2>3. step'[k] = "make" /\ TaskKind(k)' = TaskKind(k) /\ Here(k)' = Here(k) /\ Before(k)' = {}
    BY <2>1 DEF StoreInv, TypeInv, TaskKind, Here, Before
  <2>4. Working(k)' /\ PlaceInv(k)' /\ ~Early(k)'
    BY <1>2, <2>1, <2>3 DEF Working, Over, PlaceInv, TaskKind, Early
  <2>5. ASSUME k \in alone PROVE KeepInv(k)' /\ CoverInv(k)'
    <3>1. TaskKind(k) \in Presets /\ task[k].voice \in sound => Here(k) = report[task[k].voice]
      BY <1>1, EarlyIsReported DEF Early, Presets
    <3>2. KeepInv(k)'
      BY <1>2, <2>1, <2>3, <3>1 DEF Registrations, Presets, KeepInv
    <3>3. TaskKind(k) = "cover" => Here(k) = NoFiles
      BY <1>2, <1>4 DEF Sane, TaskKind, StoreInv, DirInv, Here
    <3>4. TaskKind(k) = "cover" /\ task[k].from \in sound => seen[k].text = report[task[k].from].text
      BY <1>1, <2>5 DEF StoreInv, OwnInv, CoverInv
    <3>5. CoverInv(k)'
      BY <2>1, <2>3, <3>3, <3>4 DEF CoverInv
    <3> QED BY <3>2, <3>5
  <2>6. OwnInv(k)'
    BY <1>2, <2>1, <2>3, <2>5 DEF OwnInv, BringInv, PresetInv, EditInv
  <2> QED BY <1>1, <2>1, <2>2, <2>4, <2>6, GoOn DEF Labels, ghost
<1> QED BY <1>3, <1>4 DEF Check

LEMMA MakeStore ==
    ASSUME StoreInv, NEW k \in Tasks, Make(k)
    PROVE  StoreInv'
<1>1. step[k] = "make" /\ Working(k)
  BY DEF Make, Working, Over
<1>2. Sane(task[k]) /\ TaskKind(k) \in Registrations \cup {"cover", "retrim"}
  BY <1>1 DEF StoreInv, PlaceInv
<1> DEFINE f == CASE TaskKind(k) = "preset"     -> "meta"
                  [] TaskKind(k) = "presetText" -> "text"
                  [] OTHER                  -> "audio"
<1>3. /\ dirs' = dirs \cup {task[k].voice}
      /\ step' = [step EXCEPT ![k] = "open"] /\ file' = [file EXCEPT ![k] = f]
      /\ disk' = disk /\ task' = task /\ seen' = seen /\ left' = left
      /\ alone' = alone /\ report' = report /\ sound' = sound
  BY DEF Make, TurnTo, ghost
<1>4. /\ f \in VoiceFiles /\ (TaskKind(k) = "preset" <=> f = "meta")
      /\ (TaskKind(k) = "presetText" <=> f = "text")
      /\ (TaskKind(k) \notin Presets <=> f = "audio")
  BY DEF VoiceFiles, Presets
<1> HIDE DEF f
<1>5. TypeInv'
  BY <1>2, <1>3, <1>4 DEF StoreInv, TypeInv, Labels, Sane
<1>6. /\ step'[k] = "open" /\ file'[k] = f /\ TaskKind(k)' = TaskKind(k) /\ Here(k)' = Here(k)
      /\ TaskKind(k) \notin Presets => Before(k)' = {}
      /\ TaskKind(k) = "presetText" => Before(k)' = {"audio"}
  BY <1>3, <1>4 DEF StoreInv, TypeInv, TaskKind, Here, Before, Presets
<1>7. Working(k)' /\ PlaceInv(k)' /\ ~Early(k)'
  BY <1>2, <1>3, <1>4, <1>6 DEF Registrations, Presets, Working, Over, PlaceInv, TaskKind, Early
<1>8. ASSUME k \in alone PROVE BringInv(k)' /\ KeepInv(k)' /\ CoverInv(k)'
  <2>1. KeepInv(k) /\ CoverInv(k)
    BY <1>1, <1>8 DEF StoreInv, OwnInv
  <2>2. KeepInv(k)'
    BY <1>1, <1>3, <1>6, <2>1 DEF KeepInv
  <2>3. BringInv(k)'
    BY <1>6 DEF BringInv, Brought, Presets
  <2>4. NoFiles.text = Absent
    BY DEF NoFiles, VoiceFiles
  <2>5. CoverInv(k)'
    BY <1>1, <1>3, <1>4, <1>6, <2>1, <2>4 DEF CoverInv, Presets
  <2> QED BY <2>2, <2>3, <2>5
<1>9. OwnInv(k)'
  BY <1>2, <1>3, <1>6, <1>8 DEF Registrations, Presets, OwnInv, PresetInv, EditInv
<1>10. \A j \in Tasks \ {k} : file'[j] = file[j] /\ seen'[j] = seen[j]
  BY <1>3 DEF StoreInv, TypeInv
<1> QED BY <1>1, <1>3, <1>5, <1>7, <1>9, <1>10, GoOn DEF Labels, ghost

-----------------------------------------------------------------------------
(* A job changes files of its voice on the way; from here on it no longer  *)
(* refuses, and its voice is what was reported only when it is done.       *)
LEMMA Change ==
    ASSUME StoreInv, NEW k \in Tasks, Working(k), Working(k)', ~Early(k)',
           UNCHANGED <<task, ghost>>, TypeInv', PlaceInv(k)', OwnInv(k)',
           \A j \in Tasks \ {k} : step'[j] = step[j] /\ file'[j] = file[j] /\ seen'[j] = seen[j],
           \A w \in Voices \ {task[k].voice} : disk'[w] = disk[w] /\ (w \in dirs' <=> w \in dirs),
           task[k].voice \notin dirs' => Here(k)' = NoFiles
    PROVE  StoreInv'
<1>1. Frame(k)
  BY DEF Frame, ghost
<1>2. ASSUME NEW v \in Voices, v = task[k].voice PROVE DirInv(v)' /\ SoundInv(v)'
  BY <1>2 DEF DirInv, SoundInv, Here
<1> QED BY <1>1, <1>2, FrameKeeps DEF Kept

LEMMA TrimStore ==
    ASSUME StoreInv, NEW k \in Tasks, Trim(k)
    PROVE  StoreInv'
<1>1. step[k] = "trim" /\ Working(k) /\ Early(k)
  BY DEF Trim, Working, Over, Early
<1>2. Sane(task[k]) /\ TaskKind(k) = "retrim"
  BY <1>1 DEF StoreInv, PlaceInv
<1>3. CASE Refuse(k)
  BY <1>1, <1>3, RefuseStore
<1>4. CASE ~Refuse(k)
  <2> DEFINE v == task[k].voice
  <2>1. /\ v \in dirs /\ disk' = [disk EXCEPT ![v].audio = k]
        /\ step' = [step EXCEPT ![k] = "check"] /\ file' = file
        /\ UNCHANGED <<dirs, task, seen, left, ghost>>
    BY <1>4 DEF Trim, GoTo
  <2>2. disk' \in [Voices -> Entry]
    <3>1. v \in Voices /\ disk[v] \in Entry /\ k \in Recordings
      BY <1>2, MaxJobsAssumption DEF StoreInv, TypeInv, Sane, Recordings, Tasks
    <3>2. [disk[v] EXCEPT !.audio = k] \in Entry
      BY <3>1 DEF Entry
    <3> QED BY <2>1, <3>1, <3>2 DEF StoreInv, TypeInv
  <2>3. TypeInv'
    BY <2>1, <2>2 DEF StoreInv, TypeInv, Labels, ghost
  <2>4. step'[k] = "check" /\ TaskKind(k)' = "retrim" /\ Before(k)' = {}
    BY <1>2, <2>1 DEF StoreInv, TypeInv, TaskKind, Before
  <2>5. Working(k)' /\ ~Early(k)' /\ PlaceInv(k)'
    BY <1>2, <2>1, <2>4 DEF Working, Over, Early, PlaceInv
  <2>6. OwnInv(k)'
    BY <2>4 DEF OwnInv, BringInv, KeepInv, PresetInv, EditInv, CoverInv
  <2>7. /\ \A j \in Tasks \ {k} : step'[j] = step[j] /\ file'[j] = file[j] /\ seen'[j] = seen[j]
        /\ \A w \in Voices \ {v} : disk'[w] = disk[w] /\ (w \in dirs' <=> w \in dirs)
        /\ UNCHANGED <<task, ghost>> /\ v \in dirs'
    BY <2>1 DEF StoreInv, TypeInv
  <2> QED BY <1>1, <2>3, <2>5, <2>6, <2>7, Change
<1> QED BY <1>3, <1>4

LEMMA OpenStore ==
    ASSUME StoreInv, NEW k \in Tasks, Open(k)
    PROVE  StoreInv'
<1> DEFINE v == task[k].voice
<1>1. step[k] = "open" /\ Working(k)
  BY DEF Open, Working, Over
<1>2. PlaceInv(k) /\ Sane(task[k]) /\ TaskKind(k) \in Registrations \cup {"cover", "edit", "retrim"}
  BY <1>1 DEF Registrations, Presets, StoreInv, PlaceInv, Sane, TaskKinds, TaskKind
<1>3. CASE Abort(k, "failed")
  BY <1>1, <1>3, AbortStore DEF Over
<1>4. CASE ~Abort(k, "failed")
  <2>1. /\ v \in dirs /\ (file[k] = "audio" => Copiable(k))
        /\ disk' = [disk EXCEPT ![v][file[k]] = Torn]
        /\ step' = [step EXCEPT ![k] = "write"] /\ file' = file
        /\ UNCHANGED <<dirs, task, seen, left, ghost>>
    BY <1>4 DEF Open, GoTo
  <2>2. v \in Voices /\ disk[v] \in Entry /\ file[k] \in VoiceFiles
    BY <1>2 DEF StoreInv, TypeInv, Sane
  <2>3. disk'[v] = [disk[v] EXCEPT ![file[k]] = Torn]
    BY <2>1, <2>2 DEF StoreInv, TypeInv
  <2>4. disk'[v] \in Entry /\ disk'[v][file[k]] = Torn
        /\ \A f \in VoiceFiles \ {file[k]} : disk'[v][f] = disk[v][f]
    BY <2>2, <2>3 DEF Entry, VoiceFiles, Recordings, Metadata
  <2>5. TypeInv'
    <3>1. disk' \in [Voices -> Entry]
      BY <2>1, <2>2, <2>4 DEF StoreInv, TypeInv
    <3> QED BY <2>1, <3>1 DEF StoreInv, TypeInv, Labels, ghost
  <2>6. /\ step'[k] = "write" /\ TaskKind(k)' = TaskKind(k) /\ Before(k)' = Before(k)
        /\ Here(k)' = disk'[v] /\ Here(k) = disk[v] /\ file'[k] = file[k]
        /\ Before(k) \subseteq VoiceFiles \ {file[k]}
    BY <1>1, <2>1, <2>2 DEF StoreInv, TypeInv, TaskKind, Here, Before, VoiceFiles
  <2>7. TaskKind(k) # "retrim" \/ file[k] # "audio"
    BY <2>1 DEF Copiable
  <2>8. Working(k)' /\ ~Early(k)' /\ PlaceInv(k)'
    BY <1>1, <1>2, <2>1, <2>6, <2>7 DEF Working, Over, Early, PlaceInv, TaskKind
  <2>9. ASSUME k \in alone
        PROVE  BringInv(k)' /\ KeepInv(k)' /\ PresetInv(k)' /\ EditInv(k)' /\ CoverInv(k)'
    <3>1. BringInv(k) /\ KeepInv(k) /\ EditInv(k) /\ CoverInv(k)
      BY <1>1, <2>9 DEF StoreInv, OwnInv
    <3>2. BringInv(k)' /\ PresetInv(k)'
      <4>1. \A f \in Before(k) : disk'[v][f] = disk[v][f]
        BY <2>4, <2>6
      <4>2. Brought(k)' = Brought(k) /\ Whole(k)' = Whole(k)
        BY <2>6 DEF Brought, Whole
      <4> QED BY <2>6, <3>1, <4>1, <4>2 DEF BringInv, PresetInv
    <3>3. /\ TaskKind(k) \in {"preset", "edit"} => file[k] = "meta"
          /\ TaskKind(k) = "presetText" => file[k] # "audio"
      BY <1>1, <1>2 DEF PlaceInv
    <3>4. KeepInv(k)'
      BY <1>1, <2>1, <2>4, <2>6, <3>1, <3>3 DEF KeepInv, VoiceFiles, ghost, Presets
    <3>5. EditInv(k)'
      BY <1>1, <2>1, <2>6, <3>1 DEF EditInv, ghost
    <3>6. CoverInv(k)'
      <4>1. TaskKind(k) = "cover" /\ file[k] = "audio" => disk'[task[k].from].audio # Absent
        BY <1>2, <2>1 DEF Copiable, Sane, TaskKind, StoreInv, TypeInv
      <4>2. "text" \in Before(k) => disk'[v].text = disk[v].text
        BY <2>4, <2>6 DEF VoiceFiles
      <4>3. "audio" \in Before(k) => disk'[v].audio = disk[v].audio
        BY <2>4, <2>6 DEF VoiceFiles
      <4>4. file[k] = "audio" => disk'[v].text = disk[v].text
        BY <2>4 DEF VoiceFiles
      <4> QED BY <1>1, <2>1, <2>6, <3>1, <4>1, <4>2, <4>3, <4>4 DEF CoverInv, ghost
    <3> QED BY <3>2, <3>4, <3>5, <3>6
  <2>10. OwnInv(k)'
    BY <2>1, <2>4, <2>6, <2>9 DEF OwnInv, ghost
  <2>11. /\ \A j \in Tasks \ {k} : step'[j] = step[j] /\ file'[j] = file[j] /\ seen'[j] = seen[j]
         /\ \A w \in Voices \ {v} : disk'[w] = disk[w] /\ (w \in dirs' <=> w \in dirs)
         /\ UNCHANGED <<task, ghost>> /\ v \in dirs'
    BY <2>1 DEF StoreInv, TypeInv
  <2> QED BY <1>1, <2>5, <2>8, <2>10, <2>11, Change
<1> QED BY <1>3, <1>4

(* What is written is of the kind of the file.                             *)
LEMMA ContentIsOfItsKind ==
    ASSUME StoreInv, NEW k \in Tasks, step[k] = "write", Working(k)
    PROVE  /\ file[k] \in {"audio", "text"} => Content(k) \in Recordings
           /\ file[k] = "meta" => Content(k) \in [Fields -> 0 .. MaxJobs]
<1>1. PlaceInv(k) /\ Sane(task[k]) /\ TaskKind(k) \in Registrations \cup {"cover", "edit"}
  BY DEF StoreInv, PlaceInv
<1>2. k \in 0 .. MaxJobs
  BY MaxJobsAssumption DEF Tasks
<1>3. CASE file[k] = "audio"
  <2>1. Content(k) = IF TaskKind(k) = "cover" THEN disk[task[k].from].audio ELSE k
    BY <1>3 DEF Content
  <2>2. TaskKind(k) = "cover" => disk[task[k].from] \in Entry
    BY <1>1 DEF Sane, TaskKind, StoreInv, TypeInv
  <2> QED BY <1>2, <1>3, <2>1, <2>2 DEF Entry, Recordings
<1>4. CASE file[k] = "text"
  <2>1. Content(k) = IF TaskKind(k) = "cover" THEN seen[k].text ELSE k
    BY <1>4 DEF Content
  <2>2. seen[k] \in Entry
    BY DEF StoreInv, TypeInv
  <2> QED BY <1>2, <1>4, <2>1, <2>2 DEF Entry, Recordings
<1>5. CASE file[k] = "meta"
  <2>1. Content(k) = IF TaskKind(k) = "edit" THEN [seen[k].meta EXCEPT ![task[k].field] = k]
                                         ELSE Whole(k).meta
    BY <1>5 DEF Content
  <2>2. TaskKind(k) = "edit" => seen[k].meta \in [Fields -> 0 .. MaxJobs]
    BY <1>1 DEF PlaceInv
  <2>3. Whole(k).meta \in [Fields -> 0 .. MaxJobs]
    BY <1>2 DEF Whole
  <2> QED BY <1>2, <1>5, <2>1, <2>2, <2>3
<1> QED BY <1>3, <1>4, <1>5

LEMMA WriteStore ==
    ASSUME StoreInv, NEW k \in Tasks, Write(k)
    PROVE  StoreInv'
<1> DEFINE v == task[k].voice
           l == IF file[k] = "meta" THEN "load" ELSE "open"
           g == IF file[k] = "audio" /\ ~(TaskKind(k) = "cover" /\ seen[k].text = Absent)
                  THEN "text" ELSE "meta"
           c == IF Content(k) = Absent THEN Torn ELSE Content(k)
<1>1. step[k] = "write" /\ Working(k)
  BY DEF Write, Working, Over
<1>2. PlaceInv(k) /\ Sane(task[k]) /\ TaskKind(k) \in Registrations \cup {"cover", "edit"}
  BY <1>1 DEF StoreInv, PlaceInv
<1>3. CASE Abort(k, "failed")
  BY <1>1, <1>3, AbortStore DEF Over
<1>4. CASE ~Abort(k, "failed")
  <2>1. /\ Proceed(k) /\ UNCHANGED <<dirs, task, seen, left, ghost>>
        /\ \/ Here(k)[file[k]] # Absent /\ disk' = [disk EXCEPT ![v][file[k]] = c]
           \/ Here(k)[file[k]] = Absent /\ disk' = disk
    BY <1>4 DEF Write, kept
  <2>2. v \in Voices /\ disk[v] \in Entry /\ file[k] \in VoiceFiles /\ seen[k] \in Entry
    BY <1>2 DEF StoreInv, TypeInv, Sane
  <2>3. step' = [step EXCEPT ![k] = l] /\ file' = [file EXCEPT ![k] = g]
    BY <2>1, <2>2 DEF Proceed, TurnTo, GoTo, VoiceFiles, StoreInv, TypeInv
  <2>4. /\ disk' \in [Voices -> Entry]
        /\ Here(k)[file[k]] # Absent => disk'[v][file[k]] = c
        /\ \A f \in VoiceFiles \ {file[k]} : disk'[v][f] = disk[v][f]
        /\ \A w \in Voices \ {v} : disk'[w] = disk[w]
    <3>1. CASE disk' = disk /\ Here(k)[file[k]] = Absent
      BY <3>1, <2>2 DEF StoreInv, TypeInv
    <3>2. CASE disk' = [disk EXCEPT ![v][file[k]] = c]
      <4>1. /\ file[k] \in {"audio", "text"} => c \in Recordings
            /\ file[k] = "meta" => c \in Metadata
        BY <1>1, ContentIsOfItsKind DEF Recordings, Metadata
      <4>2. disk' = [disk EXCEPT ![v] = [disk[v] EXCEPT ![file[k]] = c]]
        BY <2>2, <3>2 DEF StoreInv, TypeInv
      <4> HIDE DEF c
      <4>3. [disk[v] EXCEPT ![file[k]] = c] \in Entry
        BY <2>2, <4>1 DEF Entry, VoiceFiles
      <4> QED BY <2>2, <4>2, <4>3 DEF StoreInv, TypeInv, Entry, VoiceFiles
    <3> QED BY <2>1, <3>1, <3>2
  <2>5. l \in {"open", "load"} /\ g \in {"text", "meta"}
        /\ (l = "load" <=> file[k] = "meta")
    OBVIOUS
  <2>6. TypeInv'
    BY <2>1, <2>3, <2>4, <2>5 DEF StoreInv, TypeInv, Labels, VoiceFiles, ghost
  <2>7. /\ step'[k] = l /\ file'[k] = g /\ TaskKind(k)' = TaskKind(k)
        /\ Here(k)' = disk'[v] /\ Here(k) = disk[v] /\ seen'[k] = seen[k]
        /\ task' = task /\ alone' = alone /\ report' = report /\ sound' = sound
    BY <1>1, <2>1, <2>3 DEF StoreInv, TypeInv, TaskKind, Here, ghost
  <2>8. Working(k)' /\ ~Early(k)' /\ PlaceInv(k)'
    BY <1>1, <1>2, <2>5, <2>7 DEF Registrations, Presets, Working, Over, Early, PlaceInv, TaskKind
  <2>9. ASSUME k \in alone
        PROVE  BringInv(k)' /\ KeepInv(k)' /\ PresetInv(k)' /\ EditInv(k)' /\ CoverInv(k)'
    <3>1. /\ BringInv(k) /\ KeepInv(k) /\ EditInv(k) /\ CoverInv(k)
          /\ Here(k)[file[k]] = Torn
      BY <1>1, <2>9 DEF StoreInv, OwnInv
    <3>2. disk'[v][file[k]] = c
      BY <2>4, <3>1, ContentAssumption
    <3>3. Absent \notin 0 .. MaxJobs /\ Absent \notin [Fields -> 0 .. MaxJobs] /\ k \in 0 .. MaxJobs
      BY ContentAssumption, MaxJobsAssumption DEF Tasks
    <3>4. TaskKind(k) \in {"clone", "presetText"} => disk'[v][file[k]] = Whole(k)[file[k]]
      BY <2>2, <3>2, <3>3 DEF Content, Whole, VoiceFiles
    <3>5. TaskKind(k) \in {"preset", "cover"} /\ file[k] = "meta" => disk'[v].meta = Whole(k).meta
      <4>1. Whole(k).meta \in [Fields -> 0 .. MaxJobs]
        BY <3>3 DEF Whole
      <4> QED BY <3>2, <3>3, <4>1 DEF Content
    <3>6. TaskKind(k) = "edit" => disk'[v].meta = [seen[k].meta EXCEPT ![task[k].field] = k]
      <4>1. TaskKind(k) = "edit" => file[k] = "meta"
        BY <1>1, <1>2 DEF PlaceInv
      <4>2. TaskKind(k) = "edit" => Content(k) = [seen[k].meta EXCEPT ![task[k].field] = k]
        BY <4>1 DEF Content
      <4>3. TaskKind(k) = "edit" => Content(k) \in [Fields -> 0 .. MaxJobs]
        BY <1>1, <4>1, ContentIsOfItsKind
      <4> QED BY <3>2, <3>3, <4>1, <4>2, <4>3
    <3>7. TaskKind(k) = "cover" /\ file[k] = "audio" => disk'[v].audio = disk[task[k].from].audio
      BY <1>1, <3>1, <3>2 DEF Content, CoverInv
    <3>8. TaskKind(k) = "cover" /\ file[k] = "text" => disk'[v].text = seen[k].text
      BY <1>1, <3>1, <3>2 DEF Content, CoverInv
    <3>9. TaskKind(k) = "clone" => g = IF file[k] = "audio" THEN "text" ELSE "meta"
      OBVIOUS
    <3>10. BringInv(k)'
      <4> SUFFICES ASSUME TaskKind(k) \in {"clone", "presetText"},
                          NEW f \in Before(k)' \cap Brought(k)'
                   PROVE  disk'[v][f] = Whole(k)[f]
        BY <2>7 DEF BringInv, Whole
      <4>1. f \in Brought(k) /\ f \in VoiceFiles
        BY <2>7 DEF Brought, VoiceFiles
      <4>2. CASE f = file[k]
        BY <3>4, <4>2
      <4>3. CASE f # file[k]
        <5>1. f \in Before(k)
          <6>1. CASE file[k] = "audio"
            <7>1. TaskKind(k) = "clone"
              BY <1>1, <1>2, <6>1 DEF PlaceInv
            <7> QED BY <2>7, <3>9, <4>3, <6>1, <7>1 DEF Before
          <6>2. CASE file[k] = "text"
            BY <1>1, <2>7, <4>3, <6>2 DEF Before
          <6>3. CASE file[k] = "meta"
            BY <1>1, <4>1, <4>3, <6>3 DEF Before, VoiceFiles
          <6> QED BY <2>2, <6>1, <6>2, <6>3 DEF VoiceFiles
        <5>2. disk[v][f] = Whole(k)[f]
          BY <2>7, <3>1, <4>1, <5>1 DEF BringInv
        <5> QED BY <2>4, <4>1, <4>3, <5>2
      <4> QED BY <4>2, <4>3
    <3>11. /\ TaskKind(k) \in {"preset", "edit"} => file[k] = "meta"
           /\ TaskKind(k) = "presetText" => file[k] # "audio"
      BY <1>1, <1>2 DEF PlaceInv
    <3>12. KeepInv(k)' /\ PresetInv(k)'
      BY <1>1, <2>4, <2>7, <3>1, <3>5, <3>11 DEF KeepInv, PresetInv, VoiceFiles, Presets
    <3>13. EditInv(k)'
      BY <1>1, <2>7, <3>1, <3>6 DEF EditInv
    <3>14. CoverInv(k)'
      <4> SUFFICES ASSUME TaskKind(k) = "cover" PROVE CoverInv(k)'
        BY <2>7 DEF CoverInv
      <4>1. task[k].from \in sound => disk[task[k].from] = report[task[k].from]
        BY <1>1, <2>9, SourceIsReported
      <4>2. CASE file[k] = "audio"
        <5>1. disk'[v].text = disk[v].text
          BY <2>4, <4>2 DEF VoiceFiles
        <5> QED BY <1>1, <2>7, <3>1, <3>7, <4>1, <4>2, <5>1 DEF CoverInv, Before
      <4>3. CASE file[k] = "text"
        <5>1. disk'[v].audio = disk[v].audio
          BY <2>4, <4>3 DEF VoiceFiles
        <5> QED BY <1>1, <2>7, <3>1, <3>8, <4>3, <5>1 DEF CoverInv, Before
      <4>4. CASE file[k] = "meta"
        <5>1. disk'[v].audio = disk[v].audio /\ disk'[v].text = disk[v].text
          BY <2>4, <4>4 DEF VoiceFiles
        <5> QED BY <1>1, <2>7, <3>1, <3>5, <4>4, <5>1 DEF CoverInv, Before, VoiceFiles
      <4> QED BY <2>2, <4>2, <4>3, <4>4 DEF VoiceFiles
    <3> QED BY <3>10, <3>12, <3>13, <3>14
  <2>10. OwnInv(k)'
    BY <2>5, <2>7, <2>9 DEF OwnInv
  <2>11. DirInv(v)
    BY <2>2 DEF StoreInv
  <2>12. v \notin dirs' => Here(k)' = NoFiles
    <3>1. v \notin dirs => Here(k) = NoFiles
      BY <2>7, <2>11 DEF DirInv
    <3>2. v \notin dirs => Here(k)[file[k]] = Absent
      BY <2>2, <3>1 DEF NoFiles
    <3> QED BY <2>1, <2>7, <3>1, <3>2
  <2>13. /\ \A j \in Tasks \ {k} : step'[j] = step[j] /\ file'[j] = file[j] /\ seen'[j] = seen[j]
         /\ \A w \in Voices \ {v} : disk'[w] = disk[w] /\ (w \in dirs' <=> w \in dirs)
         /\ UNCHANGED <<task, ghost>>
    BY <2>1, <2>3, <2>4 DEF StoreInv, TypeInv
  <2> QED BY <1>1, <2>6, <2>8, <2>10, <2>12, <2>13, Change
<1> QED BY <1>3, <1>4

LEMMA LoadStore ==
    ASSUME StoreInv, NEW k \in Tasks, Load(k)
    PROVE  StoreInv'
<1> DEFINE v == task[k].voice
<1>1. step[k] = "load" /\ Working(k)
  BY DEF Load, Working, Over
<1>2. PlaceInv(k) /\ Sane(task[k]) /\ TaskKind(k) \in Registrations \cup {"cover", "edit"}
  BY <1>1 DEF StoreInv, PlaceInv
<1>3. CASE Abort(k, "failed")
  BY <1>1, <1>3, AbortStore DEF Over
<1>4. CASE Done(k)
  <2> SUFFICES ASSUME k \in alone, WellFounded(k) PROVE Here(k) = Outcome(k)
    BY <1>1, <1>4, DoneStore
  <2>1. /\ BringInv(k) /\ KeepInv(k) /\ PresetInv(k) /\ EditInv(k) /\ CoverInv(k)
        /\ Before(k) = VoiceFiles
    BY <1>1 DEF StoreInv, OwnInv, Before
  <2>2. v \in Voices /\ Here(k) \in Entry /\ report[v] \in Entry /\ Whole(k).meta \in Metadata
    BY <1>2, MaxJobsAssumption DEF StoreInv, TypeInv, Sane, Here, Whole, Metadata, Tasks
  <2>3. CASE TaskKind(k) = "clone"
    <3>1. Outcome(k) = Whole(k) /\ Whole(k) \in Entry
      BY <2>2, <2>3, MaxJobsAssumption DEF Outcome, Whole, Entry, Recordings, Tasks
    <3>2. \A f \in VoiceFiles : Here(k)[f] = Whole(k)[f]
      BY <2>1, <2>3 DEF BringInv, Brought
    <3>3. Here(k).audio = Whole(k).audio /\ Here(k).text = Whole(k).text /\ Here(k).meta = Whole(k).meta
      BY <3>2 DEF VoiceFiles
    <3> QED BY <2>2, <3>1, <3>3, EntriesAreEqual
  <2>4. CASE TaskKind(k) \in Presets
    <3>1. v \in sound /\ report[v].audio = Absent /\ (TaskKind(k) = "preset" => report[v].text = Absent)
      BY <2>4, <2>2 DEF WellFounded, Presets
    <3>2. Here(k).audio = Absent /\ (TaskKind(k) = "preset" => Here(k).text = Absent)
      BY <1>1, <2>1, <2>4, <3>1 DEF KeepInv, Presets
    <3>3. CASE TaskKind(k) = "preset"
      <4>1. Outcome(k) = [Whole(k) EXCEPT !.audio = Absent, !.text = Absent]
        BY <3>3 DEF Outcome, Bare
      <4>2. Here(k).meta = Whole(k).meta
        BY <1>1, <2>1, <3>3 DEF PresetInv
      <4>3. Outcome(k) \in Entry /\ Outcome(k).audio = Absent
            /\ Outcome(k).text = Absent /\ Outcome(k).meta = Whole(k).meta
        BY <2>2, <4>1 DEF Entry, Whole, Recordings
      <4> QED BY <2>2, <3>2, <3>3, <4>2, <4>3, EntriesAreEqual
    <3>4. CASE TaskKind(k) = "presetText"
      <4>1. Outcome(k) = [Whole(k) EXCEPT !.audio = Absent]
        BY <3>4 DEF Outcome
      <4>2. Here(k).text = Whole(k).text /\ Here(k).meta = Whole(k).meta
        BY <2>1, <3>4 DEF BringInv, Brought, VoiceFiles
      <4>3. k \in Recordings
        BY MaxJobsAssumption DEF Recordings, Tasks
      <4>4. Outcome(k) \in Entry /\ Outcome(k).audio = Absent
            /\ Outcome(k).text = Whole(k).text /\ Outcome(k).meta = Whole(k).meta
        BY <2>2, <4>1, <4>3 DEF Entry, Whole, Recordings
      <4> QED BY <2>2, <3>2, <4>2, <4>4, EntriesAreEqual
    <3> QED BY <2>4, <3>3, <3>4 DEF Presets
  <2>5. CASE TaskKind(k) = "cover"
    <3> DEFINE u == task[k].from
    <3>1. u \in sound /\ u \in Voices /\ report[u] \in Entry
      BY <1>2, <2>5 DEF WellFounded, Sane, TaskKind, StoreInv, TypeInv
    <3>2. Here(k).audio = report[u].audio /\ Here(k).text = report[u].text
          /\ Here(k).meta = Whole(k).meta
      BY <1>1, <2>1, <2>5, <3>1 DEF CoverInv, VoiceFiles
    <3>3. Outcome(k) = [report[u] EXCEPT !.meta = Whole(k).meta]
      BY <2>5 DEF Outcome
    <3>4. Outcome(k) \in Entry /\ Outcome(k).audio = report[u].audio
          /\ Outcome(k).text = report[u].text /\ Outcome(k).meta = Whole(k).meta
      BY <2>2, <3>1, <3>3 DEF Entry
    <3> QED BY <2>2, <3>2, <3>4, EntriesAreEqual
  <2>6. CASE TaskKind(k) = "edit"
    <3>1. v \in sound
      BY <2>6 DEF WellFounded
    <3>2. /\ Here(k).audio = report[v].audio /\ Here(k).text = report[v].text
          /\ seen[k].meta = report[v].meta
          /\ Here(k).meta = [report[v].meta EXCEPT ![task[k].field] = k]
      BY <1>1, <2>1, <2>6, <3>1 DEF KeepInv, EditInv, Presets
    <3>3. Outcome(k) = [report[v] EXCEPT !.meta[task[k].field] = k]
      BY <2>6 DEF Outcome
    <3>4. Outcome(k) = [report[v] EXCEPT !.meta = Here(k).meta]
      BY <2>2, <3>2, <3>3 DEF Entry
    <3>5. Outcome(k) \in Entry /\ Outcome(k).audio = report[v].audio
          /\ Outcome(k).text = report[v].text /\ Outcome(k).meta = Here(k).meta
      BY <2>2, <3>4 DEF Entry
    <3> QED BY <2>2, <3>2, <3>5, EntriesAreEqual
  <2> QED BY <1>2, <2>3, <2>4, <2>5, <2>6 DEF Registrations
<1> QED BY <1>3, <1>4 DEF Load

LEMMA ScanStore ==
    ASSUME StoreInv, NEW k \in Tasks, Scan(k)
    PROVE  StoreInv'
<1> DEFINE v == task[k].voice
<1>1. step[k] = "look" /\ TaskKind(k) = "delete" /\ Working(k) /\ Early(k)
  BY DEF Scan, Working, Over, Early
<1>2. Sane(task[k]) /\ v \in Voices
  BY <1>1 DEF StoreInv, PlaceInv, Sane
<1>3. CASE Refuse(k)
  BY <1>1, <1>3, RefuseStore
<1>4. CASE v \notin dirs /\ Done(k)
  BY <1>1, <1>2, <1>4, DoneStore DEF Outcome, Here, StoreInv, DirInv
<1>5. CASE /\ left' = [left EXCEPT ![k] = {f \in VoiceFiles : Here(k)[f] # Absent}]
           /\ GoTo(k, "unlink")
           /\ UNCHANGED <<kept, task, seen, ghost>>
  <2>1. /\ step' = [step EXCEPT ![k] = "unlink"] /\ file' = file
        /\ UNCHANGED <<kept, task, seen, ghost>>
    BY <1>5 DEF GoTo
  <2>2. TypeInv'
    BY <1>5, <2>1 DEF StoreInv, TypeInv, Labels, kept, ghost
  <2>3. step'[k] = "unlink" /\ TaskKind(k)' = TaskKind(k)
    BY <2>1 DEF StoreInv, TypeInv, TaskKind
  <2>4. Working(k)' /\ ~Early(k)' /\ PlaceInv(k)' /\ OwnInv(k)'
    BY <1>1, <1>2, <2>1, <2>3 DEF Working, Over, Early, PlaceInv, OwnInv, TaskKind,
         BringInv, KeepInv, PresetInv, EditInv, CoverInv
  <2>5. /\ \A j \in Tasks \ {k} : step'[j] = step[j] /\ file'[j] = file[j] /\ seen'[j] = seen[j]
        /\ \A w \in Voices \ {v} : disk'[w] = disk[w] /\ (w \in dirs' <=> w \in dirs)
        /\ UNCHANGED <<task, ghost>>
        /\ v \notin dirs' => Here(k)' = NoFiles
    BY <1>2, <2>1 DEF StoreInv, TypeInv, kept, DirInv, Here
  <2> QED BY <1>1, <2>2, <2>4, <2>5, Change
<1> QED BY <1>3, <1>4, <1>5 DEF Scan

LEMMA UnlinkStore ==
    ASSUME StoreInv, NEW k \in Tasks, Unlink(k)
    PROVE  StoreInv'
<1> DEFINE v == task[k].voice
<1>1. step[k] = "unlink" /\ Working(k)
  BY DEF Unlink, Working, Over
<1>2. Sane(task[k]) /\ v \in Voices /\ TaskKind(k) = "delete" /\ disk[v] \in Entry
  BY <1>1 DEF StoreInv, PlaceInv, Sane, TypeInv
<1>3. CASE Abort(k, "failed")
  BY <1>1, <1>3, AbortStore DEF Over
<1>4. CASE ~Abort(k, "failed")
  <2>1. PICK f \in left[k] :
          /\ Here(k)[f] # Absent /\ disk' = [disk EXCEPT ![v][f] = Absent]
          /\ left' = [left EXCEPT ![k] = @ \ {f}]
          /\ UNCHANGED <<dirs, task, step, file, seen, ghost>>
    BY <1>4 DEF Unlink
  <2>2. f \in VoiceFiles
    BY <2>1 DEF StoreInv, TypeInv
  <2>3. [disk[v] EXCEPT ![f] = Absent] \in Entry
    BY <1>2, <2>2 DEF Entry, VoiceFiles, Recordings, Metadata
  <2>4. disk' = [disk EXCEPT ![v] = [disk[v] EXCEPT ![f] = Absent]]
    BY <1>2, <2>1, <2>2 DEF StoreInv, TypeInv
  <2>5. TypeInv'
    BY <1>2, <2>1, <2>3, <2>4 DEF StoreInv, TypeInv, ghost
  <2>6. Working(k)' /\ ~Early(k)' /\ PlaceInv(k)' /\ OwnInv(k)'
    BY <1>1, <1>2, <2>1 DEF Working, Over, Early, PlaceInv, OwnInv, TaskKind,
         BringInv, KeepInv, PresetInv, EditInv, CoverInv
  <2>7. v \in dirs
    BY <1>2, <2>1, <2>2 DEF StoreInv, DirInv, Here, NoFiles
  <2>8. /\ \A j \in Tasks \ {k} : step'[j] = step[j] /\ file'[j] = file[j] /\ seen'[j] = seen[j]
        /\ \A w \in Voices \ {v} : disk'[w] = disk[w] /\ (w \in dirs' <=> w \in dirs)
        /\ UNCHANGED <<task, ghost>>
        /\ v \notin dirs' => Here(k)' = NoFiles
    BY <2>1, <2>4, <2>7 DEF StoreInv, TypeInv
  <2> QED BY <1>1, <2>5, <2>6, <2>8, Change
<1> QED BY <1>3, <1>4

LEMMA RemoveStore ==
    ASSUME StoreInv, NEW k \in Tasks, RemoveDir(k)
    PROVE  StoreInv'
<1> DEFINE v == task[k].voice
<1>1. step[k] = "unlink" /\ Working(k)
  BY DEF RemoveDir, Working, Over
<1>2. Sane(task[k]) /\ v \in Voices /\ TaskKind(k) = "delete"
  BY <1>1 DEF StoreInv, PlaceInv, Sane
<1>3. CASE Abort(k, "failed")
  BY <1>1, <1>3, AbortStore DEF Over
<1>4. CASE ~Abort(k, "failed")
  <2>1. /\ Here(k) = NoFiles /\ dirs' = dirs \ {v}
        /\ step' = [step EXCEPT ![k] = "removed"] /\ file' = file
        /\ UNCHANGED <<disk, task, seen, left, ghost>>
    BY <1>4 DEF RemoveDir, GoTo
  <2>2. TypeInv'
    BY <2>1 DEF StoreInv, TypeInv, Labels, ghost
  <2>3. step'[k] = "removed" /\ TaskKind(k)' = "delete" /\ Here(k)' = NoFiles
    BY <1>2, <2>1 DEF StoreInv, TypeInv, TaskKind, Here
  <2>4. Working(k)' /\ ~Early(k)' /\ PlaceInv(k)' /\ OwnInv(k)'
    BY <1>2, <2>1, <2>3 DEF Working, Over, Early, PlaceInv, OwnInv,
         BringInv, KeepInv, PresetInv, EditInv, CoverInv
  <2>5. /\ \A j \in Tasks \ {k} : step'[j] = step[j] /\ file'[j] = file[j] /\ seen'[j] = seen[j]
        /\ \A w \in Voices \ {v} : disk'[w] = disk[w] /\ (w \in dirs' <=> w \in dirs)
        /\ UNCHANGED <<task, ghost>>
    BY <2>1 DEF StoreInv, TypeInv
  <2> QED BY <1>1, <2>2, <2>3, <2>4, <2>5, Change
<1> QED BY <1>3, <1>4

LEMMA StoreStep == StoreInv /\ [StoreNext]_storeVars => StoreInv'
<1> SUFFICES ASSUME StoreInv, [StoreNext]_storeVars PROVE StoreInv'
  OBVIOUS
<1>1. CASE UNCHANGED storeVars
  <2>1. TypeInv' /\ RivalInv'
    BY <1>1 DEF StoreInv, TypeInv, RivalInv, Touch, Working, storeVars, kept, ghost
  <2>2. ASSUME NEW j \in Tasks PROVE PlaceInv(j)' /\ OwnInv(j)'
    <3>1. PlaceInv(j) /\ OwnInv(j)
      BY DEF StoreInv
    <3>2. PlaceInv(j)'
      BY <1>1, <3>1 DEF PlaceInv, Working, TaskKind, storeVars, kept, ghost
    <3>3. OwnInv(j)'
      BY <1>1, <3>1 DEF Brought, OwnInv, Working, TaskKind, Here, Before, storeVars, kept, ghost,
           BringInv, KeepInv, PresetInv, EditInv, CoverInv
    <3> QED BY <3>2, <3>3
  <2>3. \A v \in Voices : DirInv(v)' /\ SoundInv(v)'
    BY <1>1 DEF StoreInv, DirInv, SoundInv, Early, Working, TaskKind, storeVars, kept, ghost
  <2> QED BY <2>1, <2>2, <2>3 DEF StoreInv
<1>2. ASSUME NEW k \in Tasks, Step(k) PROVE StoreInv'
  <2>1. CASE Removed(k)
    <3>1. step[k] = "removed" /\ Working(k) /\ Done(k)
      BY <2>1 DEF Removed, Working, Over
    <3>2. TaskKind(k) = "delete"
      BY <3>1 DEF StoreInv, PlaceInv
    <3>3. k \in alone => Here(k) = Outcome(k)
      BY <3>1, <3>2 DEF StoreInv, OwnInv, Outcome
    <3> QED BY <3>1, <3>3, DoneStore
  <2>2. CASE Kill(k)
    BY <2>2, AbortStore DEF Kill, Over
  <2> QED BY <1>2, <2>1, <2>2, StartsAreSane, LookStore, TrimStore, CheckStore, MakeStore,
             OpenStore, WriteStore, LoadStore, ScanStore, UnlinkStore, RemoveStore DEF Step
<1> QED BY <1>1, <1>2 DEF StoreNext

(* The inductive invariant of the registry: what each job may be at, which *)
(* jobs disturb each other, what an undisturbed job has made so far, and   *)
(* that a sound voice on which nobody has begun to change anything is what *)
(* was reported.                                                           *)
THEOREM StoreInvariant == StoreSpec => []StoreInv
BY InitStore, StoreStep, PTL DEF StoreSpec

(* The registry is what its jobs have been reported to make of it          *)
(* (registry/__init__.py: register, delete, tune, set_persona and          *)
(* set_backend, by the handlers of server.py and the commands of cli.py).  *)
THEOREM StoreKeepsItsReports == StoreSpec => []StoreIsAsReported
<1>1. StoreInv => StoreIsAsReported
  BY DEF StoreInv, TypeInv, SoundInv, StoreIsAsReported
<1> QED BY <1>1, StoreInvariant, PTL
=============================================================================
