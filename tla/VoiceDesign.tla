---------------------------- MODULE VoiceDesign ----------------------------
(***************************************************************************)
(* The voice_design command (scripts/voice_design.py and the package       *)
(* voice_forge.voice_design).  A persona of fleet.yaml gets a voice from   *)
(* ElevenLabs: audition asks for previews, saves each to an MP3 file and   *)
(* then their ids to a manifest, lets the user pick one, makes a voice of  *)
(* it and writes the voice's id back into fleet.yaml; with --save-only it  *)
(* stops at the files, and persist goes on from the manifest.  library     *)
(* adopts a public voice, and regen speaks a persona's reference text with *)
(* its voice into ref.wav and ref.txt.                                     *)
(*                                                                         *)
(* Commands are processes of their own and share only the files.  Every    *)
(* file is written in place: it is opened, which empties it, and is whole  *)
(* once the write has ended.  A command may be killed between any two      *)
(* steps, and any request may fail, before or after the service has acted. *)
(***************************************************************************)
EXTENDS Integers, Sequences

CONSTANTS
    Shells,           \* the terminals in which commands run
    MaxPersonas,      \* bound: personas of the fleet
    MaxPreviews,      \* bound: previews of one request
    MaxGenerations,   \* bound: requests for previews
    MaxVoices,        \* bound: voices made
    MaxCommands,      \* bound: commands started
    RegenBudget,      \* auditions of a persona before it is given up
    Missing, Partial  \* what a file that is not there, or not whole, holds

ASSUME DesignAssumption ==
    /\ MaxPersonas \in Nat \ {0} /\ MaxPreviews \in Nat \ {0}
    /\ RegenBudget \in Nat \ {0} /\ Missing # Partial
    /\ Missing \notin Seq(Nat \X Nat) /\ Partial \notin Seq(Nat \X Nat)

VARIABLES
    folder,       \* what each file holds
    shell,        \* the command of each terminal
    voices,       \* the voices of the account: the preview each was made of
    generations,  \* how many requests for previews were answered
    commands,     \* how many commands may still be started
    reported,     \* history: the ids that ended write-backs have put into the fleet
    intact        \* history: the resources left whole, with no rival in the writing

designVars == <<folder, shell, voices, generations, commands, reported, intact>>

Roster  == 1..MaxPersonas
Indices == 1..MaxPreviews
Texts   == {"sample", "given"}

Files ==
    {<<"fleet">>}
      \cup ({"mp3"} \X Roster \X Indices)
      \cup ({"manifest", "wav", "txt"} \X Roster)

\* What is written together, and has to agree.
Resource(f) ==
    CASE f[1] = "fleet"               -> <<"fleet">>
      [] f[1] \in {"mp3", "manifest"} -> <<"previews", f[2]>>
      [] OTHER                        -> <<"ref", f[2]>>

Resources == {Resource(f) : f \in Files}

NoPreview == <<0, 0>>
Idle      == [kind |-> "none", at |-> "idle"]

(***************************************************************************)
(* The personas a command works on, one after another: one, or all of      *)
(* them.                                                                   *)
(***************************************************************************)
Selections(kind) ==
    {<<p>> : p \in Roster}
      \cup (IF kind \in {"ask", "auto", "save", "regen"} THEN {[p \in Roster |-> p]} ELSE {})

Turn(b) ==
    IF b.left = <<>> THEN Idle
    ELSE [b EXCEPT !.tries = RegenBudget,
                   !.at    = CASE b.kind = "persist" -> "manifest"
                               [] b.kind = "library" -> "adopt"
                               [] b.kind = "regen"   -> "speak"
                               [] OTHER              -> "generate",
                   !.chosen = NoPreview, !.voice = 0,
                   !.previews = <<>>, !.files = <<>>, !.open = FALSE, !.alone = TRUE]

Advance(b) == Turn([b EXCEPT !.left = Tail(@)])
Persona(b) == Head(b.left)

DesignInit ==
    /\ folder = [f \in Files |-> IF f = <<"fleet">> THEN [p \in Roster |-> 0] ELSE Missing]
    /\ shell = [j \in Shells |-> Idle]
    /\ voices = <<>>
    /\ generations = 0
    /\ commands = MaxCommands
    /\ reported = [p \in Roster |-> 0]
    /\ intact = Resources

\* A command as it is given, and the fleet it has read.
Given(kind, left, index, text, dry) ==
    [kind |-> kind, at |-> "idle", left |-> left, fleet |-> folder[<<"fleet">>],
     index |-> index, text |-> text, dry |-> dry, tries |-> 0,
     chosen |-> NoPreview, voice |-> 0,
     previews |-> <<>>, files |-> <<>>, open |-> FALSE, alone |-> TRUE]

\* Every command reads the fleet before it does anything else.
Start(j) ==
    /\ shell[j].at = "idle" /\ commands > 0 /\ folder[<<"fleet">>] # Partial
    /\ \E kind \in {"ask", "auto", "save", "persist", "library", "regen"},
          index \in Indices, text \in Texts, dry \in BOOLEAN :
         /\ kind # "persist" => index = 1
         /\ kind # "regen" => text = "sample"
         /\ kind \in {"save", "regen"} => ~dry
         /\ \E left \in Selections(kind) :
              shell' = [shell EXCEPT ![j] = Turn(Given(kind, left, index, text, dry))]
    /\ commands' = commands - 1
    /\ UNCHANGED <<folder, voices, generations, reported, intact>>

(***************************************************************************)
(* Files are written in the order of the list.  Two commands that are both *)
(* between the beginning of a resource's change and its end are rivals,    *)
(* and nothing is promised of what they leave.                             *)
(***************************************************************************)
Changes(b, r) == b.at = "write" /\ Resource(Head(b.files).file) = r

\* shell[j] becomes b, a command that begins to change the resource of its files.
BeginFiles(j, b) ==
    LET r      == Resource(Head(b.files).file)
        rivals == {k \in Shells \ {j} : Changes(shell[k], r)}
        new    == [b EXCEPT !.at = "write", !.open = FALSE,
                            !.alone = rivals = {} /\ (r = <<"fleet">> => r \in intact)]
    IN  shell' = [k \in Shells |-> CASE k = j        -> new
                                     [] k \in rivals -> [shell[k] EXCEPT !.alone = FALSE]
                                     [] OTHER        -> shell[k]]

OpenFile(j) ==
    /\ shell[j].at = "write" /\ ~shell[j].open
    /\ folder' = [folder EXCEPT ![Head(shell[j].files).file] = Partial]
    /\ intact' = intact \ {Resource(Head(shell[j].files).file)}
    /\ shell' = [shell EXCEPT ![j].open = TRUE]
    /\ UNCHANGED <<voices, generations, commands, reported>>

\* Where a command goes once its files are written.
AfterWriting(b) ==
    IF b.kind = "ask" /\ Head(b.files).file[1] = "manifest" THEN [b EXCEPT !.at = "pick", !.files = <<>>]
    ELSE IF b.kind = "auto" /\ Head(b.files).file[1] = "manifest"
         THEN [b EXCEPT !.at = "create", !.files = <<>>, !.previews = <<>>,
                         !.chosen = b.previews[1]]
    ELSE Advance(b)

WriteFile(j) ==
    LET b     == shell[j]
        entry == Head(b.files)
        last  == Len(b.files) = 1
    IN  /\ b.at = "write" /\ b.open
        /\ folder' = [folder EXCEPT ![entry.file] = entry.data]
        /\ shell' = [shell EXCEPT ![j] = IF last THEN AfterWriting(b)
                                         ELSE [b EXCEPT !.files = Tail(@), !.open = FALSE]]
        /\ intact' = IF last /\ b.alone THEN intact \cup {Resource(entry.file)} ELSE intact
        /\ reported' = IF entry.file = <<"fleet">> THEN [reported EXCEPT ![Persona(b)] = b.voice]
                                                   ELSE reported
        /\ UNCHANGED <<voices, generations, commands>>

(***************************************************************************)
(* audition: previews are asked for, and saved with the manifest last.     *)
(***************************************************************************)
PreviewFiles(p, previews) ==
    [i \in DOMAIN previews |-> [file |-> <<"mp3", p, i>>, data |-> previews[i]]]
      \o <<[file |-> <<"manifest", p>>, data |-> previews]>>

Generate(j) ==
    LET b == shell[j]
    IN  /\ b.at = "generate" /\ generations < MaxGenerations
        /\ \E n \in Indices :
             LET previews == [i \in 1..n |-> <<generations + 1, i>>]
             IN  BeginFiles(j, [b EXCEPT !.previews = previews,
                                         !.files = PreviewFiles(Persona(b), previews)])
        /\ generations' = generations + 1
        /\ UNCHANGED <<folder, voices, commands, reported, intact>>

\* The service has no previews for the persona, which is left without a voice.
GenerateNothing(j) ==
    /\ shell[j].at = "generate"
    /\ shell' = [shell EXCEPT ![j] = Advance(shell[j])]
    /\ UNCHANGED <<folder, voices, generations, commands, reported, intact>>

\* The answer is a number of the previews the command holds, whatever the files say by now.
Pick(j) ==
    LET b == shell[j]
    IN  /\ b.at = "pick"
        /\ \E i \in DOMAIN b.previews :
             shell' = [shell EXCEPT ![j] = [b EXCEPT !.at = "create", !.previews = <<>>,
                                                  !.chosen = b.previews[i]]]
        /\ UNCHANGED <<folder, voices, generations, commands, reported, intact>>

\* 's' and 'r' are the same answer: the persona is auditioned again while its budget lasts.
PickNone(j) ==
    LET b == shell[j]
    IN  /\ b.at = "pick"
        /\ shell' = [shell EXCEPT ![j] = IF b.tries = 1 THEN Advance(b)
                                       ELSE [b EXCEPT !.tries = @ - 1, !.at = "generate"]]
        /\ UNCHANGED <<folder, voices, generations, commands, reported, intact>>

(***************************************************************************)
(* persist goes by the manifest alone, as it is now.  Without a readable   *)
(* one, or with an index beyond it, the command ends.                      *)
(***************************************************************************)
ReadManifest(j) ==
    LET b    == shell[j]
        held == folder[<<"manifest", Persona(b)>>]
    IN  /\ b.at = "manifest"
        /\ shell' = [shell EXCEPT ![j] =
             IF held \in {Missing, Partial} \/ (held \notin {Missing, Partial} /\ b.index > Len(held))
             THEN Idle
             ELSE [b EXCEPT !.at = "create", !.chosen = held[b.index]]]
        /\ UNCHANGED <<folder, voices, generations, commands, reported, intact>>

\* The account gets a voice, whose id goes into the fleet, unless the answer is lost.
NewVoice(j, preview) ==
    LET b == shell[j]
    IN  /\ Len(voices) < MaxVoices
        /\ voices' = Append(voices, preview)
        /\ \E next \in {IF b.dry THEN Advance(b)
                        ELSE [b EXCEPT !.at = "back", !.voice = Len(voices) + 1], Idle} :
             shell' = [shell EXCEPT ![j] = next]
        /\ UNCHANGED <<folder, generations, commands, reported, intact>>

\* audition and persist make a voice of the chosen preview.
Create(j) ==
    /\ shell[j].at = "create"
    /\ NewVoice(j, shell[j].chosen)

\* library --add copies a public voice, which is no preview of anybody's.
Adopt(j) ==
    /\ shell[j].at = "adopt"
    /\ NewVoice(j, NoPreview)

\* Faulty variant: the fleet read at the start of the command is written back.
ReadFleetAtStart(j) ==
    LET b == shell[j]
    IN  /\ b.at = "back"
        /\ BeginFiles(j, [b EXCEPT !.files =
             <<[file |-> <<"fleet">>, data |-> [b.fleet EXCEPT ![Persona(b)] = b.voice]]>>])
        /\ UNCHANGED <<folder, voices, generations, commands, reported, intact>>

\* _write_back_fleet: the file is read again, and one id of it is changed.
ReadFleet(j) ==
    LET b    == shell[j]
        held == folder[<<"fleet">>]
    IN  /\ b.at = "back"
        /\ IF held = Partial THEN shell' = [shell EXCEPT ![j] = Idle]
           ELSE BeginFiles(j, [b EXCEPT !.files =
                  <<[file |-> <<"fleet">>, data |-> [held EXCEPT ![Persona(b)] = b.voice]]>>])
        /\ UNCHANGED <<folder, voices, generations, commands, reported, intact>>

\* What the service returns: the sound of a text in a voice.
TextToSpeech(voice, text) == <<voice, text>>

\* regen: the voice of the fleet as it was at the start speaks the text.
RefFiles(p, voice, text) ==
    <<[file |-> <<"wav", p>>, data |-> TextToSpeech(voice, text)],
      [file |-> <<"txt", p>>, data |-> text]>>

Speak(j) ==
    LET b == shell[j]
    IN  /\ b.at = "speak" /\ b.fleet[Persona(b)] # 0
        /\ BeginFiles(j, [b EXCEPT !.files = RefFiles(Persona(b), b.fleet[Persona(b)], b.text)])
        /\ UNCHANGED <<folder, voices, generations, commands, reported, intact>>

\* A persona without a voice is passed over, and one without a text of its own or given.
PassOver(j) ==
    LET b == shell[j]
    IN  /\ b.at = "speak"
        /\ b.fleet[Persona(b)] = 0 \/ b.text = "sample"
        /\ shell' = [shell EXCEPT ![j] = Advance(b)]
        /\ UNCHANGED <<folder, voices, generations, commands, reported, intact>>

(***************************************************************************)
(* A request may fail, which ends the command, and a command may be        *)
(* killed.  Ctrl-C in an audition only goes on to the next persona.        *)
(***************************************************************************)
Stop(j) ==
    /\ shell[j].at # "idle"
    /\ shell' = [shell EXCEPT ![j] = Idle]
    /\ UNCHANGED <<folder, voices, generations, commands, reported, intact>>

Interrupt(j) ==
    LET b == shell[j]
    IN  /\ b.kind \in {"ask", "auto"}
        /\ b.at \in {"generate", "pick", "create"}
             \/ (b.at = "write" /\ Head(b.files).file # <<"fleet">>)
        /\ shell' = [shell EXCEPT ![j] = Advance(b)]
        /\ UNCHANGED <<folder, voices, generations, commands, reported, intact>>

DesignNext ==
    \E j \in Shells :
        \/ Start(j) \/ Generate(j) \/ GenerateNothing(j) \/ Pick(j) \/ PickNone(j)
        \/ ReadManifest(j) \/ Create(j) \/ Adopt(j) \/ ReadFleet(j) \/ Speak(j)
        \/ PassOver(j) \/ OpenFile(j) \/ WriteFile(j) \/ Stop(j) \/ Interrupt(j)

DesignSpec == DesignInit /\ [][DesignNext]_designVars

(***************************************************************************)
(* What a command has reported is what the files say, as long as nobody    *)
(* was killed in the writing and no two commands wrote the same thing at   *)
(* once: the fleet holds the id of every write-back that has ended, those  *)
(* of commands that ran meanwhile included, although an audition lasts as  *)
(* long as its user listens; each preview of a manifest is the MP3 file of *)
(* its number, also when an earlier audition left more of them; and        *)
(* ref.txt says what ref.wav does.                                         *)
(***************************************************************************)
DesignIsAsReported ==
    /\ <<"fleet">> \in intact => folder[<<"fleet">>] = reported
    /\ \A p \in Roster :
         /\ <<"previews", p>> \in intact /\ folder[<<"manifest", p>>] # Missing =>
              \A i \in DOMAIN folder[<<"manifest", p>>] :
                  folder[<<"mp3", p, i>>] = folder[<<"manifest", p>>][i]
         /\ <<"ref", p>> \in intact /\ folder[<<"txt", p>>] # Missing =>
              folder[<<"wav", p>>][2] = folder[<<"txt", p>>]
=============================================================================
