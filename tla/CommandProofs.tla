---------------------------- MODULE CommandProofs ----------------------------
(***************************************************************************)
(* Proofs about the commands that work on files side by side, for any      *)
(* number of terminals: the installation of a backend (Provisioning), for  *)
(* which a backend that loads is a complete one, and the design of voices  *)
(* (VoiceDesign), for any number of personas and previews: what a command  *)
(* reports is what the files say.                                          *)
(***************************************************************************)
EXTENDS Provisioning, VoiceDesign, SequenceTheorems, TLAPS

(***************************************************************************)
(* Provisioning.                                                           *)
(***************************************************************************)
Steps == {"idle", "venv", "pip", "check", "copy", "copying", "record", "recording", "remove"}

ProvisionTypeOK ==
    /\ venv \in BOOLEAN /\ packages \in BOOLEAN /\ first \in BOOLEAN
    /\ subtree \in {"none", "partial", "whole"}
    /\ state \in {NoFile, TornFile, Written}
    /\ step \in [Terminals -> Steps]

(* The subtree is as whole as the step of the install needs it.            *)
SubtreeInv(t) ==
    /\ step[t] \in {"pip", "check"}         => subtree = "none"
    /\ step[t] \in {"record", "recording"}  => (Patched => subtree = "whole")
    /\ step[t] # "remove"

(* An orderly history: at most one command, an install, is under way, and  *)
(* none any more once there is a readable state.json, which then speaks    *)
(* the truth.                                                              *)
OrderlyInv ==
    /\ \A t, u \in Terminals : step[t] # "idle" /\ step[u] # "idle" => t = u
    /\ \A t \in Terminals : SubtreeInv(t)
    /\ state = Written => /\ \A t \in Terminals : step[t] = "idle"
                          /\ Patched => subtree = "whole"

ProvisionInv == ProvisionTypeOK /\ (first => OrderlyInv)

-----------------------------------------------------------------------------
LEMMA ProvisionInitInv == ProvisionInit => ProvisionInv
BY ProvisionAssumption DEF ProvisionInit, ProvisionInv, ProvisionTypeOK, OrderlyInv, SubtreeInv, Steps

(* A new install is orderly when it is alone and finds no state.json that  *)
(* can be read.                                                            *)
LEMMA BeginInstallStep ==
    ASSUME ProvisionInv, NEW t \in Terminals, BeginInstall(t)
    PROVE  ProvisionInv'
<1>1. /\ step' = [step EXCEPT ![t] = "venv"]
      /\ first' = (Others(t) = {} /\ state # Written /\ (first \/ Nothing))
      /\ UNCHANGED <<venv, packages, subtree, state>>
  BY DEF BeginInstall, Goto
<1>2. ProvisionTypeOK'
  BY <1>1 DEF ProvisionInv, ProvisionTypeOK, Steps
<1>3. ASSUME first' PROVE OrderlyInv'
  <2>1. state' # Written /\ \A u \in Terminals \ {t} : step[u] = "idle"
    BY <1>1, <1>3 DEF Others
  <2>2. step'[t] = "venv" /\ \A u \in Terminals \ {t} : step'[u] = "idle"
    BY <1>1, <2>1 DEF ProvisionInv, ProvisionTypeOK
  <2> QED BY <2>1, <2>2 DEF OrderlyInv, SubtreeInv
<1> QED BY <1>2, <1>3 DEF ProvisionInv

(* The other steps of an install, of which each prepares the next.         *)
LEMMA InstallStep ==
    ASSUME ProvisionInv, NEW t \in Terminals,
           \/ MakeVenv(t) \/ InstallPackages(t) \/ NeedsPatch(t) \/ BeginCopy(t)
           \/ EndCopy(t) \/ OpenState(t) \/ WriteState(t)
    PROVE  ProvisionInv'
<1>1. /\ step[t] \in {"venv", "pip", "check", "copy", "copying", "record", "recording"}
      /\ first' = first
      /\ \E s \in Steps : step' = [step EXCEPT ![t] = s]
  BY DEF MakeVenv, InstallPackages, NeedsPatch, BeginCopy, EndCopy, OpenState, WriteState, Goto, Steps
<1>2. ProvisionTypeOK'
  <2>1. step' \in [Terminals -> Steps]
    BY <1>1 DEF ProvisionInv, ProvisionTypeOK
  <2> QED BY <1>1, <2>1 DEF MakeVenv, InstallPackages, NeedsPatch, BeginCopy, EndCopy,
             OpenState, WriteState, ProvisionInv, ProvisionTypeOK
<1>3. ASSUME first PROVE OrderlyInv'
  <2>1. OrderlyInv /\ step[t] # "idle" /\ state # Written
    BY <1>1, <1>3 DEF ProvisionInv, OrderlyInv
  <2>2. \A u \in Terminals \ {t} : step[u] = "idle"
    BY <2>1 DEF OrderlyInv
  <2>3. \A u \in Terminals \ {t} : step'[u] = "idle"
    BY <1>1, <2>2 DEF ProvisionInv, ProvisionTypeOK
  <2>4. SubtreeInv(t)'
    BY <2>1 DEF OrderlyInv, SubtreeInv, ProvisionInv, ProvisionTypeOK, MakeVenv,
       InstallPackages, NeedsPatch, BeginCopy, EndCopy, OpenState, WriteState, Goto
  <2>5. state' = Written => step'[t] = "idle" /\ (Patched => subtree' = "whole")
    BY <2>1, ProvisionAssumption DEF OrderlyInv, SubtreeInv, ProvisionInv, ProvisionTypeOK,
       MakeVenv, InstallPackages, NeedsPatch, BeginCopy, EndCopy, OpenState, WriteState, Goto
  <2> QED BY <2>3, <2>4, <2>5 DEF OrderlyInv, SubtreeInv
<1> QED BY <1>1, <1>2, <1>3 DEF ProvisionInv

(* An uninstall is not orderly, and a command that stops leaves less to    *)
(* hold.                                                                   *)
LEMMA UninstallStep ==
    ASSUME ProvisionInv, NEW t \in Terminals,
           BeginUninstall(t) \/ Remove(t) \/ EndUninstall(t) \/ Quit(t)
    PROVE  ProvisionInv'
<1>1. CASE BeginUninstall(t)
  <2>1. step' \in [Terminals -> Steps]
    BY <1>1 DEF BeginUninstall, Goto, ProvisionInv, ProvisionTypeOK, Steps
  <2> QED BY <1>1, <2>1 DEF BeginUninstall, ProvisionInv, ProvisionTypeOK
<1>2. CASE Remove(t)
  <2>1. ~first
    BY <1>2 DEF Remove, ProvisionInv, OrderlyInv, SubtreeInv
  <2> QED BY <1>2, <2>1 DEF Remove, ProvisionInv, ProvisionTypeOK
<1>3. CASE EndUninstall(t) \/ Quit(t)
  <2>1. /\ step' = [step EXCEPT ![t] = "idle"]
        /\ UNCHANGED <<venv, packages, subtree, state, first>>
    BY <1>3 DEF EndUninstall, Quit, Goto
  <2>2. ProvisionTypeOK'
    BY <2>1 DEF ProvisionInv, ProvisionTypeOK, Steps
  <2>3. \A u \in Terminals : step'[u] = "idle" \/ step'[u] = step[u]
    BY <2>1 DEF ProvisionInv, ProvisionTypeOK
  <2>4. first => OrderlyInv'
    BY <2>1, <2>3 DEF ProvisionInv, OrderlyInv, SubtreeInv
  <2> QED BY <2>1, <2>2, <2>4 DEF ProvisionInv
<1> QED BY <1>1, <1>2, <1>3

LEMMA ProvisionStep == ProvisionInv /\ [ProvisionNext]_provisionVars => ProvisionInv'
<1>1. ASSUME ProvisionInv, NEW t \in Terminals,
             \/ BeginInstall(t) \/ MakeVenv(t) \/ InstallPackages(t) \/ NeedsPatch(t)
             \/ BeginCopy(t) \/ EndCopy(t) \/ OpenState(t) \/ WriteState(t)
             \/ BeginUninstall(t) \/ Remove(t) \/ EndUninstall(t) \/ Quit(t)
      PROVE  ProvisionInv'
  BY <1>1, BeginInstallStep, InstallStep, UninstallStep
<1>2. ASSUME ProvisionInv, UNCHANGED provisionVars PROVE ProvisionInv'
  BY <1>2 DEF provisionVars, ProvisionInv, ProvisionTypeOK, OrderlyInv, SubtreeInv
<1> QED BY <1>1, <1>2 DEF ProvisionNext

(* The backend a server finds installed has everything its state.json      *)
(* speaks of, in a directory that only first installs have touched, one at *)
(* a time.  (backend_install of cli.py, which writes the file last, and    *)
(* load of _subprocess.py, which goes by it.)                              *)
THEOREM FirstInstallsAreComplete == ProvisionSpec => []InstalledIsComplete
<1>1. ProvisionInv => InstalledIsComplete
  BY DEF ProvisionInv, OrderlyInv, InstalledIsComplete, Installed
<1> QED BY <1>1, ProvisionInitInv, ProvisionStep, PTL DEF ProvisionSpec

-----------------------------------------------------------------------------
(***************************************************************************)
(* VoiceDesign.                                                            *)
(***************************************************************************)
Places == {"generate", "pick", "create", "back", "write", "manifest", "adopt", "speak"}

(* What the proof has to know of a command under way.                      *)
Record(b) ==
    b = [kind |-> b.kind, at |-> b.at, left |-> b.left, fleet |-> b.fleet,
         index |-> b.index, text |-> b.text, dry |-> b.dry, tries |-> b.tries,
         chosen |-> b.chosen, voice |-> b.voice,
         previews |-> b.previews, files |-> b.files, open |-> b.open, alone |-> b.alone]

Command(b) ==
    /\ Record(b) /\ b.at \in Places
    /\ b.left \in Seq(Roster) /\ b.left # <<>> /\ b.index \in Indices
    /\ b.previews \in Seq(Nat \X Nat) /\ Len(b.previews) <= MaxPreviews

(* The files of an audition, and what is left of them from the m-th on.    *)
Entry(p, previews, x) ==
    IF x <= Len(previews) THEN [file |-> <<"mp3", p, x>>, data |-> previews[x]]
                          ELSE [file |-> <<"manifest", p>>, data |-> previews]

Rest(p, previews, m) ==
    [x \in 1 .. Len(previews) + 2 - m |-> Entry(p, previews, x + m - 1)]

(* A command in the writing has something of a resource left to write; if  *)
(* no other has written there since it began, what it has written is there.*)
InPreviews(b) ==
    \E m \in 1 .. Len(b.previews) + 1 :
        /\ b.files = Rest(Persona(b), b.previews, m)
        /\ b.alone => \A i \in 1 .. m - 1 : folder[<<"mp3", Persona(b), i>>] = b.previews[i]

InRef(b) ==
    LET p == Persona(b) IN
    \/ /\ b.files = <<[file |-> <<"txt", p>>, data |-> b.text]>>
       /\ b.alone => folder[<<"wav", p>>][2] = b.text
    \/ b.files = RefFiles(p, b.fleet[p], b.text)

InFleet(b) ==
    \E data \in {b.files[1].data} :
        /\ b.files = <<[file |-> <<"fleet">>, data |-> data]>>
        /\ b.alone => data = [reported EXCEPT ![Persona(b)] = b.voice]

(* Where a command writes.                                                 *)
Place(b) == Resource(Head(b.files).file)

WriteInv(b) ==
    b.at = "write" =>
        /\ b.open => Place(b) \notin intact
        /\ \/ /\ Place(b) = <<"previews", Persona(b)>> /\ InPreviews(b)
           \/ Place(b) = <<"ref", Persona(b)>> /\ InRef(b)
           \/ Place(b) = <<"fleet">> /\ InFleet(b)

JobInv(b) == b = Idle \/ (Command(b) /\ WriteInv(b))

(* Two commands that write to one resource know of each other.             *)
ApartInv ==
    \A j, k \in Shells :
        j # k /\ shell[j].at = "write" /\ shell[k].at = "write" /\ Place(shell[j]) = Place(shell[k])
          => ~shell[j].alone

ManifestInv ==
    \A p \in Roster :
        /\ folder[<<"manifest", p>>] \in
             {Missing, Partial} \cup {s \in Seq(Nat \X Nat) : Len(s) <= MaxPreviews}
        /\ <<"previews", p>> \in intact => folder[<<"manifest", p>>] # Partial

DesignInv ==
    /\ folder = [f \in Files |-> folder[f]] /\ shell = [j \in Shells |-> shell[j]]
    /\ ManifestInv
    /\ \A j \in Shells : JobInv(shell[j])
    /\ ApartInv
    /\ DesignIsAsReported

LEMMA FilesHaveResources ==
    /\ Resource(<<"fleet">>) = <<"fleet">>
    /\ \A p, i : Resource(<<"mp3", p, i>>) = <<"previews", p>>
    /\ \A p : /\ Resource(<<"manifest", p>>) = <<"previews", p>>
             /\ Resource(<<"wav", p>>) = <<"ref", p>>
             /\ Resource(<<"txt", p>>) = <<"ref", p>>
BY DEF Resource

LEMMA FilesAreFiles ==
    /\ <<"fleet">> \in Files
    /\ \A p \in Roster : /\ \A i \in Indices : <<"mp3", p, i>> \in Files
                         /\ <<"manifest", p>> \in Files
                         /\ <<"wav", p>> \in Files /\ <<"txt", p>> \in Files
BY DEF Files

LEMMA ASequence ==
    ASSUME NEW S, NEW n \in Nat, NEW s \in [1 .. n -> S]
    PROVE  s \in Seq(S) /\ Len(s) = n
<1>1. s \in Seq(S)
  BY SeqDef
<1>2. DOMAIN s = 1 .. n /\ DOMAIN s = 1 .. Len(s) /\ Len(s) \in Nat
  BY <1>1, LenProperties
<1> QED BY <1>1, <1>2

(* The files of an audition, one after another.                            *)
LEMMA RestIsASequence ==
    ASSUME NEW p, NEW previews \in Seq(Nat \X Nat), NEW m \in 1 .. Len(previews) + 1
    PROVE  LET s == Rest(p, previews, m) IN
           /\ s \in Seq({Entry(p, previews, x) : x \in Nat})
           /\ Len(s) = Len(previews) + 2 - m /\ s # <<>>
           /\ Head(s) = Entry(p, previews, m)
           /\ m <= Len(previews) => Tail(s) = Rest(p, previews, m + 1)
<1> DEFINE n == Len(previews) + 2 - m
           S == {Entry(p, previews, x) : x \in Nat}
           s == Rest(p, previews, m)
<1>1. n \in Nat /\ n >= 1 /\ Len(previews) \in Nat /\ m \in Nat /\ m >= 1
  BY LenProperties
<1>2. s = [x \in 1 .. n |-> Entry(p, previews, x + m - 1)]
  BY DEF Rest
<1>0. \A y \in Nat : Entry(p, previews, y) \in S
  OBVIOUS
<1>3. s \in [1 .. n -> S]
  <2> HIDE DEF n, S
  <2>1. \A x \in 1 .. n : x + m - 1 \in Nat
    BY <1>1
  <2> QED BY <1>0, <1>2, <2>1
<1> HIDE DEF n, S, s
<1>4. s \in Seq(S) /\ Len(s) = n
  BY <1>1, <1>3, ASequence
<1>5. s # <<>> /\ Head(s) = s[1]
  BY <1>1, <1>4, EmptySeq
<1>6. Head(s) = Entry(p, previews, m)
  BY <1>1, <1>2, <1>5
<1>7. ASSUME m <= Len(previews) PROVE Tail(s) = Rest(p, previews, m + 1)
  <2> DEFINE t == Rest(p, previews, m + 1)
  <2>1. t = [x \in 1 .. n - 1 |-> Entry(p, previews, x + (m + 1) - 1)] /\ n - 1 \in Nat
    BY <1>1, <1>7 DEF Rest, n
  <2>2. t \in [1 .. n - 1 -> S]
    <3>1. \A x \in 1 .. n - 1 : x + (m + 1) - 1 \in Nat
      BY <1>1
    <3> QED BY <1>0, <2>1, <3>1
  <2> HIDE DEF t
  <2>3. t \in Seq(S) /\ Len(t) = n - 1
    BY <2>1, <2>2, ASequence
  <2>4. /\ Tail(s) \in Seq(S) /\ Len(Tail(s)) = n - 1
        /\ \A i \in 1 .. n - 1 : Tail(s)[i] = s[i + 1]
    BY <1>4, <1>5, HeadTailProperties
  <2>5. ASSUME NEW i \in 1 .. n - 1 PROVE Tail(s)[i] = t[i]
    <3>1. i + 1 \in 1 .. n /\ (i + 1) + m - 1 = i + (m + 1) - 1
      BY <1>1, <2>1
    <3> QED BY <1>2, <2>1, <2>4, <3>1
  <2>6. Tail(s) = t
    BY <2>3, <2>4, <2>5, SeqEqual
  <2> QED BY <2>6 DEF t
<1> QED BY <1>4, <1>5, <1>6, <1>7 DEF n, S, s

LEMMA AllFilesAreTheRest ==
    ASSUME NEW p, NEW previews \in Seq(Nat \X Nat)
    PROVE  PreviewFiles(p, previews) = Rest(p, previews, 1)
<1> DEFINE N == Len(previews)
           S == {Entry(p, previews, x) : x \in Nat}
           mp3s == [i \in DOMAIN previews |-> [file |-> <<"mp3", p, i>>, data |-> previews[i]]]
           end == [file |-> <<"manifest", p>>, data |-> previews]
           rest == Rest(p, previews, 1)
<1>1. N \in Nat /\ DOMAIN previews = 1 .. N
  BY LenProperties
<1>2. \A i \in 1 .. N : mp3s[i] = Entry(p, previews, i) /\ mp3s[i] \in S
  <2>1. \A i \in 1 .. N : mp3s[i] = Entry(p, previews, i) /\ i \in Nat
    BY <1>1 DEF Entry
  <2> QED BY <2>1
<1>3. end = Entry(p, previews, N + 1) /\ end \in S
  <2>1. end = Entry(p, previews, N + 1)
    BY <1>1 DEF Entry
  <2> QED BY <1>1, <2>1
<1>4. mp3s \in [1 .. N -> S]
  BY <1>1, <1>2
<1>5. PreviewFiles(p, previews) = mp3s \o <<end>>
  BY DEF PreviewFiles
<1>6. rest = [x \in 1 .. N + 1 |-> Entry(p, previews, x)]
  <2>1. N + 2 - 1 = N + 1 /\ \A x \in 1 .. N + 1 : x + 1 - 1 = x
    BY <1>1
  <2> QED BY <2>1 DEF Rest
<1>7. rest \in Seq(S) /\ Len(rest) = N + 1
  <2>1. rest \in [1 .. N + 1 -> S]
    <3>1. \A y \in Nat : Entry(p, previews, y) \in S
      OBVIOUS
    <3>2. \A y \in 1 .. N + 1 : y \in Nat
      BY <1>1
    <3> HIDE DEF rest, S
    <3> QED BY <1>6, <3>1, <3>2
  <2>2. N + 1 \in Nat
    BY <1>1
  <2> HIDE DEF rest, S, N
  <2> QED BY <2>1, <2>2, ASequence
<1> HIDE DEF N, S, mp3s, end, rest
<1>8. mp3s \in Seq(S) /\ Len(mp3s) = N
  BY <1>1, <1>4, ASequence
<1>9. <<end>> \in Seq(S) /\ Len(<<end>>) = 1 /\ <<end>>[1] = end
  BY <1>3
<1>10. /\ mp3s \o <<end>> \in Seq(S) /\ Len(mp3s \o <<end>>) = N + 1
       /\ \A i \in 1 .. N + 1 :
            (mp3s \o <<end>>)[i] = IF i <= N THEN mp3s[i] ELSE <<end>>[i - N]
  BY <1>8, <1>9, ConcatProperties
<1>11. ASSUME NEW i \in 1 .. N + 1 PROVE (mp3s \o <<end>>)[i] = rest[i]
  <2>1. rest[i] = Entry(p, previews, i)
    BY <1>6
  <2>2. CASE i <= N
    <3>1. i \in 1 .. N
      BY <1>1, <2>2
    <3>2. (mp3s \o <<end>>)[i] = mp3s[i]
      BY <1>10, <2>2
    <3> QED BY <1>2, <2>1, <3>1, <3>2
  <2>3. CASE i > N
    <3>1. i = N + 1 /\ i - N = 1 /\ ~(i <= N)
      BY <1>1, <2>3
    <3> QED BY <1>3, <1>9, <1>10, <2>1, <3>1
  <2>4. i <= N \/ i > N
    BY <1>1
  <2> QED BY <2>2, <2>3, <2>4
<1>12. mp3s \o <<end>> = rest
  BY <1>7, <1>10, <1>11, SeqEqual
<1> QED BY <1>5, <1>12 DEF rest

(* The turn of the next persona.                                           *)
LEMMA TurnIsACommand ==
    ASSUME NEW b, Record(b), b.left \in Seq(Roster), b.index \in Indices
    PROVE  \/ Turn(b) = Idle
           \/ Command(Turn(b)) /\ Turn(b).at # "write"
<1> DEFINE at == CASE b.kind = "persist" -> "manifest"
                   [] b.kind = "library" -> "adopt"
                   [] b.kind = "regen"   -> "speak"
                   [] OTHER              -> "generate"
<1>1. at \in {"manifest", "adopt", "speak", "generate"}
  OBVIOUS
<1> HIDE DEF at
<1>2. CASE b.left = <<>>
  BY <1>2 DEF Turn
<1>3. CASE b.left # <<>>
  <2>1. Turn(b) = [b EXCEPT !.tries = RegenBudget, !.at = at,
                     !.chosen = NoPreview, !.voice = 0,
                     !.previews = <<>>, !.files = <<>>, !.open = FALSE, !.alone = TRUE]
    BY <1>3 DEF Turn, at
  <2>2. Turn(b) = [kind |-> b.kind, at |-> at, left |-> b.left, fleet |-> b.fleet,
            index |-> b.index, text |-> b.text, dry |-> b.dry, tries |-> RegenBudget,
            chosen |-> NoPreview, voice |-> 0,
            previews |-> <<>>, files |-> <<>>, open |-> FALSE, alone |-> TRUE]
    BY <2>1 DEF Record
  <2>3. <<>> \in Seq(Nat \X Nat) /\ Len(<<>>) <= MaxPreviews
    BY DesignAssumption
  <2> QED BY <1>1, <1>3, <2>2, <2>3 DEF Command, Record, Places
<1> QED BY <1>2, <1>3

LEMMA AdvanceIsACommand ==
    ASSUME NEW b, Command(b)
    PROVE  \/ Advance(b) = Idle
           \/ Command(Advance(b)) /\ Advance(b).at # "write"
<1>1. PICK rest : rest = Tail(b.left)
  OBVIOUS
<1>2. PICK c : c = [b EXCEPT !.left = rest]
  OBVIOUS
<1>3. Record(c) /\ c.left = rest /\ c.index = b.index
  BY <1>2 DEF Command, Record
<1>4. rest \in Seq(Roster) /\ b.index \in Indices
  BY <1>1 DEF Command
<1>5. Advance(b) = Turn(c)
  BY <1>1, <1>2 DEF Advance
<1> QED BY <1>3, <1>4, <1>5, TurnIsACommand

LEMMA InitDesign == DesignInit => DesignInv
<1> SUFFICES ASSUME DesignInit PROVE DesignInv
  OBVIOUS
<1>1. /\ folder = [f \in Files |-> IF f = <<"fleet">> THEN [p \in Roster |-> 0] ELSE Missing]
      /\ shell = [j \in Shells |-> Idle]
      /\ reported = [p \in Roster |-> 0]
  BY DEF DesignInit
<1>2. folder = [f \in Files |-> folder[f]] /\ shell = [j \in Shells |-> shell[j]]
  BY <1>1
<1>3. \A j \in Shells : shell[j] = Idle /\ shell[j].at # "write"
  BY <1>1 DEF Idle
<1>4. folder[<<"fleet">>] = reported
  BY <1>1, FilesAreFiles
<1>5. \A p \in Roster : folder[<<"manifest", p>>] = Missing /\ folder[<<"txt", p>>] = Missing
  BY <1>1, FilesAreFiles
<1>6. DesignIsAsReported
  BY <1>4, <1>5 DEF DesignIsAsReported
<1> QED BY <1>2, <1>3, <1>5, <1>6, DesignAssumption DEF DesignInv, ManifestInv, JobInv, ApartInv

LEMMA PersonaIsOne == ASSUME NEW b, Command(b) PROVE Persona(b) \in Roster
BY DEF Command, Persona

(* The command of a terminal keeps its invariant while others work, unless *)
(* they write to the same place.                                           *)
LEMMA OthersKeep ==
    ASSUME NEW k \in Shells, JobInv(shell[k]), shell'[k] = shell[k],
           shell[k] # Idle /\ shell[k].at = "write" =>
             /\ shell[k].open /\ Place(shell[k]) \notin intact => Place(shell[k]) \notin intact'
             /\ shell[k].alone =>
                  /\ \A f \in Files : Resource(f) = Place(shell[k]) => folder'[f] = folder[f]
                  /\ Place(shell[k]) = <<"fleet">> => reported' = reported
    PROVE  JobInv(shell[k])'
<1> DEFINE b == shell[k]
<1>1. CASE b = Idle \/ b.at # "write"
  BY <1>1 DEF JobInv, WriteInv
<1>2. CASE b # Idle /\ b.at = "write"
  <2>1. Command(b) /\ WriteInv(b) /\ Persona(b) \in Roster
    BY <1>2, PersonaIsOne DEF JobInv
  <2>2. Command(b)'
    BY <2>1
  <2>3. b'.open => Place(b') \notin intact'
    BY <1>2, <2>1 DEF WriteInv
  <2>4. ASSUME Place(b) = <<"previews", Persona(b)>>, InPreviews(b) PROVE InPreviews(b)'
    <3>1. PICK m \in 1 .. Len(b.previews) + 1 :
             /\ b.files = Rest(Persona(b), b.previews, m)
             /\ b.alone => \A i \in 1 .. m - 1 : folder[<<"mp3", Persona(b), i>>] = b.previews[i]
      BY <2>4 DEF InPreviews
    <3>2. ASSUME NEW i \in 1 .. m - 1, b.alone
          PROVE  folder'[<<"mp3", Persona(b), i>>] = folder[<<"mp3", Persona(b), i>>]
      <4>1. Len(b.previews) \in Nat /\ Len(b.previews) <= MaxPreviews /\ MaxPreviews \in Nat
        BY <2>1, LenProperties, DesignAssumption DEF Command
      <4>2. i \in Indices
        BY <4>1 DEF Indices
      <4> QED BY <1>2, <2>1, <2>4, <3>2, <4>2, FilesAreFiles, FilesHaveResources
    <3> QED BY <3>1, <3>2 DEF InPreviews
  <2>5. ASSUME Place(b) = <<"ref", Persona(b)>>, InRef(b) PROVE InRef(b)'
    <3>1. b.alone => folder'[<<"wav", Persona(b)>>] = folder[<<"wav", Persona(b)>>]
      BY <1>2, <2>1, <2>5, FilesAreFiles, FilesHaveResources
    <3> QED BY <2>5, <3>1 DEF InRef
  <2>6. ASSUME Place(b) = <<"fleet">>, InFleet(b) PROVE InFleet(b)'
    BY <1>2, <2>6 DEF InFleet
  <2>7. WriteInv(b)'
    BY <1>2, <2>1, <2>3, <2>4, <2>5, <2>6 DEF WriteInv
  <2> QED BY <2>2, <2>7 DEF JobInv
<1> QED BY <1>1, <1>2

(* A command goes on, and does not write.                                  *)
LEMMA QuietDesign ==
    ASSUME DesignInv, NEW j \in Shells, NEW b,
           b = Idle \/ (Command(b) /\ b.at # "write"),
           shell' = [shell EXCEPT ![j] = b], UNCHANGED <<folder, reported, intact>>
    PROVE  DesignInv'
<1>1. shell' = [k \in Shells |-> shell'[k]] /\ shell'[j] = b /\ \A k \in Shells \ {j} : shell'[k] = shell[k]
  BY DEF DesignInv
<1>2. shell'[j].at # "write" /\ (shell'[j] = Idle \/ (Command(shell'[j])))
  BY <1>1 DEF Idle
<1>3. ASSUME NEW k \in Shells PROVE JobInv(shell[k])'
  <2>1. CASE k = j
    BY <1>2, <2>1 DEF JobInv, WriteInv
  <2>2. CASE k # j
    BY <1>1, <2>2, OthersKeep DEF DesignInv
  <2> QED BY <2>1, <2>2
<1>4. ApartInv'
  BY <1>1, <1>2 DEF DesignInv, ApartInv
<1>5. DesignIsAsReported'
  BY DEF DesignInv, DesignIsAsReported
<1> QED BY <1>1, <1>3, <1>4, <1>5 DEF DesignInv, ManifestInv

LEMMA SelectionsAreLists == \A kind : Selections(kind) \subseteq Seq(Roster)
<1>1. \A p \in Roster : <<p>> \in Seq(Roster)
  OBVIOUS
<1>2. [p \in Roster |-> p] \in [1 .. MaxPersonas -> Roster] /\ MaxPersonas \in Nat
  BY DesignAssumption DEF Roster
<1>3. [p \in Roster |-> p] \in Seq(Roster)
  BY <1>2, ASequence
<1> QED BY <1>1, <1>3 DEF Selections

LEMMA StartDesign ==
    ASSUME DesignInv, NEW j \in Shells, Start(j)
    PROVE  DesignInv'
<1> DEFINE Goes(kind, left, index, text, dry) ==
             shell' = [shell EXCEPT ![j] = Turn(Given(kind, left, index, text, dry))]
<1>1. \E kind \in {"ask", "auto", "save", "persist", "library", "regen"},
         index \in Indices, text \in Texts, dry \in BOOLEAN :
        /\ kind # "persist" => index = 1
        /\ kind # "regen" => text = "sample"
        /\ kind \in {"save", "regen"} => ~dry
        /\ \E left \in Selections(kind) : Goes(kind, left, index, text, dry)
  BY DEF Start
<1> HIDE DEF Goes
<1>2. PICK kind \in {"ask", "auto", "save", "persist", "library", "regen"},
           index \in Indices, text \in Texts, dry \in BOOLEAN :
         \E left \in Selections(kind) : Goes(kind, left, index, text, dry)
  BY <1>1
<1> USE DEF Goes
<1>3. PICK left \in Seq(Roster) :
         shell' = [shell EXCEPT ![j] = Turn(Given(kind, left, index, text, dry))]
  BY <1>2, SelectionsAreLists
<1> DEFINE b == Given(kind, left, index, text, dry)
<1>4. Record(b) /\ b.left \in Seq(Roster) /\ b.index \in Indices
  BY DEF Record, Given
<1>5. shell' = [shell EXCEPT ![j] = Turn(b)] /\ UNCHANGED <<folder, reported, intact>>
  BY <1>3 DEF Start
<1> HIDE DEF b
<1>6. \/ Turn(b) = Idle
      \/ Command(Turn(b)) /\ Turn(b).at # "write"
  BY <1>4, TurnIsACommand
<1> QED BY <1>5, <1>6, QuietDesign

(* A command that goes on to its next persona, or ends.                    *)
LEMMA AdvanceDesign ==
    ASSUME DesignInv, NEW j \in Shells, shell[j] # Idle,
           shell' = [shell EXCEPT ![j] = Advance(shell[j])] \/ shell' = [shell EXCEPT ![j] = Idle],
           UNCHANGED <<folder, reported, intact>>
    PROVE  DesignInv'
<1>1. Command(shell[j])
  BY DEF DesignInv, JobInv
<1> QED BY <1>1, AdvanceIsACommand, QuietDesign

LEMMA PickDesign ==
    ASSUME DesignInv, NEW j \in Shells, Pick(j)
    PROVE  DesignInv'
<1> DEFINE b == shell[j]
<1>1. b.at = "pick" /\ Command(b)
  BY DEF Pick, DesignInv, JobInv, Idle
<1>2. PICK chosen : shell' = [shell EXCEPT ![j] =
                      [b EXCEPT !.at = "create", !.previews = <<>>, !.chosen = chosen]]
  BY DEF Pick
<1>3. PICK c : c = [b EXCEPT !.at = "create", !.previews = <<>>, !.chosen = chosen]
  OBVIOUS
<1>4. shell' = [shell EXCEPT ![j] = c] /\ UNCHANGED <<folder, reported, intact>>
  BY <1>2, <1>3 DEF Pick
<1>5. /\ Record(c) /\ c.at = "create"
      /\ c.left = b.left /\ c.index = b.index /\ c.previews = <<>>
  BY <1>1, <1>3 DEF Command, Record
<1>6. <<>> \in Seq(Nat \X Nat) /\ Len(<<>>) <= MaxPreviews
  BY DesignAssumption
<1>7. Command(c)
  BY <1>1, <1>5, <1>6 DEF Command, Places
<1> QED BY <1>4, <1>5, <1>7, QuietDesign

LEMMA PickNoneDesign ==
    ASSUME DesignInv, NEW j \in Shells, PickNone(j)
    PROVE  DesignInv'
<1> DEFINE b == shell[j]
<1>1. b.at = "pick" /\ b # Idle /\ Command(b)
  BY DEF PickNone, DesignInv, JobInv, Idle
<1>2. UNCHANGED <<folder, reported, intact>>
  BY DEF PickNone
<1>3. CASE b.tries = 1
  BY <1>1, <1>2, <1>3, AdvanceDesign DEF PickNone
<1>4. CASE b.tries # 1
  <2>1. PICK c : c = [b EXCEPT !.tries = @ - 1, !.at = "generate"]
    OBVIOUS
  <2>2. shell' = [shell EXCEPT ![j] = c]
    BY <1>4, <2>1 DEF PickNone
  <2>3. /\ Record(c) /\ c.at = "generate"
        /\ c.left = b.left /\ c.index = b.index /\ c.previews = b.previews
    BY <1>1, <2>1 DEF Command, Record
  <2>4. Command(c)
    BY <1>1, <2>3 DEF Command, Places
  <2> QED BY <1>2, <2>2, <2>3, <2>4, QuietDesign
<1> QED BY <1>3, <1>4

LEMMA ReadManifestDesign ==
    ASSUME DesignInv, NEW j \in Shells, ReadManifest(j)
    PROVE  DesignInv'
<1> DEFINE b == shell[j]
<1>1. b.at = "manifest" /\ Command(b)
  BY DEF ReadManifest, DesignInv, JobInv, Idle
<1>2. UNCHANGED <<folder, reported, intact>>
  BY DEF ReadManifest
<1>3. CASE shell' = [shell EXCEPT ![j] = Idle]
  BY <1>2, <1>3, QuietDesign
<1>4. CASE shell' # [shell EXCEPT ![j] = Idle]
  <2>1. PICK chosen : shell' = [shell EXCEPT ![j] = [b EXCEPT !.at = "create", !.chosen = chosen]]
    BY <1>4 DEF ReadManifest
  <2>2. PICK c : c = [b EXCEPT !.at = "create", !.chosen = chosen]
    OBVIOUS
  <2>3. /\ Record(c) /\ c.at = "create"
        /\ c.left = b.left /\ c.index = b.index /\ c.previews = b.previews
    BY <1>1, <2>2 DEF Command, Record
  <2>4. Command(c)
    BY <1>1, <2>3 DEF Command, Places
  <2> QED BY <1>2, <2>1, <2>2, <2>3, <2>4, QuietDesign
<1> QED BY <1>3, <1>4

LEMMA NewVoiceDesign ==
    ASSUME DesignInv, NEW j \in Shells, Create(j) \/ Adopt(j)
    PROVE  DesignInv'
<1> DEFINE b == shell[j]
<1>1. PICK voice : NewVoice(j, voice) /\ b.at \in {"create", "adopt"}
  BY DEF Create, Adopt
<1>2. b # Idle /\ Command(b)
  BY <1>1 DEF DesignInv, JobInv, Idle
<1>3. UNCHANGED <<folder, reported, intact>>
  BY <1>1 DEF NewVoice
<1>5. \/ shell' = [shell EXCEPT ![j] = Idle] \/ shell' = [shell EXCEPT ![j] = Advance(b)]
      \/ shell' = [shell EXCEPT ![j] = [b EXCEPT !.at = "back", !.voice = Len(voices) + 1]]
  BY <1>1 DEF NewVoice
<1>6. CASE shell' = [shell EXCEPT ![j] = Idle] \/ shell' = [shell EXCEPT ![j] = Advance(b)]
  BY <1>2, <1>3, <1>6, AdvanceDesign
<1>7. CASE shell' = [shell EXCEPT ![j] = [b EXCEPT !.at = "back", !.voice = Len(voices) + 1]]
  <2>1. PICK n : n = Len(voices) + 1
    OBVIOUS
  <2>2. PICK c : c = [b EXCEPT !.at = "back", !.voice = n]
    OBVIOUS
  <2>3. /\ Record(c) /\ c.at = "back"
        /\ c.left = b.left /\ c.index = b.index /\ c.previews = b.previews
    BY <1>2, <2>2 DEF Command, Record
  <2>4. Command(c)
    BY <1>2, <2>3 DEF Command, Places
  <2> QED BY <1>3, <1>7, <2>1, <2>2, <2>3, <2>4, QuietDesign
<1> QED BY <1>5, <1>6, <1>7

(* Commands that pass over a persona, are stopped or interrupted.          *)
LEMMA EndDesign ==
    ASSUME DesignInv, NEW j \in Shells,
           GenerateNothing(j) \/ PassOver(j) \/ Stop(j) \/ Interrupt(j)
    PROVE  DesignInv'
<1>1. UNCHANGED <<folder, reported, intact>>
  BY DEF GenerateNothing, PassOver, Stop, Interrupt
<1>2. shell[j] # Idle
  BY DEF GenerateNothing, PassOver, Stop, Interrupt, Idle
<1>3. shell' = [shell EXCEPT ![j] = Advance(shell[j])] \/ shell' = [shell EXCEPT ![j] = Idle]
  BY DEF GenerateNothing, PassOver, Stop, Interrupt
<1> QED BY <1>1, <1>2, <1>3, AdvanceDesign

-----------------------------------------------------------------------------
(* A command that begins to write, and those it disturbs.                  *)
LEMMA BeginDesign ==
    ASSUME DesignInv, NEW j \in Shells, NEW c, Command(c),
           \/ /\ Place(c) = <<"previews", Persona(c)>>
              /\ c.files = Rest(Persona(c), c.previews, 1)
           \/ /\ Place(c) = <<"ref", Persona(c)>>
              /\ c.files = RefFiles(Persona(c), c.fleet[Persona(c)], c.text)
           \/ /\ Place(c) = <<"fleet">>
              /\ \E data : /\ c.files = <<[file |-> <<"fleet">>, data |-> data]>>
                           /\ <<"fleet">> \in intact =>
                                data = [reported EXCEPT ![Persona(c)] = c.voice],
           BeginFiles(j, c), UNCHANGED <<folder, reported, intact>>
    PROVE  DesignInv'
<1> DEFINE r      == Place(c)
           rivals == {k \in Shells \ {j} : Changes(shell[k], r)}
           alone  == rivals = {} /\ (r = <<"fleet">> => r \in intact)
<1>1. PICK a : a = alone
  OBVIOUS
<1>2. PICK new : new = [c EXCEPT !.at = "write", !.open = FALSE, !.alone = a]
  OBVIOUS
<1>3. shell' = [k \in Shells |-> CASE k = j        -> new
                               [] k \in rivals -> [shell[k] EXCEPT !.alone = FALSE]
                               [] OTHER        -> shell[k]]
  BY <1>1, <1>2 DEF BeginFiles, Place
<1>4. /\ Record(new) /\ new.at = "write" /\ new.open = FALSE /\ new.alone = a
      /\ new.left = c.left /\ new.index = c.index /\ new.previews = c.previews
      /\ new.files = c.files /\ new.voice = c.voice
      /\ new.fleet = c.fleet /\ new.text = c.text
  BY <1>2 DEF Command, Record
<1>5. Command(new) /\ Persona(new) = Persona(c) /\ Place(new) = r
  BY <1>4 DEF Command, Places, Persona, Place
<1>6. /\ shell' = [k \in Shells |-> shell'[k]] /\ shell'[j] = new
      /\ \A k \in rivals : k \in Shells /\ k # j /\ shell'[k] = [shell[k] EXCEPT !.alone = FALSE]
      /\ \A k \in Shells \ {j} : k \notin rivals => shell'[k] = shell[k]
  BY <1>3
<1>7. \A k \in Shells \ {j} : k \in rivals <=> shell[k].at = "write" /\ Place(shell[k]) = r
  BY DEF Changes, Place
<1>8. /\ a => \A k \in Shells \ {j} : k \notin rivals
      /\ a /\ r = <<"fleet">> => <<"fleet">> \in intact
  BY <1>1
<1> HIDE DEF rivals, alone
<1>9. JobInv(shell[j])'
  <2>2. WriteInv(shell[j])'
    <3>1. ASSUME Place(c) = <<"previews", Persona(c)>>,
                 c.files = Rest(Persona(c), c.previews, 1)
          PROVE  InPreviews(shell[j])'
      <4>1. 1 \in 1 .. Len(c.previews) + 1 /\ 1 .. 1 - 1 = {}
        BY LenProperties DEF Command
      <4> QED BY <1>4, <1>5, <1>6, <3>1, <4>1 DEF InPreviews
    <3>2. ASSUME c.files = RefFiles(Persona(c), c.fleet[Persona(c)], c.text)
          PROVE  InRef(shell[j])'
      BY <1>4, <1>5, <1>6, <3>2 DEF InRef
    <3>3. ASSUME Place(c) = <<"fleet">>, NEW data,
                 c.files = <<[file |-> <<"fleet">>, data |-> data]>>,
                 <<"fleet">> \in intact => data = [reported EXCEPT ![Persona(c)] = c.voice]
          PROVE  InFleet(shell[j])'
      <4>1. c.files[1].data = data
        BY <3>3
      <4> QED BY <1>4, <1>5, <1>6, <1>8, <3>3, <4>1 DEF InFleet
    <3> QED BY <1>4, <1>5, <1>6, <3>1, <3>2, <3>3 DEF WriteInv
  <2> QED BY <1>5, <1>6, <2>2 DEF JobInv
<1>10. ASSUME NEW k \in rivals PROVE JobInv(shell[k])' /\ ~shell'[k].alone /\ Place(shell'[k]) = r
  <2> DEFINE b == shell[k]
  <2>1. k \in Shells /\ k # j /\ b.at = "write" /\ Place(b) = r /\ shell'[k] = [b EXCEPT !.alone = FALSE]
    BY <1>6, <1>7
  <2>2. Command(b) /\ WriteInv(b)
    BY <2>1 DEF DesignInv, JobInv, Idle
  <2>3. PICK d : d = [b EXCEPT !.alone = FALSE]
    OBVIOUS
  <2>4. /\ Record(d) /\ d.at = "write" /\ d.open = b.open /\ d.alone = FALSE
        /\ d.left = b.left /\ d.index = b.index /\ d.previews = b.previews
        /\ d.files = b.files /\ d.voice = b.voice
        /\ d.fleet = b.fleet /\ d.text = b.text
    BY <2>1, <2>2, <2>3 DEF Command, Record
  <2>5. Command(d) /\ Persona(d) = Persona(b) /\ Place(d) = r
    BY <2>1, <2>2, <2>4 DEF Command, Places, Persona, Place
  <2>6. WriteInv(shell[k])'
    BY <2>1, <2>2, <2>3, <2>4, <2>5 DEF WriteInv, InPreviews, InRef, InFleet
  <2> QED BY <2>1, <2>3, <2>4, <2>5, <2>6 DEF JobInv
<1>11. ASSUME NEW k \in Shells PROVE JobInv(shell[k])'
  <2>1. CASE k = j
    BY <1>9, <2>1
  <2>2. CASE k \in rivals
    BY <1>10, <2>2
  <2>3. CASE k # j /\ k \notin rivals
    BY <1>6, <2>3, OthersKeep DEF DesignInv
  <2> QED BY <2>1, <2>2, <2>3
<1>12. ApartInv'
  <2> SUFFICES ASSUME NEW i \in Shells, NEW k \in Shells, i # k, shell'[i].at = "write",
                      shell'[k].at = "write", Place(shell'[i]) = Place(shell'[k])
               PROVE  ~shell'[i].alone
    BY DEF ApartInv, Place
  <2>0. \A l \in Shells \ {j} : shell'[l].at = "write" /\ Place(shell'[l]) = r => l \in rivals
    BY <1>6, <1>7
  <2>1. CASE i = j
    <3>1. k \in rivals
      BY <1>5, <1>6, <2>0, <2>1
    <3>2. ~a
      BY <1>8, <2>1, <3>1
    <3>3. shell'[i].alone = a
      BY <1>4, <1>6, <2>1
    <3> QED BY <3>2, <3>3, Zenon
  <2>2. CASE k = j
    <3>1. i \in rivals
      BY <1>5, <1>6, <2>0, <2>2
    <3> QED BY <1>10, <3>1
  <2>3. CASE i # j /\ k # j
    <3>1. CASE i \in rivals
      BY <1>10, <3>1
    <3>2. CASE i \notin rivals /\ k \notin rivals
      BY <1>6, <2>3, <3>2 DEF DesignInv, ApartInv
    <3>3. CASE i \notin rivals /\ k \in rivals
      <4>1. shell[i].at = "write" /\ Place(shell[i]) = r
        BY <1>6, <1>10, <2>3, <3>3
      <4> QED BY <1>7, <2>3, <3>3, <4>1
    <3> QED BY <3>1, <3>2, <3>3
  <2> QED BY <2>1, <2>2, <2>3
<1>13. DesignIsAsReported' /\ ManifestInv'
  BY DEF DesignInv, DesignIsAsReported, ManifestInv
<1> QED BY <1>6, <1>11, <1>12, <1>13 DEF DesignInv

LEMMA GenerateDesign ==
    ASSUME DesignInv, generations \in Nat, NEW j \in Shells, Generate(j)
    PROVE  DesignInv'
<1> DEFINE b == shell[j]
<1>1. b.at = "generate" /\ Command(b) 
  BY DEF Generate, DesignInv, JobInv, Idle
<1>2. PICK n \in Indices :
         LET previews == [i \in 1..n |-> <<generations + 1, i>>]
         IN  BeginFiles(j, [b EXCEPT !.previews = previews,
                                !.files = PreviewFiles(Persona(b), previews)])
  BY DEF Generate
<1>3. PICK previews : previews = [i \in 1..n |-> <<generations + 1, i>>]
  OBVIOUS
<1>4. n \in Nat /\ n >= 1 /\ n <= MaxPreviews
  BY <1>2, DesignAssumption DEF Indices
<1>5. previews \in Seq(Nat \X Nat) /\ Len(previews) = n
  <2>1. previews \in [1 .. n -> Nat \X Nat]
    BY <1>3, <1>4
  <2> QED BY <1>4, <2>1, ASequence
<1>7. PICK files : files = PreviewFiles(Persona(b), previews)
  OBVIOUS
<1>8. files = Rest(Persona(b), previews, 1)
  BY <1>5, <1>7, AllFilesAreTheRest
<1>9. PICK c : c = [b EXCEPT !.previews = previews, !.files = files]
  OBVIOUS
<1>10. BeginFiles(j, c)
  BY <1>2, <1>3, <1>7, <1>9
<1>11. /\ Record(c) /\ c.at = "generate"  /\ c.files = files
       /\ c.left = b.left /\ c.index = b.index /\ c.previews = previews
  BY <1>1, <1>9 DEF Command, Record
<1>12. Command(c) /\ Persona(c) = Persona(b)
  BY <1>1, <1>4, <1>5, <1>11 DEF Command, Places, Persona
<1>13. Place(c) = <<"previews", Persona(c)>>
  <2>0. 1 \in 1 .. Len(previews) + 1
    BY <1>4, <1>5
  <2>1. Head(files) = Entry(Persona(b), previews, 1)
    BY <1>5, <1>8, <2>0, RestIsASequence
  <2>2. Head(files).file = <<"mp3", Persona(b), 1>>
    BY <1>4, <1>5, <2>1 DEF Entry
  <2> QED BY <1>11, <1>12, <2>2, FilesHaveResources DEF Place
<1>14. UNCHANGED <<folder, reported, intact>>
  BY DEF Generate
<1> QED BY <1>8, <1>10, <1>11, <1>12, <1>13, <1>14, BeginDesign

LEMMA SpeakDesign ==
    ASSUME DesignInv, NEW j \in Shells, Speak(j)
    PROVE  DesignInv'
<1> DEFINE b == shell[j]
<1>1. b.at = "speak" /\ Command(b)
  BY DEF Speak, DesignInv, JobInv, Idle
<1>2. PICK files : files = RefFiles(Persona(b), b.fleet[Persona(b)], b.text)
  OBVIOUS
<1>3. PICK c : c = [b EXCEPT !.files = files]
  OBVIOUS
<1>4. BeginFiles(j, c) /\ UNCHANGED <<folder, reported, intact>>
  BY <1>2, <1>3 DEF Speak
<1>5. /\ Record(c) /\ c.at = "speak" /\ c.files = files /\ c.fleet = b.fleet /\ c.text = b.text
      /\ c.left = b.left /\ c.index = b.index /\ c.previews = b.previews
  BY <1>1, <1>3 DEF Command, Record
<1>6. Command(c) /\ Persona(c) = Persona(b)
  BY <1>1, <1>5 DEF Command, Persona
<1>7. Place(c) = <<"ref", Persona(c)>>
  <2>1. Head(files).file = <<"wav", Persona(b)>>
    BY <1>2 DEF RefFiles
  <2> QED BY <1>5, <1>6, <2>1, FilesHaveResources DEF Place
<1>8. c.files = RefFiles(Persona(c), c.fleet[Persona(c)], c.text)
  BY <1>2, <1>5, <1>6
<1> QED BY <1>4, <1>6, <1>7, <1>8, BeginDesign

LEMMA ReadFleetDesign ==
    ASSUME DesignInv, NEW j \in Shells, ReadFleet(j)
    PROVE  DesignInv'
<1> DEFINE b    == shell[j]
           held == folder[<<"fleet">>]
<1>1. b.at = "back" /\ Command(b) /\ UNCHANGED <<folder, reported, intact>>
  BY DEF ReadFleet, DesignInv, JobInv, Idle
<1>2. CASE held = Partial
  <2>1. shell' = [shell EXCEPT ![j] = Idle]
    BY <1>2 DEF ReadFleet
  <2> QED BY <1>1, <2>1, QuietDesign
<1>3. CASE held # Partial
  <2>1. PICK data : data = [held EXCEPT ![Persona(b)] = b.voice]
    OBVIOUS
  <2>2. PICK files : files = <<[file |-> <<"fleet">>, data |-> data]>>
    OBVIOUS
  <2>3. PICK c : c = [b EXCEPT !.files = files]
    OBVIOUS
  <2>4. BeginFiles(j, c)
    BY <1>3, <2>1, <2>2, <2>3 DEF ReadFleet
  <2>5. /\ Record(c) /\ c.at = "back" /\ c.files = files /\ c.voice = b.voice
        /\ c.left = b.left /\ c.index = b.index /\ c.previews = b.previews
    BY <1>1, <2>3 DEF Command, Record
  <2>6. Command(c) /\ Persona(c) = Persona(b)
    BY <1>1, <2>5 DEF Command, Persona
  <2>7. Place(c) = <<"fleet">>
    <3>1. Head(files).file = <<"fleet">>
      BY <2>2
    <3> QED BY <2>5, <3>1, FilesHaveResources DEF Place
  <2>8. <<"fleet">> \in intact => data = [reported EXCEPT ![Persona(c)] = c.voice]
    BY <2>1, <2>5, <2>6 DEF DesignInv, DesignIsAsReported
  <2> QED BY <1>1, <2>2, <2>4, <2>5, <2>6, <2>7, <2>8, BeginDesign
<1> QED BY <1>2, <1>3

-----------------------------------------------------------------------------
(* A command that writes has a file of its place before it.                *)
LEMMA PlacesDiffer ==
    \A p, q : /\ <<"previews", p>> # <<"fleet">> /\ <<"ref", p>> # <<"fleet">>
             /\ <<"previews", p>> # <<"ref", q>>
OBVIOUS

LEMMA WritersFile ==
    ASSUME DesignInv, NEW j \in Shells, shell[j].at = "write"
    PROVE  /\ Command(shell[j]) /\ WriteInv(shell[j])
           /\ Persona(shell[j]) \in Roster /\ Head(shell[j].files).file \in Files
           /\ Place(shell[j]) = Resource(Head(shell[j].files).file)
           /\ Place(shell[j]) = <<"fleet">> <=> Head(shell[j].files).file = <<"fleet">>
<1> DEFINE b == shell[j]
           f == Head(b.files).file
           p == Persona(b)
<1> HIDE DEF b, f, p
<1>1. Command(b) /\ WriteInv(b) /\ p \in Roster
  BY PersonaIsOne DEF DesignInv, JobInv, Idle, b, p
<1>5. Place(b) = Resource(f)
  BY DEF Place, f
<1>2. ASSUME Place(b) = <<"previews", p>> /\ InPreviews(b)
      PROVE  f \in Files /\ f # <<"fleet">>
  <2>1. PICK m \in 1 .. Len(b.previews) + 1 : b.files = Rest(p, b.previews, m)
    BY <1>2 DEF InPreviews, p
  <2>2. b.previews \in Seq(Nat \X Nat) /\ Len(b.previews) \in Nat /\ Len(b.previews) <= MaxPreviews
    BY <1>1, LenProperties DEF Command
  <2>3. Head(b.files) = Entry(p, b.previews, m)
    BY <2>1, <2>2, RestIsASequence
  <2>4. CASE m <= Len(b.previews)
    <3>1. f = <<"mp3", p, m>> /\ m \in Indices
      BY <2>2, <2>3, <2>4, DesignAssumption DEF Entry, Indices, f
    <3> QED BY <1>1, <3>1, FilesAreFiles
  <2>5. CASE ~(m <= Len(b.previews))
    <3>1. f = <<"manifest", p>>
      BY <2>3, <2>5 DEF Entry, f
    <3> QED BY <1>1, <3>1, FilesAreFiles
  <2> QED BY <2>4, <2>5
<1>3. ASSUME Place(b) = <<"ref", p>> /\ InRef(b)
      PROVE  f \in Files /\ f # <<"fleet">>
  <2>1. f = <<"wav", p>> \/ f = <<"txt", p>>
    BY <1>3 DEF InRef, RefFiles, f, p
  <2>2. <<"wav", p>> # <<"fleet">> /\ <<"txt", p>> # <<"fleet">>
    OBVIOUS
  <2> QED BY <1>1, <2>1, <2>2, FilesAreFiles
<1>4. ASSUME Place(b) = <<"fleet">> /\ InFleet(b)
      PROVE  f \in Files /\ f = <<"fleet">>
  <2>1. f = <<"fleet">>
    BY <1>4 DEF InFleet, f
  <2> QED BY <1>1, <1>4, <2>1, FilesAreFiles
<1>6. /\ f \in Files
      /\ Place(b) = <<"fleet">> <=> f = <<"fleet">>
  <2>1. WriteInv(b) /\ b.at = "write"
    BY <1>1 DEF b
  <2> QED BY <1>2, <1>3, <1>4, <2>1, PlacesDiffer DEF WriteInv, p
<1> QED BY <1>1, <1>5, <1>6 DEF b, f, p

(* Two commands at one place are not alone there.                          *)
LEMMA OthersAreElsewhere ==
    ASSUME DesignInv, NEW j \in Shells, NEW k \in Shells, j # k,
           shell[j].at = "write", shell[k].at = "write", shell[j].alone
    PROVE  Place(shell[k]) # Place(shell[j])
BY DEF DesignInv, ApartInv

(* What has to be true of a resource that is intact.                       *)
Agreed(r) ==
    /\ r = <<"fleet">> => folder[<<"fleet">>] = reported
    /\ \A p \in Roster :
         /\ r = <<"previews", p>> /\ folder[<<"manifest", p>>] # Missing =>
              \A i \in DOMAIN folder[<<"manifest", p>>] :
                  folder[<<"mp3", p, i>>] = folder[<<"manifest", p>>][i]
         /\ r = <<"ref", p>> /\ folder[<<"txt", p>>] # Missing =>
              folder[<<"wav", p>>][2] = folder[<<"txt", p>>]

(* What is intact and not of the resource written to stays as it is.       *)
LEMMA SoundStays ==
    ASSUME DesignInv, NEW r, \A f \in Files : Resource(f) # r => folder'[f] = folder[f],
           r # <<"fleet">> => reported' = reported,
           \A s : s # r /\ s \in intact' => s \in intact,
           r \in intact' => Agreed(r)'
    PROVE  DesignIsAsReported'
<1>1. <<"fleet">> \in intact' => folder'[<<"fleet">>] = reported'
  BY FilesAreFiles, FilesHaveResources DEF DesignInv, DesignIsAsReported, Agreed
<1>2. ASSUME NEW p \in Roster, <<"previews", p>> \in intact', folder'[<<"manifest", p>>] # Missing,
             NEW i \in DOMAIN folder'[<<"manifest", p>>]
      PROVE  folder'[<<"mp3", p, i>>] = folder'[<<"manifest", p>>][i]
  <2> SUFFICES ASSUME <<"previews", p>> # r
               PROVE  folder'[<<"mp3", p, i>>] = folder'[<<"manifest", p>>][i]
    BY <1>2 DEF Agreed
  <2>1. <<"previews", p>> \in intact /\ <<"previews", p>> # r
    BY <1>2
  <2>2. folder'[<<"manifest", p>>] = folder[<<"manifest", p>>]
    BY <2>1, FilesAreFiles, FilesHaveResources
  <2>3. PICK s \in Seq(Nat \X Nat) : s = folder[<<"manifest", p>>] /\ Len(s) <= MaxPreviews
    BY <1>2, <2>1, <2>2 DEF DesignInv, ManifestInv
  <2>4. i \in Indices
    <3>1. DOMAIN s = 1 .. Len(s) /\ Len(s) \in Nat
      BY LenProperties
    <3> QED BY <1>2, <2>2, <2>3, <3>1, DesignAssumption DEF Indices
  <2>5. <<"mp3", p, i>> \in Files /\ Resource(<<"mp3", p, i>>) # r
    BY <2>1, <2>4, FilesAreFiles, FilesHaveResources
  <2> QED BY <1>2, <2>1, <2>2, <2>5 DEF DesignInv, DesignIsAsReported
<1>3. ASSUME NEW p \in Roster, <<"ref", p>> \in intact', folder'[<<"txt", p>>] # Missing
      PROVE  folder'[<<"wav", p>>][2] = folder'[<<"txt", p>>]
  <2> SUFFICES ASSUME <<"ref", p>> # r
               PROVE  folder'[<<"wav", p>>][2] = folder'[<<"txt", p>>]
    BY <1>3 DEF Agreed
  <2>1. <<"ref", p>> \in intact /\ <<"ref", p>> # r
    BY <1>3
  <2>2. <<"wav", p>> \in Files /\ <<"txt", p>> \in Files
    BY FilesAreFiles
  <2>3. Resource(<<"wav", p>>) # r /\ Resource(<<"txt", p>>) # r
    BY <2>1, FilesHaveResources
  <2>4. folder'[<<"wav", p>>] = folder[<<"wav", p>>] /\ folder'[<<"txt", p>>] = folder[<<"txt", p>>]
    BY <2>2, <2>3
  <2> QED BY <1>3, <2>1, <2>4 DEF DesignInv, DesignIsAsReported
<1> QED BY <1>1, <1>2, <1>3 DEF DesignIsAsReported

(* A command writes to a file, and leaves the place of others alone.       *)
LEMMA WriterKeeps ==
    ASSUME DesignInv, NEW j \in Shells, shell[j].at = "write", NEW c, NEW x, NEW r,
           r = Place(shell[j]), folder' = [folder EXCEPT ![Head(shell[j].files).file] = x],
           shell' = [shell EXCEPT ![j] = c],
           JobInv(shell[j])', ManifestInv',
           c.at = "write" => Place(c) = r /\ c.alone = shell[j].alone,
           \A s : s # r => (s \in intact' <=> s \in intact),
           r \in intact' => shell[j].alone /\ Agreed(r)',
           r # <<"fleet">> => reported' = reported
    PROVE  DesignInv'
<1> DEFINE f == Head(shell[j].files).file
<1>1. /\ shell' = [k \in Shells |-> shell'[k]] /\ shell'[j] = c
      /\ \A k \in Shells \ {j} : shell'[k] = shell[k]
      /\ folder' = [g \in Files |-> folder'[g]]
      /\ \A g \in Files \ {f} : folder'[g] = folder[g]
  BY DEF DesignInv
<1>2. f \in Files /\ Resource(f) = r
  BY WritersFile
<1>3. \A g \in Files : Resource(g) # r => folder'[g] = folder[g]
  BY <1>1, <1>2
<1> HIDE DEF f
<1>4. ASSUME NEW k \in Shells, k # j PROVE JobInv(shell[k])'
  <2>1. ASSUME shell[k].at = "write", Place(shell[k]) \notin intact PROVE Place(shell[k]) \notin intact'
    BY <1>4, <2>1, OthersAreElsewhere
  <2>2. ASSUME shell[k].at = "write", shell[k].alone PROVE Place(shell[k]) # r
    BY <1>4, <2>2, OthersAreElsewhere
  <2> QED BY <1>1, <1>3, <1>4, <2>1, <2>2, OthersKeep DEF DesignInv
<1>5. ApartInv'
  <2> SUFFICES ASSUME NEW i \in Shells, NEW k \in Shells, i # k, shell'[i].at = "write",
                      shell'[k].at = "write", Place(shell'[i]) = Place(shell'[k])
               PROVE  ~shell'[i].alone
    BY DEF ApartInv, Place
  <2>1. \A l \in {i, k} : /\ shell[l].at = "write" /\ Place(shell'[l]) = Place(shell[l])
                          /\ shell'[l].alone = shell[l].alone
    BY <1>1
  <2> QED BY <2>1 DEF DesignInv, ApartInv
<1>6. DesignIsAsReported'
  BY <1>3, SoundStays
<1> QED BY <1>1, <1>4, <1>5, <1>6 DEF DesignInv

LEMMA OpenDesign ==
    ASSUME DesignInv, NEW j \in Shells, OpenFile(j)
    PROVE  DesignInv'
<1> DEFINE b == shell[j]
           f == Head(b.files).file
           p == Persona(b)
<1>0. PICK r : r = Place(b)
  OBVIOUS
<1>1. /\ b.at = "write" /\ folder' = [folder EXCEPT ![f] = Partial] /\ intact' = intact \ {r}
      /\ shell' = [shell EXCEPT ![j].open = TRUE] /\ reported' = reported
  BY <1>0 DEF OpenFile, Place
<1>2. /\ Command(b) /\ WriteInv(b) /\ p \in Roster /\ f \in Files
      /\ Resource(f) = r
  BY <1>0, <1>1, WritersFile
<1>3. PICK c : c = [b EXCEPT !.open = TRUE]
  OBVIOUS
<1>4. shell' = [shell EXCEPT ![j] = c] /\ shell'[j] = c
  BY <1>1, <1>3 DEF DesignInv
<1>5. /\ Record(c) /\ c.at = "write" /\ c.open = TRUE /\ c.alone = b.alone
      /\ c.left = b.left /\ c.index = b.index /\ c.previews = b.previews
      /\ c.files = b.files /\ c.voice = b.voice
      /\ c.fleet = b.fleet /\ c.text = b.text
  BY <1>1, <1>2, <1>3 DEF Command, Record
<1>6. Command(c) /\ Persona(c) = p /\ Place(c) = r
  BY <1>0, <1>2, <1>5 DEF Command, Places, Persona, Place
<1>7. /\ folder'[f] = Partial /\ \A g \in Files \ {f} : folder'[g] = folder[g]
  BY <1>1, <1>2 DEF DesignInv
<1>8. WriteInv(shell[j])'
  <2>1. ASSUME InPreviews(b) PROVE InPreviews(shell[j])'
    <3>1. PICK m \in 1 .. Len(b.previews) + 1 :
             /\ b.files = Rest(p, b.previews, m)
             /\ b.alone => \A i \in 1 .. m - 1 : folder[<<"mp3", p, i>>] = b.previews[i]
      BY <2>1 DEF InPreviews
    <3>2. ASSUME NEW i \in 1 .. m - 1 PROVE folder'[<<"mp3", p, i>>] = folder[<<"mp3", p, i>>]
      <4>1. /\ b.previews \in Seq(Nat \X Nat) /\ Len(b.previews) \in Nat
            /\ Len(b.previews) <= MaxPreviews /\ MaxPreviews \in Nat
        BY <1>2, LenProperties, DesignAssumption DEF Command
      <4>0. Head(b.files) = Entry(p, b.previews, m)
        BY <3>1, <4>1, RestIsASequence
      <4>2. f = <<"mp3", p, m>> \/ f = <<"manifest", p>>
        BY <4>0 DEF Entry
      <4>3. i \in Indices /\ i # m
        BY <4>1 DEF Indices
      <4>4. <<"mp3", p, i>> # f
        BY <4>2, <4>3
      <4> QED BY <1>2, <1>7, <4>3, <4>4, FilesAreFiles
    <3> QED BY <1>4, <1>5, <1>6, <3>1, <3>2 DEF InPreviews
  <2>2. ASSUME InRef(b) PROVE InRef(shell[j])'
    <3>1. CASE b.files = <<[file |-> <<"txt", p>>, data |-> b.text]>>
      <4>1. f = <<"txt", p>> /\ f # <<"wav", p>>
        BY <3>1
      <4>2. folder'[<<"wav", p>>] = folder[<<"wav", p>>]
        BY <1>2, <1>7, <4>1, FilesAreFiles
      <4> QED BY <1>4, <1>5, <1>6, <2>2, <4>2 DEF InRef
    <3>2. CASE b.files # <<[file |-> <<"txt", p>>, data |-> b.text]>>
      BY <1>4, <1>5, <1>6, <2>2, <3>2 DEF InRef
    <3> QED BY <3>1, <3>2
  <2>3. ASSUME InFleet(b) PROVE InFleet(shell[j])'
    BY <1>1, <1>4, <1>5, <1>6, <2>3 DEF InFleet
  <2> QED BY <1>0, <1>1, <1>2, <1>4, <1>5, <1>6, <2>1, <2>2, <2>3 DEF WriteInv
<1>9. JobInv(shell[j])'
  BY <1>4, <1>6, <1>8 DEF JobInv
<1>10. ManifestInv'
  <2> SUFFICES ASSUME NEW q \in Roster
               PROVE  /\ folder'[<<"manifest", q>>] \in
                           {Missing, Partial} \cup {s \in Seq(Nat \X Nat) : Len(s) <= MaxPreviews}
                      /\ <<"previews", q>> \in intact' => folder'[<<"manifest", q>>] # Partial
    BY DEF ManifestInv
  <2>1. CASE f = <<"manifest", q>>
    BY <1>1, <1>2, <1>7, <2>1, FilesHaveResources
  <2>2. CASE f # <<"manifest", q>>
    BY <1>1, <1>7, <2>2, FilesAreFiles DEF DesignInv, ManifestInv
  <2> QED BY <2>1, <2>2
<1> QED BY <1>0, <1>1, <1>4, <1>5, <1>6, <1>9, <1>10, WriterKeeps

(* Where a command goes once its files are written.                        *)
LEMMA AfterIsACommand ==
    ASSUME NEW b, Command(b), b.at = "write", WriteInv(b)
    PROVE  LET c == AfterWriting(b) IN
           c = Idle \/ (Command(c) /\ c.at # "write")
<1> DEFINE f == Head(b.files).file
<1>2. CASE b.kind = "ask" /\ f[1] = "manifest"
  <2>1. PICK c : c = [b EXCEPT !.at = "pick", !.files = <<>>]
    OBVIOUS
  <2>2. AfterWriting(b) = c
    BY <1>2, <2>1 DEF AfterWriting
  <2>3. /\ Record(c) /\ c.at = "pick"
        /\ c.left = b.left /\ c.index = b.index /\ c.previews = b.previews
    BY <2>1 DEF Command, Record
  <2>4. Command(c)
    BY <1>2, <2>3 DEF Command, Places
  <2> QED BY <2>2, <2>3, <2>4
<1>3. CASE b.kind = "auto" /\ f[1] = "manifest"
  <2>0. PICK picked : picked = b.previews[1]
    OBVIOUS
  <2>1. PICK c : c = [b EXCEPT !.at = "create", !.files = <<>>, !.previews = <<>>,
                               !.chosen = picked]
    OBVIOUS
  <2>2. AfterWriting(b) = c
    BY <1>3, <2>0, <2>1 DEF AfterWriting
  <2>3. /\ Record(c) /\ c.at = "create" /\ c.chosen = picked
        /\ c.left = b.left /\ c.index = b.index /\ c.previews = <<>>
    BY <2>1 DEF Command, Record
  <2>5. <<>> \in Seq(Nat \X Nat) /\ Len(<<>>) <= MaxPreviews
    BY DesignAssumption
  <2>6. Command(c)
    BY <1>3, <2>3, <2>5 DEF Command, Places
  <2> QED BY <2>2, <2>3, <2>6
<1>4. CASE ~(b.kind \in {"ask", "auto"} /\ f[1] = "manifest")
  <2>1. AfterWriting(b) = Advance(b)
    BY <1>4 DEF AfterWriting
  <2> QED BY <2>1, AdvanceIsACommand
<1> QED BY <1>2, <1>3, <1>4

LEMMA WriteFacts ==
    ASSUME DesignInv, NEW j \in Shells, WriteFile(j), NEW f, f = Head(shell[j].files).file,
           NEW r, r = Place(shell[j])
    PROVE  /\ shell[j].at = "write" /\ shell[j].open /\ r \notin intact
           /\ folder' = [folder EXCEPT ![f] = Head(shell[j].files).data]
           /\ folder'[f] = Head(shell[j].files).data
           /\ \A g \in Files \ {f} : folder'[g] = folder[g]
           /\ f # <<"fleet">> => reported' = reported
           /\ Len(shell[j].files) # 1 => /\ intact' = intact
                 /\ shell' = [shell EXCEPT ![j] = [shell[j] EXCEPT !.files = Tail(@), !.open = FALSE]]
           /\ Len(shell[j].files) = 1 =>
                /\ intact' = IF shell[j].alone THEN intact \cup {r} ELSE intact
                /\ shell' = [shell EXCEPT ![j] = AfterWriting(shell[j])]
                /\ JobInv(AfterWriting(shell[j])) /\ AfterWriting(shell[j]).at # "write"
<1>1. shell[j].at = "write" /\ shell[j].open
  BY DEF WriteFile
<1>2. Command(shell[j]) /\ WriteInv(shell[j]) /\ f \in Files
  BY <1>1, WritersFile
<1>3. r \notin intact
  BY <1>1, <1>2 DEF WriteInv
<1>4. folder' = [folder EXCEPT ![f] = Head(shell[j].files).data]
  BY DEF WriteFile
<1>5. /\ folder'[f] = Head(shell[j].files).data
      /\ \A g \in Files \ {f} : folder'[g] = folder[g]
  BY <1>2, <1>4 DEF DesignInv
<1>6. f # <<"fleet">> => reported' = reported
  BY DEF WriteFile
<1>7. Len(shell[j].files) # 1 =>
        /\ intact' = intact
        /\ shell' = [shell EXCEPT ![j] = [shell[j] EXCEPT !.files = Tail(@), !.open = FALSE]]
  BY DEF WriteFile
<1>8. Len(shell[j].files) = 1 =>
        /\ intact' = IF shell[j].alone THEN intact \cup {r} ELSE intact
        /\ shell' = [shell EXCEPT ![j] = AfterWriting(shell[j])]
  BY DEF WriteFile, Place
<1>9. JobInv(AfterWriting(shell[j])) /\ AfterWriting(shell[j]).at # "write"
  <2>1. PICK c : c = AfterWriting(shell[j])
    OBVIOUS
  <2>2. c = Idle \/ (Command(c) /\ c.at # "write")
    BY <1>1, <1>2, <2>1, AfterIsACommand
  <2> QED BY <2>1, <2>2 DEF JobInv, WriteInv, Idle
<1> QED BY <1>1, <1>3, <1>4, <1>5, <1>6, <1>7, <1>8, <1>9

(* A command at rest has its invariant, whatever the files hold.           *)
LEMMA AtRest ==
    ASSUME NEW j \in Shells, shell'[j].at # "write", NEW c, c = shell'[j], JobInv(c)
    PROVE  JobInv(shell[j])'
BY DEF JobInv, WriteInv

LEMMA WritePreviewsDesign ==
    ASSUME DesignInv, NEW j \in Shells, WriteFile(j),
           Place(shell[j]) = <<"previews", Persona(shell[j])>>
    PROVE  DesignInv'
<1> DEFINE b == shell[j]
<1>1. PICK r, p, f : r = Place(b) /\ p = Persona(b) /\ f = Head(b.files).file
  OBVIOUS
<1>2. /\ b.at = "write" /\ b.open /\ r \notin intact
      /\ folder' = [folder EXCEPT ![f] = Head(b.files).data] /\ folder'[f] = Head(b.files).data
      /\ \A g \in Files \ {f} : folder'[g] = folder[g]
      /\ f # <<"fleet">> => reported' = reported
  BY <1>1, WriteFacts
<1>3. /\ Command(b) /\ WriteInv(b) /\ p \in Roster /\ f \in Files
      /\ r = <<"previews", p>> /\ f # <<"fleet">>
  BY <1>1, <1>2, WritersFile, PlacesDiffer
<1>4. /\ b.previews \in Seq(Nat \X Nat) /\ Len(b.previews) \in Nat
      /\ Len(b.previews) <= MaxPreviews /\ MaxPreviews \in Nat
      /\ DOMAIN b.previews = 1 .. Len(b.previews)
  BY <1>3, LenProperties, DesignAssumption DEF Command
<1>5. PICK m \in 1 .. Len(b.previews) + 1 :
         /\ b.files = Rest(p, b.previews, m)
         /\ b.alone => \A i \in 1 .. m - 1 : folder[<<"mp3", p, i>>] = b.previews[i]
  <2>1. InPreviews(b)
    BY <1>1, <1>2, <1>3, PlacesDiffer DEF WriteInv
  <2> QED BY <1>1, <2>1 DEF InPreviews
<1>6. /\ Head(b.files) = Entry(p, b.previews, m)
      /\ Len(b.files) = Len(b.previews) + 2 - m
      /\ m <= Len(b.previews) => Tail(b.files) = Rest(p, b.previews, m + 1)
  BY <1>4, <1>5, RestIsASequence
<1>8. \A i \in Indices : i # m => folder'[<<"mp3", p, i>>] = folder[<<"mp3", p, i>>]
  <2>1. f = <<"mp3", p, m>> \/ f = <<"manifest", p>>
    BY <1>1, <1>6 DEF Entry
  <2>2. \A i \in Indices : i # m => <<"mp3", p, i>> # f
    BY <2>1
  <2> QED BY <1>2, <1>3, <2>2, FilesAreFiles
<1>9. CASE m <= Len(b.previews)
  <2>1. f = <<"mp3", p, m>> /\ folder'[f] = b.previews[m]
    BY <1>1, <1>2, <1>6, <1>9 DEF Entry
  <2>2. Len(b.files) # 1
    BY <1>4, <1>6, <1>9
  <2>3. PICK rest : rest = Tail(b.files)
    OBVIOUS
  <2>4. PICK c : c = [b EXCEPT !.files = rest, !.open = FALSE]
    OBVIOUS
  <2>5. intact' = intact /\ shell' = [shell EXCEPT ![j] = c]
    BY <1>1, <2>2, <2>3, <2>4, WriteFacts
  <2>6. /\ Record(c) /\ c.at = "write" /\ c.open = FALSE /\ c.alone = b.alone
        /\ c.left = b.left /\ c.index = b.index /\ c.previews = b.previews
        /\ c.files = rest
    BY <1>2, <1>3, <2>4 DEF Command, Record
  <2>7. rest = Rest(p, b.previews, m + 1) /\ m + 1 \in 1 .. Len(b.previews) + 1
    BY <1>4, <1>6, <1>9, <2>3
  <2>8. Command(c) /\ Persona(c) = p
    BY <1>1, <1>3, <2>6 DEF Command, Places, Persona
  <2>9. Place(c) = r
    <3>1. Head(rest) = Entry(p, b.previews, m + 1)
      BY <1>4, <2>7, RestIsASequence
    <3>2. Head(rest).file = <<"mp3", p, m + 1>> \/ Head(rest).file = <<"manifest", p>>
      BY <3>1 DEF Entry
    <3> QED BY <1>3, <2>6, <3>2, FilesHaveResources DEF Place
  <2>10. shell'[j] = c
    BY <2>5 DEF DesignInv
  <2>11. InPreviews(shell[j])'
    <3>1. ASSUME b.alone, NEW i \in 1 .. (m + 1) - 1
          PROVE  folder'[<<"mp3", p, i>>] = b.previews[i]
      <4>1. CASE i = m
        BY <2>1, <4>1
      <4>2. CASE i # m
        <5>1. i \in 1 .. m - 1 /\ i \in Indices
          BY <1>4, <3>1, <4>2 DEF Indices
        <5> QED BY <1>5, <1>8, <3>1, <4>2, <5>1
      <4> QED BY <4>1, <4>2
    <3> QED BY <2>6, <2>7, <2>8, <2>10, <3>1 DEF InPreviews
  <2>12. JobInv(shell[j])'
    BY <1>3, <2>6, <2>8, <2>9, <2>10, <2>11 DEF JobInv, WriteInv
  <2>13. ManifestInv'
    <3>1. \A q \in Roster : folder'[<<"manifest", q>>] = folder[<<"manifest", q>>]
      BY <1>2, <2>1, FilesAreFiles
    <3> QED BY <2>5, <3>1 DEF DesignInv, ManifestInv
  <2>14. \A s : s # r => (s \in intact' <=> s \in intact)
    BY <2>5
  <2>15. r \notin intact'
    BY <1>2, <2>5
  <2> QED BY <1>1, <1>2, <1>3, <2>5, <2>6, <2>9, <2>12, <2>13, <2>14, <2>15, WriterKeeps
<1>10. CASE ~(m <= Len(b.previews))
  <2>1. f = <<"manifest", p>> /\ folder'[f] = b.previews
    BY <1>1, <1>2, <1>6, <1>10 DEF Entry
  <2>2. Len(b.files) = 1 /\ m = Len(b.previews) + 1
    BY <1>4, <1>6, <1>10
  <2>3. PICK c : c = AfterWriting(b)
    OBVIOUS
  <2>4. /\ intact' = IF b.alone THEN intact \cup {r} ELSE intact
        /\ shell' = [shell EXCEPT ![j] = c] /\ JobInv(c) /\ c.at # "write"
    BY <1>1, <2>2, <2>3, WriteFacts
  <2>5. shell'[j] = c
    BY <2>4 DEF DesignInv
  <2>6. JobInv(shell[j])'
    BY <2>4, <2>5, AtRest
  <2>7. ManifestInv'
    <3> SUFFICES ASSUME NEW q \in Roster
                 PROVE  /\ folder'[<<"manifest", q>>] \in
                             {Missing, Partial} \cup {s \in Seq(Nat \X Nat) : Len(s) <= MaxPreviews}
                        /\ <<"previews", q>> \in intact' => folder'[<<"manifest", q>>] # Partial
      BY DEF ManifestInv
    <3>1. CASE q = p
      BY <1>4, <2>1, <3>1, DesignAssumption
    <3>2. CASE q # p
      <4>1. folder'[<<"manifest", q>>] = folder[<<"manifest", q>>]
        BY <1>2, <2>1, <3>2, FilesAreFiles
      <4>2. <<"previews", q>> # r
        BY <1>3, <3>2
      <4> QED BY <2>4, <4>1, <4>2 DEF DesignInv, ManifestInv
    <3> QED BY <3>1, <3>2
  <2>8. \A s : s # r => (s \in intact' <=> s \in intact)
    BY <2>4
  <2>9. ASSUME r \in intact' PROVE b.alone /\ Agreed(r)'
    <3>1. b.alone
      BY <1>2, <2>4, <2>9
    <3>2. ASSUME NEW i \in DOMAIN b.previews PROVE folder'[<<"mp3", p, i>>] = b.previews[i]
      <4>1. i \in 1 .. m - 1 /\ i \in Indices /\ i # m
        BY <1>4, <2>2, <3>2 DEF Indices
      <4> QED BY <1>5, <1>8, <3>1, <4>1
    <3>3. \A q : r = <<"previews", q>> => q = p
      BY <1>3
    <3>4. r # <<"fleet">> /\ \A q : r # <<"ref", q>>
      BY <1>3
    <3>5. Agreed(r)'
      BY <2>1, <3>2, <3>3, <3>4 DEF Agreed
    <3> QED BY <3>1, <3>5
  <2> QED BY <1>1, <1>2, <1>3, <2>4, <2>6, <2>7, <2>8, <2>9, WriterKeeps
<1> QED BY <1>9, <1>10

LEMMA WriteRefDesign ==
    ASSUME DesignInv, NEW j \in Shells, WriteFile(j), Place(shell[j]) = <<"ref", Persona(shell[j])>>
    PROVE  DesignInv'
<1> DEFINE b == shell[j]
<1>1. PICK r, p, f : r = Place(b) /\ p = Persona(b) /\ f = Head(b.files).file
  OBVIOUS
<1>2. /\ b.at = "write" /\ b.open /\ r \notin intact
      /\ folder' = [folder EXCEPT ![f] = Head(b.files).data] /\ folder'[f] = Head(b.files).data
      /\ \A g \in Files \ {f} : folder'[g] = folder[g]
      /\ f # <<"fleet">> => reported' = reported
  BY <1>1, WriteFacts
<1>3. /\ Command(b) /\ WriteInv(b) /\ p \in Roster /\ f \in Files
      /\ r = <<"ref", p>> /\ f # <<"fleet">>
  BY <1>1, <1>2, WritersFile, PlacesDiffer
<1>4. InRef(b)
  BY <1>1, <1>2, <1>3, PlacesDiffer DEF WriteInv
<1>5. ASSUME f = <<"wav", p>> \/ f = <<"txt", p>>
      PROVE  \A q \in Roster : folder'[<<"manifest", q>>] = folder[<<"manifest", q>>]
  <2>1. \A q \in Roster : <<"manifest", q>> \in Files
    BY FilesAreFiles
  <2>2. \A q : <<"manifest", q>> # f
    BY <1>5
  <2> QED BY <1>2, <2>1, <2>2
<1>6. CASE b.files = RefFiles(p, b.fleet[p], b.text)
  <2>0. PICK end : end = <<[file |-> <<"txt", p>>, data |-> b.text]>>
    OBVIOUS
  <2>1. /\ f = <<"wav", p>> /\ folder'[f] = TextToSpeech(b.fleet[p], b.text)
        /\ Len(b.files) = 2 /\ Tail(b.files) = end
    BY <1>1, <1>2, <1>6, <2>0 DEF RefFiles
  <2>2. PICK c : c = [b EXCEPT !.files = end, !.open = FALSE]
    OBVIOUS
  <2>12. Len(b.files) # 1 => /\ intact' = intact
           /\ shell' = [shell EXCEPT ![j] = [b EXCEPT !.files = Tail(@), !.open = FALSE]]
    BY <1>1, WriteFacts
  <2>13. Len(b.files) # 1
    BY <2>1
  <2>3. intact' = intact /\ shell' = [shell EXCEPT ![j] = c]
    BY <2>1, <2>2, <2>12, <2>13
  <2>4. /\ Record(c) /\ c.at = "write" /\ c.open = FALSE /\ c.alone = b.alone
        /\ c.left = b.left /\ c.index = b.index /\ c.previews = b.previews
        /\ c.files = end /\ c.text = b.text
    BY <1>2, <1>3, <2>2 DEF Command, Record
  <2>5. Command(c) /\ Persona(c) = p
    BY <1>1, <1>3, <2>4 DEF Command, Places, Persona
  <2>6. Place(c) = r
    <3>1. Head(end).file = <<"txt", p>>
      BY <2>0
    <3> QED BY <1>3, <2>4, <3>1, FilesHaveResources DEF Place
  <2>7. shell'[j] = c
    BY <2>3 DEF DesignInv
  <2>8. InRef(shell[j])'
    <3>1. folder'[<<"wav", p>>][2] = b.text
      BY <2>1 DEF TextToSpeech
    <3> QED BY <2>0, <2>4, <2>5, <2>7, <3>1 DEF InRef
  <2>9. JobInv(shell[j])'
    BY <1>3, <2>4, <2>5, <2>6, <2>7, <2>8 DEF JobInv, WriteInv
  <2>10. ManifestInv'
    BY <1>5, <2>1, <2>3 DEF DesignInv, ManifestInv
  <2>11. (\A s : s # r => (s \in intact' <=> s \in intact)) /\ r \notin intact'
    BY <1>2, <2>3
  <2> QED BY <1>1, <1>2, <1>3, <2>3, <2>4, <2>6, <2>9, <2>10, <2>11, WriterKeeps
<1>7. CASE /\ b.files = <<[file |-> <<"txt", p>>, data |-> b.text]>>
           /\ b.alone => folder[<<"wav", p>>][2] = b.text
  <2>1. f = <<"txt", p>> /\ folder'[f] = b.text /\ Len(b.files) = 1
    BY <1>1, <1>2, <1>7
  <2>3. PICK c : c = AfterWriting(b)
    OBVIOUS
  <2>4. /\ intact' = IF b.alone THEN intact \cup {r} ELSE intact
        /\ shell' = [shell EXCEPT ![j] = c] /\ JobInv(c) /\ c.at # "write"
    BY <1>1, <2>1, <2>3, WriteFacts
  <2>5. shell'[j] = c
    BY <2>4 DEF DesignInv
  <2>6. JobInv(shell[j])'
    BY <2>4, <2>5, AtRest
  <2>8. \A s : s # r => (s \in intact' <=> s \in intact)
    BY <2>4
  <2>7. ManifestInv'
    <3>1. \A q \in Roster : <<"previews", q>> # r
      BY <1>3
    <3> QED BY <1>5, <2>1, <2>8, <3>1 DEF DesignInv, ManifestInv
  <2>9. ASSUME r \in intact' PROVE b.alone /\ Agreed(r)'
    <3>1. b.alone
      BY <1>2, <2>4, <2>9
    <3>2. folder'[<<"wav", p>>][2] = folder'[<<"txt", p>>]
      BY <1>2, <1>3, <1>7, <2>1, <3>1, FilesAreFiles
    <3>3. \A q : r = <<"ref", q>> => q = p
      BY <1>3
    <3>4. r # <<"fleet">> /\ \A q : r # <<"previews", q>>
      BY <1>3
    <3>5. Agreed(r)'
      BY <3>2, <3>3, <3>4 DEF Agreed
    <3> QED BY <3>1, <3>5
  <2> QED BY <1>1, <1>2, <1>3, <2>4, <2>6, <2>7, <2>8, <2>9, WriterKeeps
<1> QED BY <1>1, <1>4, <1>6, <1>7 DEF InRef

LEMMA WriteFleetDesign ==
    ASSUME DesignInv, NEW j \in Shells, WriteFile(j), Place(shell[j]) = <<"fleet">>
    PROVE  DesignInv'
<1> DEFINE b == shell[j]
<1>1. PICK r, p, f : r = Place(b) /\ p = Persona(b) /\ f = Head(b.files).file
  OBVIOUS
<1>2. /\ b.at = "write" /\ r \notin intact
      /\ folder' = [folder EXCEPT ![f] = Head(b.files).data] /\ folder'[f] = Head(b.files).data
      /\ \A g \in Files \ {f} : folder'[g] = folder[g]
  BY <1>1, WriteFacts
<1>3. /\ Command(b) /\ WriteInv(b) /\ f \in Files /\ r = <<"fleet">> /\ f = <<"fleet">>
  BY <1>1, <1>2, WritersFile
<1>4. PICK data : /\ b.files = <<[file |-> <<"fleet">>, data |-> data]>>
                  /\ b.alone => data = [reported EXCEPT ![p] = b.voice]
  <2>1. InFleet(b)
    BY <1>1, <1>2, <1>3, PlacesDiffer DEF WriteInv
  <2> QED BY <1>1, <2>1 DEF InFleet
<1>5. folder'[f] = data /\ Len(b.files) = 1
  BY <1>2, <1>4
<1>6. reported' = [reported EXCEPT ![p] = b.voice]
  BY <1>1, <1>3 DEF WriteFile
<1>7. PICK c : c = AfterWriting(b)
  OBVIOUS
<1>8. /\ intact' = IF b.alone THEN intact \cup {r} ELSE intact
      /\ shell' = [shell EXCEPT ![j] = c] /\ JobInv(c) /\ c.at # "write"
  BY <1>1, <1>5, <1>7, WriteFacts
<1>9. shell'[j] = c
  BY <1>8 DEF DesignInv
<1>10. JobInv(shell[j])'
  BY <1>8, <1>9, AtRest
<1>11. \A s : s # r => (s \in intact' <=> s \in intact)
  BY <1>8
<1>12. ManifestInv'
  <2>1. \A q \in Roster : <<"manifest", q>> # f /\ <<"manifest", q>> \in Files
    BY <1>3, FilesAreFiles
  <2>2. \A q \in Roster : folder'[<<"manifest", q>>] = folder[<<"manifest", q>>]
    BY <1>2, <2>1
  <2>3. \A q \in Roster : <<"previews", q>> # r
    BY <1>3
  <2> QED BY <1>11, <2>2, <2>3 DEF DesignInv, ManifestInv
<1>13. ASSUME r \in intact' PROVE b.alone /\ Agreed(r)'
  <2>1. b.alone
    BY <1>2, <1>8, <1>13
  <2>2. folder'[<<"fleet">>] = reported'
    BY <1>3, <1>4, <1>5, <1>6, <2>1
  <2>3. \A q : r # <<"previews", q>> /\ r # <<"ref", q>>
    BY <1>3
  <2>4. Agreed(r)'
    BY <2>2, <2>3 DEF Agreed
  <2> QED BY <2>1, <2>4
<1> QED BY <1>1, <1>2, <1>3, <1>8, <1>10, <1>11, <1>12, <1>13, WriterKeeps

LEMMA WriteDesign == ASSUME DesignInv, NEW j \in Shells, WriteFile(j) PROVE DesignInv'
<1>1. shell[j].at = "write"
  BY DEF WriteFile
<1>2. \/ Place(shell[j]) = <<"previews", Persona(shell[j])>>
      \/ Place(shell[j]) = <<"ref", Persona(shell[j])>>
      \/ Place(shell[j]) = <<"fleet">>
  BY <1>1, WritersFile DEF WriteInv
<1> QED BY <1>2, WritePreviewsDesign, WriteRefDesign, WriteFleetDesign

(* The invariant, with the number of requests answered.                    *)
CommandsInv == DesignInv /\ generations \in Nat

LEMMA DesignStep == CommandsInv /\ [DesignNext]_designVars => CommandsInv'
<1>1. ASSUME DesignInv, NEW j \in Shells,
             \/ Start(j) \/ GenerateNothing(j) \/ Pick(j) \/ PickNone(j)
             \/ ReadManifest(j) \/ Create(j) \/ Adopt(j) \/ ReadFleet(j) \/ Speak(j) \/ PassOver(j)
             \/ OpenFile(j) \/ WriteFile(j) \/ Stop(j) \/ Interrupt(j)
      PROVE  DesignInv'
  BY <1>1, StartDesign, EndDesign, PickDesign, PickNoneDesign, ReadManifestDesign,
     NewVoiceDesign, ReadFleetDesign, SpeakDesign, OpenDesign, WriteDesign
<1>2. ASSUME CommandsInv, NEW j \in Shells, Generate(j) PROVE DesignInv'
  BY <1>2, GenerateDesign DEF CommandsInv
<1>3. ASSUME DesignInv, UNCHANGED designVars PROVE DesignInv'
  <2>1. UNCHANGED <<folder, shell, reported, intact>>
    BY <1>3 DEF designVars
  <2>2. ASSUME NEW k \in Shells PROVE JobInv(shell[k])'
    BY <1>3, <2>1, OthersKeep DEF DesignInv
  <2>3. ApartInv' /\ ManifestInv' /\ DesignIsAsReported'
    BY <1>3, <2>1 DEF DesignInv, ApartInv, ManifestInv, DesignIsAsReported, Place
  <2> QED BY <1>3, <2>1, <2>2, <2>3 DEF DesignInv
<1>4. ASSUME generations \in Nat, [DesignNext]_designVars PROVE generations' \in Nat
  <2>1. generations' = generations \/ generations' = generations + 1
    BY <1>4 DEF DesignNext, designVars, Start, Generate, GenerateNothing, Pick, PickNone,
       ReadManifest, Create, Adopt, NewVoice, ReadFleet, Speak, PassOver, OpenFile, WriteFile, Stop,
       Interrupt
  <2> QED BY <1>4, <2>1
<1> QED BY <1>1, <1>2, <1>3, <1>4 DEF DesignNext, CommandsInv

(* The commands keep the invariant: who is alone in the writing of a       *)
(* resource finds there what it has written.  (scripts/voice_design.py:    *)
(* cmd_audition, cmd_persist, cmd_library, cmd_regen, each of which writes *)
(* in place.)                                                              *)
THEOREM DesignInvariant == DesignSpec => []CommandsInv
<1>1. DesignInit => CommandsInv
  BY InitDesign DEF DesignInit, CommandsInv
<1> QED BY <1>1, DesignStep, PTL DEF DesignSpec

(* Whatever terminals run, the fleet holds the id of every write-back that *)
(* has ended, every preview a manifest lists is the MP3 of its number, and *)
(* ref.txt is what ref.wav says, unless two commands wrote the same thing  *)
(* at once or one was killed in the writing.  (_write_back_fleet of        *)
(* voice_design.py, audition_persona of audition.py, cmd_regen.)           *)
THEOREM DesignsKeepTheirReports == DesignSpec => []DesignIsAsReported
<1>1. CommandsInv => DesignIsAsReported
  BY DEF CommandsInv, DesignInv
<1> QED BY <1>1, DesignInvariant, PTL

=============================================================================
