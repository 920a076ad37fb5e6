---------------------------- MODULE Provisioning ----------------------------
(***************************************************************************)
(* voice-forge backend install, uninstall and list for one backend, and    *)
(* what a server that loads the backend makes of the files they leave      *)
(* (cli.py, backends/_higgs_post_install.py, the beginning of load in      *)
(* backends/_subprocess.py).                                               *)
(*                                                                         *)
(* The backend's directory holds a venv and state.json.  An install makes  *)
(* the venv, installs the packages, copies the subtree the higgs package   *)
(* lacks, and writes state.json last, in place; a server takes the backend *)
(* for installed when both are there, the file can be read, and the venv   *)
(* has the entry point of the shim.  An uninstall removes the directory's  *)
(* entries in no particular order.  Commands run in several terminals, and *)
(* each may be killed, or fail, between any two steps.                     *)
(***************************************************************************)
EXTENDS Integers

CONSTANTS
    Terminals,     \* where commands run
    Patched,       \* TRUE for the higgs backend: a post-install step copies its subtree
    NoFile, TornFile, Written   \* what state.json may hold

ASSUME ProvisionAssumption ==
    Patched \in BOOLEAN /\ NoFile # TornFile /\ Written \notin {NoFile, TornFile}

VARIABLES
    venv,      \* FALSE: no directory; TRUE: a venv with its python
    packages,  \* the packages are installed, the shim's entry point among them
    subtree,   \* "none", "partial" while it is copied, "whole"
    state,     \* state.json
    step,      \* where the command of each terminal is
    first      \* history: only installs so far, one at a time, on no readable state.json

provisionVars == <<venv, packages, subtree, state, step, first>>

ProvisionInit ==
    /\ venv = FALSE /\ packages = FALSE /\ subtree = "none" /\ state = NoFile
    /\ step = [t \in Terminals |-> "idle"]
    /\ first = TRUE

Others(t) == {u \in Terminals \ {t} : step[u] # "idle"}
Nothing   == ~venv /\ state = NoFile

Goto(t, s) == step' = [step EXCEPT ![t] = s]

(***************************************************************************)
(* install.  On a venv that is there uv either gives up or makes a new one *)
(* in its place, after its version; nothing of the old one is kept.        *)
(***************************************************************************)
BeginInstall(t) ==
    /\ step[t] = "idle"
    /\ Goto(t, "venv")
    /\ first' = (Others(t) = {} /\ state # Written /\ (first \/ Nothing))
    /\ UNCHANGED <<venv, packages, subtree, state>>

MakeVenv(t) ==
    /\ step[t] = "venv"
    /\ \/ venv /\ Goto(t, "idle") /\ UNCHANGED <<venv, packages, subtree>>
       \/ Goto(t, "pip") /\ venv' = TRUE /\ packages' = FALSE /\ subtree' = "none"
    /\ UNCHANGED <<state, first>>

\* Faulty variant: the install is recorded without its post-install step.
InstallUnpatched(t) ==
    /\ step[t] = "pip"
    /\ packages' = (packages \/ venv)
    /\ Goto(t, IF venv THEN "record" ELSE "idle")
    /\ UNCHANGED <<venv, subtree, state, first>>

\* Without the venv's python both this and the next step raise, and the command ends.
InstallPackages(t) ==
    /\ step[t] = "pip"
    /\ packages' = (packages \/ venv)
    /\ Goto(t, IF ~venv THEN "idle" ELSE IF Patched THEN "check" ELSE "record")
    /\ UNCHANGED <<venv, subtree, state, first>>

\* _needs_patch: a subtree that has its tokenizer counts as whole.
NeedsPatch(t) ==
    /\ step[t] = "check"
    /\ \/ ~(venv /\ packages) /\ Goto(t, "idle")
       \/ venv /\ packages /\ subtree \in {"partial", "whole"} /\ Goto(t, "record")
       \/ venv /\ packages /\ subtree \in {"none", "partial"} /\ Goto(t, "copy")
    /\ UNCHANGED <<venv, packages, subtree, state, first>>

\* _copy_subtree wipes what is there; the copy has many files.
BeginCopy(t) ==
    /\ step[t] = "copy" /\ venv
    /\ subtree' = "partial"
    /\ Goto(t, "copying")
    /\ UNCHANGED <<venv, packages, state, first>>

EndCopy(t) ==
    /\ step[t] = "copying" /\ venv
    /\ subtree' = "whole"
    /\ Goto(t, "record")
    /\ UNCHANGED <<venv, packages, state, first>>

OpenState(t) ==
    /\ step[t] = "record" /\ venv
    /\ state' = TornFile
    /\ Goto(t, "recording")
    /\ UNCHANGED <<venv, packages, subtree, first>>

WriteState(t) ==
    /\ step[t] = "recording"
    /\ state' = Written
    /\ Goto(t, "idle")
    /\ UNCHANGED <<venv, packages, subtree, first>>

(***************************************************************************)
(* uninstall: rmtree, which takes the directory's entries one by one.      *)
(***************************************************************************)
BeginUninstall(t) ==
    /\ step[t] = "idle" /\ ~Nothing
    /\ Goto(t, "remove")
    /\ first' = FALSE
    /\ UNCHANGED <<venv, packages, subtree, state>>

Remove(t) ==
    /\ step[t] = "remove" /\ ~Nothing
    /\ \/ subtree # "none" /\ subtree' = "none" /\ UNCHANGED <<venv, packages, state>>
       \/ packages /\ packages' = FALSE /\ UNCHANGED <<venv, subtree, state>>
       \/ venv /\ ~packages /\ subtree = "none" /\ venv' = FALSE
            /\ UNCHANGED <<packages, subtree, state>>
       \/ state # NoFile /\ state' = NoFile /\ UNCHANGED <<venv, packages, subtree>>
    /\ UNCHANGED <<step, first>>

EndUninstall(t) ==
    /\ step[t] = "remove" /\ Nothing
    /\ Goto(t, "idle")
    /\ UNCHANGED <<venv, packages, subtree, state, first>>

\* A step that fails ends the command where it is; so does a kill.
Quit(t) ==
    /\ step[t] # "idle"
    /\ Goto(t, "idle")
    /\ UNCHANGED <<venv, packages, subtree, state, first>>

ProvisionNext ==
    \E t \in Terminals :
        \/ BeginInstall(t) \/ MakeVenv(t) \/ InstallPackages(t) \/ NeedsPatch(t)
        \/ BeginCopy(t) \/ EndCopy(t) \/ OpenState(t) \/ WriteState(t)
        \/ BeginUninstall(t) \/ Remove(t) \/ EndUninstall(t) \/ Quit(t)

ProvisionSpec == ProvisionInit /\ [][ProvisionNext]_provisionVars

\* What SubprocessBackend.load goes by before it starts the child.
Installed == venv /\ state = Written /\ packages

(***************************************************************************)
(* A backend taken for installed is complete, as long as nothing but first *)
(* installs has touched its directory, one at a time, since it was empty:  *)
(* however many of them were cut short and wherever, there is no state.json*)
(* before everything it speaks of is in place.  An install over a readable *)
(* state.json is not a first one.  It takes the old venv away and leaves   *)
(* the file, so that, cut short before the copy, it leaves a backend that  *)
(* is taken for installed and lacks the subtree.                           *)
(***************************************************************************)
InstalledIsComplete ==
    first /\ Installed => (Patched => subtree = "whole")
=============================================================================
