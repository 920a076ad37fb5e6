----------------------------- MODULE Documents -----------------------------
(***************************************************************************)
(* The single-file documents of voice-forge: the scorecard and the prompts *)
(* of lab_state.py, the default backend of config.py, and the vault of     *)
(* secrets/ with its password file.  Each is read, changed and written     *)
(* back as a whole and in place.  A job is one change: a handler of        *)
(* server.py, which has the event loop to itself, or a command in a        *)
(* process of its own (voice-forge-secrets, bootstrap_persona_prompts.py). *)
(* Beside them the server looks up secrets through its cache.              *)
(*                                                                         *)
(* Abstraction.  Job j writes the value j; the beginning is job 0.  The    *)
(* cipher is its contract: a text is opened by the password it was sealed  *)
(* with and by no other.  Every write gives a file another mtime.  The     *)
(* password comes from its file, not from the environment.                 *)
(***************************************************************************)
EXTENDS Naturals, FiniteSets, Sequences

CONSTANTS
    Personas,  \* personas of the lab; the scorecard has a cell for each
    Secrets,   \* dot-paths in the vault
    MaxJobs,   \* bound on the jobs, for TLC
    Absent,    \* no such file
    Torn,      \* a file truncated and not written; a password file then has ""
    Unset      \* no such key

ASSUME MaxJobsAssumption == MaxJobs \in Nat
ASSUME ValuesAssumption == /\ Absent # Torn
                           /\ {Absent, Torn, Unset} \cap Nat = {}

Jobs   == 1 .. MaxJobs
Values == {Unset} \cup 0 .. MaxJobs
Plain  == {"scorecard", "prompts", "config"}
Docs   == Plain \cup {"vault"}

Cell(p, field) == <<p, field>>

Keys(d) == CASE d = "scorecard" -> Personas \X {"rating", "notes"}
             [] d = "prompts"   -> Personas
             [] d = "config"    -> {"default_backend", "other"}
             [] d = "vault"     -> Secrets

Doc(d)      == [Keys(d) -> Values]
All(d, j)   == [k \in Keys(d) |-> j]
Empty(d)    == All(d, Unset)
Blob        == [by : {Torn} \cup 0 .. MaxJobs, data : Doc("vault")]
Sealed(b, x) == [by |-> b, data |-> x]

ASSUME BlobsAssumption == Absent \notin Blob /\ Torn \notin Blob
ASSUME DocsAssumption  == \A d \in Docs : Absent \notin Doc(d) /\ Torn \notin Doc(d)

(* Who writes what.                                                        *)
DocOf(kind) == CASE kind = "cell"                   -> "scorecard"
                 [] kind \in {"block", "bootstrap"} -> "prompts"
                 [] kind = "default"                -> "config"
                 [] kind \in {"init", "set", "edit", "rotate"} -> "vault"

OnLoop(kind) == kind \in {"cell", "block", "default"}

VARIABLES
    disk,   \* the files
    mtime,  \* the mtime of the vault
    job,    \* what each job is
    pc,     \* where it is
    todo,   \* the files it has still to write
    seen,   \* the document it works on
    pass,   \* the password it holds
    cache,  \* secrets._cache of the server
    get,    \* the server's current or last get_secret
    alone,  \* the jobs that no other has disturbed
    report, \* what the jobs reported done have made of each document
    sound   \* the documents to which nothing else has happened

work         == <<job, pc, todo, seen, pass>>
ghost        == <<alone, report, sound>>
documentVars == <<disk, mtime, work, cache, get, ghost>>

NoJob   == [kind |-> "none", key |-> Unset, opts |-> {}]
NoCache == [time |-> 0, data |-> Absent]

Opens(v, p)    == v \in Blob /\ v.by = p
Value(d, fs)   == IF d = "vault" /\ fs.vault # Absent
                    THEN IF Opens(fs.vault, fs.password) THEN fs.vault.data ELSE Torn
                    ELSE IF fs[d] = Absent THEN Empty(d) ELSE fs[d]

(* What a look into the vault may find: its secrets, or, if it cannot be   *)
(* opened, none.                                                           *)
Views(v, p) == (IF v \in Blob THEN {v.data} ELSE {})
                 \cup (IF Opens(v, p) THEN {} ELSE {Empty("vault")})

NoGet == [pc |-> "idle", time |-> 0, text |-> Absent,
          window |-> {Empty("vault")}, result |-> Empty("vault")]

DocumentsInit ==
    /\ \E fresh \in BOOLEAN :
         disk \in [scorecard : {IF fresh THEN Absent ELSE All("scorecard", 0)},
                  prompts   : {IF fresh THEN Absent ELSE All("prompts", 0)},
                  config    : {IF fresh THEN Absent ELSE All("config", 0)},
                  vault     : {Absent, Sealed(0, All("vault", 0))},
                  password  : {Absent, 0}]
    /\ mtime = 1
    /\ job = [j \in Jobs |-> NoJob] /\ pc = [j \in Jobs |-> "new"]
    /\ todo = [j \in Jobs |-> <<>>]
    /\ seen = [j \in Jobs |-> Empty("vault")]
    /\ pass = [j \in Jobs |-> Torn]
    /\ cache = NoCache /\ get = NoGet
    /\ alone = Jobs
    /\ report = [d \in Docs |-> Value(d, disk)]
    /\ sound = {d \in Docs : Value(d, disk) # Torn}

Working(j) == pc[j] \in {"password", "read", "open", "write"}
MyDoc(j)   == DocOf(job[j].kind)
Has(j, o)  == o \in job[j].opts

LoopFree == /\ get.pc = "idle"
            /\ \A j \in Jobs : Working(j) => ~OnLoop(job[j].kind)

-----------------------------------------------------------------------------
(* Jobs begin.                                                             *)

(* Two jobs on a document at a time, not both on the loop, disturb each    *)
(* other.                                                                  *)
Clashing(kind) == {i \in Jobs : /\ Working(i) /\ MyDoc(i) = DocOf(kind)
                                /\ ~(OnLoop(kind) /\ OnLoop(job[i].kind))}

Begin(j, kind, key, opts) ==
    /\ pc[j] = "new" /\ \A i \in Jobs : i < j => pc[i] # "new"
    /\ OnLoop(kind) => LoopFree
    /\ job' = [job EXCEPT ![j] = [kind |-> kind, key |-> key, opts |-> opts]]
    /\ pc' = [pc EXCEPT ![j] = IF DocOf(kind) = "vault" THEN "password" ELSE "read"]
    /\ todo' = [todo EXCEPT ![j] = <<DocOf(kind)>>]
    /\ LET clashing == Clashing(kind) IN
       /\ alone' = IF clashing = {} THEN alone ELSE alone \ (clashing \cup {j})
       /\ sound' = IF clashing = {} THEN sound ELSE sound \ {DocOf(kind)}
    /\ UNCHANGED <<disk, mtime, seen, pass, cache, get, report>>

(* put_scorecard_cell: a rating may be sent, sent as null to clear the     *)
(* field, or left out, the notes sent or left out.                         *)
CellRequests == {{}, {"rating"}, {"clear"}} \cup
                {{"notes"}, {"rating", "notes"}, {"clear", "notes"}}

PutCell(j) == \E p \in Personas, sent \in CellRequests : Begin(j, "cell", p, sent)

(* put_persona_prompts: all lengths of a persona at once.                  *)
PutPrompts(j) == \E p \in Personas : Begin(j, "block", p, {})

(* bootstrap_persona_prompts.py, with or without --overwrite.              *)
Bootstrap(j) == \E opts \in SUBSET {"force"} : Begin(j, "bootstrap", Unset, opts)

(* set_default_backend_endpoint.                                           *)
PutDefault(j) == Begin(j, "default", "default_backend", {})

(* init, with or without --force and --no-save-password.                   *)
InitVault(j) == \E opts \in SUBSET {"force", "save"} : Begin(j, "init", Unset, opts)

SetSecret(j) == \E k \in Secrets : Begin(j, "set", k, {})

EditVault(j) == Begin(j, "edit", Unset, {})

(* rotate, with or without --no-update-password-file.                      *)
Rotate(j) == \E opts \in SUBSET {"update"} : Begin(j, "rotate", Unset, opts)

-----------------------------------------------------------------------------
(* Jobs read.                                                              *)

GoesTo(j, l) == pc' = [pc EXCEPT ![j] = l]

(* An end before anything was written.                                     *)
Refuse(j) == /\ GoesTo(j, "refused")
             /\ UNCHANGED <<disk, mtime, job, todo, seen, pass, cache, get, ghost>>

(* _read_json, and its like in config.py and the script: what is no        *)
(* document counts as an empty one.                                        *)
ReadPlain(j) ==
    LET d == MyDoc(j) IN
    /\ pc[j] = "read" /\ d # "vault"
    /\ seen' = [seen EXCEPT ![j] =
                  IF disk[d] \in {Absent, Torn} THEN Empty(d) ELSE disk[d]]
    /\ GoesTo(j, "open")
    /\ UNCHANGED <<disk, mtime, job, todo, pass, cache, get, ghost>>

(* cmd_init: a password file that is there is used, else the user thinks   *)
(* of a password, which is saved before the vault is written.              *)
ChoosePassword(j) ==
    /\ pc[j] = "password" /\ job[j].kind = "init"
    /\ \/ disk.vault # Absent /\ ~Has(j, "force") /\ Refuse(j)
       \/ /\ disk.vault = Absent \/ Has(j, "force")
          /\ \/ /\ disk.password # Absent
                /\ pass' = [pass EXCEPT ![j] = disk.password]
                /\ UNCHANGED todo
             \/ /\ disk.password = Absent
                /\ pass' = [pass EXCEPT ![j] = j]
                /\ todo' = IF Has(j, "save")
                             THEN [todo EXCEPT ![j] = <<"password", "vault">>]
                             ELSE todo
          /\ seen' = [seen EXCEPT ![j] = Empty("vault")]
          /\ GoesTo(j, "open")
          /\ UNCHANGED <<disk, mtime, job, cache, get, ghost>>

(* resolve_password, and edit and rotate look whether there is a vault.    *)
ResolvePassword(j) ==
    /\ pc[j] = "password" /\ job[j].kind # "init"
    /\ \/ /\ \/ disk.password = Absent
             \/ disk.vault = Absent /\ job[j].kind # "set"
          /\ Refuse(j)
       \/ /\ disk.password # Absent
          /\ disk.vault # Absent \/ job[j].kind = "set"
          /\ pass' = [pass EXCEPT ![j] = disk.password]
          /\ GoesTo(j, "read")
          /\ UNCHANGED <<disk, mtime, job, todo, seen, cache, get, ghost>>

(* Faulty variant: rotate never updates the password file.                 *)
ReadVaultOnly(j) ==
    /\ pc[j] = "read" /\ MyDoc(j) = "vault"
    /\ disk.vault = Absent \/ Opens(disk.vault, pass[j])
    /\ seen' = [seen EXCEPT ![j] =
                  IF disk.vault = Absent THEN Empty("vault") ELSE disk.vault.data]
    /\ pass' = IF job[j].kind = "rotate" THEN [pass EXCEPT ![j] = j] ELSE pass
    /\ GoesTo(j, "open")
    /\ UNCHANGED <<disk, mtime, job, todo, cache, get, ghost>>

(* decrypt raises for a file that is no vault and for a wrong password.    *)
(* rotate then asks for the new password; an edit may change nothing.      *)
ReadVault(j) ==
    /\ pc[j] = "read" /\ MyDoc(j) = "vault"
    /\ \/ /\ \/ disk.vault # Absent /\ ~Opens(disk.vault, pass[j])
             \/ job[j].kind = "edit"
          /\ Refuse(j)
       \/ /\ disk.vault = Absent \/ Opens(disk.vault, pass[j])
          /\ seen' = [seen EXCEPT ![j] =
                        IF disk.vault = Absent THEN Empty("vault") ELSE disk.vault.data]
          /\ IF job[j].kind = "rotate"
               THEN /\ pass' = [pass EXCEPT ![j] = j]
                    /\ todo' = IF Has(j, "update")
                                 THEN [todo EXCEPT ![j] = <<"vault", "password">>]
                                 ELSE todo
               ELSE UNCHANGED <<pass, todo>>
          /\ GoesTo(j, "open")
          /\ UNCHANGED <<disk, mtime, job, cache, get, ghost>>

-----------------------------------------------------------------------------
(* Jobs write.                                                             *)

(* The document a job makes of the old one.  A rating that is left out     *)
(* reaches update_scorecard_cell as null, like one that is to be cleared.  *)
Update(j, old) ==
    LET d == MyDoc(j)
        k == job[j].key IN
    CASE job[j].kind = "cell" ->
           [old EXCEPT ![Cell(k, "rating")] = IF Has(j, "rating") THEN j ELSE Unset,
                       ![Cell(k, "notes")]  = IF Has(j, "notes") THEN j ELSE @]
      [] job[j].kind \in {"block", "default", "set"} -> [old EXCEPT ![k] = j]
      [] job[j].kind = "bootstrap" ->
           [p \in Personas |-> IF old[p] = Unset \/ Has(j, "force") THEN j ELSE old[p]]
      [] job[j].kind = "edit"   -> All(d, j)
      [] job[j].kind = "rotate" -> old
      [] job[j].kind = "init"   -> Empty(d)

Content(j) ==
    CASE Head(todo[j]) = "password" -> pass[j]
      [] Head(todo[j]) = "vault"    -> Sealed(pass[j], Update(j, seen[j]))
      [] OTHER                      -> Update(j, seen[j])

(* A file gets a new text; a get_secret on its way may see it.             *)
Put(f, x) ==
    /\ disk' = [disk EXCEPT ![f] = x]
    /\ mtime' = IF f = "vault" THEN mtime + 1 ELSE mtime
    /\ get' = IF get.pc = "idle" THEN get
                ELSE [get EXCEPT !.window = @ \cup Views(disk'.vault, disk'.password)]

Open(j) ==
    /\ pc[j] = "open"
    /\ Put(Head(todo[j]), Torn)
    /\ GoesTo(j, "write")
    /\ UNCHANGED <<job, todo, seen, pass, cache, ghost>>

(* What a job builds on is sound, and leaves a password that opens, and a  *)
(* rating that is left out is none.                                        *)
WellFounded(j) ==
    CASE job[j].kind = "cell" ->
           /\ "scorecard" \in sound
           /\ \/ Has(j, "rating") \/ Has(j, "clear")
              \/ seen[j][Cell(job[j].key, "rating")] = Unset
      [] job[j].kind = "init"   -> disk'.password = pass[j]
      [] job[j].kind = "rotate" -> Has(j, "update") /\ "vault" \in sound
      [] OTHER                  -> MyDoc(j) \in sound

Write(j) ==
    LET d == MyDoc(j) IN
    /\ pc[j] = "write"
    /\ Put(Head(todo[j]), Content(j))
    /\ todo' = [todo EXCEPT ![j] = Tail(@)]
    /\ \/ /\ Len(todo[j]) > 1
          /\ GoesTo(j, "open")
          /\ UNCHANGED <<report, sound>>
       \/ /\ Len(todo[j]) = 1
          /\ GoesTo(j, "done")
          /\ sound' = IF j \in alone /\ WellFounded(j) THEN sound \cup {d} ELSE sound \ {d}
          /\ report' = IF d \in sound' THEN [report EXCEPT ![d] = Update(j, report[d])]
                                       ELSE report
    /\ UNCHANGED <<job, seen, pass, cache, alone>>

(* The process of a job is killed; the server's takes its cache with it.   *)
Kill(j) ==
    /\ Working(j)
    /\ GoesTo(j, "killed")
    /\ sound' = IF pc[j] \in {"open", "write"} THEN sound \ {MyDoc(j)} ELSE sound
    /\ cache' = IF OnLoop(job[j].kind) THEN NoCache ELSE cache
    /\ UNCHANGED <<disk, mtime, job, todo, seen, pass, get, alone, report>>

-----------------------------------------------------------------------------
(* get_secret in the server, by _require_elevenlabs on the loop.           *)

GetSecret ==
    /\ LoopFree
    /\ get' = [NoGet EXCEPT !.pc = "stat", !.window = Views(disk.vault, disk.password)]
    /\ UNCHANGED <<disk, mtime, work, cache, ghost>>

Return(x) == get' = [get EXCEPT !.pc = "idle", !.result = x]

(* _load_vault: the time of the file, and the cache if it is of that time. *)
Stat ==
    /\ get.pc = "stat"
    /\ \/ disk.vault = Absent /\ Return(Empty("vault"))
       \/ /\ disk.vault # Absent /\ cache.time = mtime
          /\ Return(cache.data)
       \/ /\ disk.vault # Absent /\ cache.time # mtime
          /\ get' = [get EXCEPT !.pc = "read", !.time = mtime]
    /\ UNCHANGED <<disk, mtime, work, cache, ghost>>

ReadText ==
    /\ get.pc = "read"
    /\ IF disk.vault = Torn
         THEN Return(Empty("vault"))
         ELSE get' = [get EXCEPT !.pc = "decrypt", !.text = disk.vault]
    /\ UNCHANGED <<disk, mtime, work, cache, ghost>>

(* Faulty variant: the time is asked for after the text was read.          *)
DecryptThenStat ==
    /\ get.pc = "decrypt"
    /\ \/ /\ disk.password # Absent /\ Opens(get.text, disk.password)
          /\ cache' = [time |-> mtime, data |-> get.text.data]
          /\ Return(get.text.data)
       \/ /\ disk.password = Absent \/ ~Opens(get.text, disk.password)
          /\ Return(Empty("vault"))
          /\ UNCHANGED cache
    /\ UNCHANGED <<disk, mtime, work, ghost>>

(* A VaultError is no error of the caller, who gets the default.           *)
Decrypt ==
    /\ get.pc = "decrypt"
    /\ \/ /\ disk.password # Absent /\ Opens(get.text, disk.password)
          /\ cache' = [time |-> get.time, data |-> get.text.data]
          /\ Return(get.text.data)
       \/ /\ disk.password = Absent \/ ~Opens(get.text, disk.password)
          /\ Return(Empty("vault"))
          /\ UNCHANGED cache
    /\ UNCHANGED <<disk, mtime, work, ghost>>

(* The server ends between two jobs of its own, and is started again.      *)
Restart ==
    /\ \A j \in Jobs : Working(j) => ~OnLoop(job[j].kind)
    /\ cache' = NoCache /\ get' = NoGet
    /\ UNCHANGED <<disk, mtime, work, ghost>>

-----------------------------------------------------------------------------
Step(j) ==
    \/ PutCell(j) \/ PutPrompts(j) \/ Bootstrap(j) \/ PutDefault(j)
    \/ InitVault(j) \/ SetSecret(j) \/ EditVault(j) \/ Rotate(j)
    \/ ReadPlain(j) \/ ChoosePassword(j) \/ ResolvePassword(j) \/ ReadVault(j)
    \/ Open(j) \/ Write(j) \/ Kill(j)

DocumentsNext ==
    \/ \E j \in Jobs : Step(j)
    \/ GetSecret \/ Stat \/ ReadText \/ Decrypt \/ Restart

DocumentsSpec == DocumentsInit /\ [][DocumentsNext]_documentVars

-----------------------------------------------------------------------------
(* Properties.                                                             *)

(* A document no job is at work on is what its jobs have been reported to  *)
(* make of it, and the vault can be opened with the password file, unless  *)
(* a job was killed while it wrote, or worked on the document together     *)
(* with one of another process, or left a password unsaved, or a cell with *)
(* a rating was put without one (see OnlySentKeysChange); a vault is then  *)
(* sound again after an init.                                              *)
DocumentsAreAsReported ==
    \A d \in sound :
        (\A j \in Jobs : Working(j) => MyDoc(j) # d) => Value(d, disk) = report[d]

(* put_scorecard_cell: "Either field may be omitted - only the keys you    *)
(* send are updated".  It is violated: a request with notes alone clears   *)
(* the rating.                                                             *)
OnlySentKeysChange ==
    \A j \in Jobs :
        /\ pc[j] = "done" /\ job[j].kind = "cell" /\ j \in alone
        /\ \A i \in Jobs : i > j => pc[i] = "new"
        => LET old(f) == seen[j][Cell(job[j].key, f)]
               new(f) == disk.scorecard[Cell(job[j].key, f)] IN
           /\ Has(j, "rating") \/ Has(j, "clear") \/ new("rating") = old("rating")
           /\ Has(j, "notes") \/ new("notes") = old("notes")

(* get_secret, which caches the vault by its mtime and opens it with a     *)
(* password read later, gives secrets that were in the vault while it ran, *)
(* and none only if there was a moment when the vault could not be opened: *)
(* never those of an older vault.                                          *)
SecretWasCurrent == get.pc = "idle" => get.result \in get.window

=============================================================================
