--------------------------- MODULE DocumentsProofs ---------------------------
(***************************************************************************)
(* For every number of jobs and all personas and secrets: what a server    *)
(* may learn of the vault through the cache of get_secret, whatever the    *)
(* commands do to vault and password file meanwhile; and that a document   *)
(* is what its jobs were reported to make of it.  For every number of runs *)
(* and attempts of the workflows, all commits, versions and tags: that     *)
(* what an index holds is qualified.                                       *)
(***************************************************************************)
EXTENDS Documents, Release, TLAPS

(* The state the look works on has its fields.                             *)
ShapeInv ==
    /\ {"vault", "password"} \subseteq DOMAIN disk
    /\ disk = [f \in DOMAIN disk |-> disk[f]]
    /\ mtime \in Nat \ {0}
    /\ cache = [time |-> cache.time, data |-> cache.data]
    /\ get = [pc |-> get.pc, time |-> get.time, text |-> get.text,
              window |-> get.window, result |-> get.result]

(* A cache of this time holds the vault as it is, and the password that is *)
(* on the disk or was on it opened it; none is of a time to come.          *)
CacheInv ==
    /\ cache.time \in Nat /\ cache.time <= mtime
    /\ cache.time = mtime => disk.vault \in Blob /\ cache.data = disk.vault.data

(* A look has in its window what the files say now.                        *)
WindowInv ==
    get.pc # "idle" => Views(disk.vault, disk.password) \subseteq get.window

(* The time it was told is not of the future; if it is the present one the *)
(* text is that of the file.                                               *)
TimeInv ==
    /\ get.pc \in {"read", "decrypt"} => get.time \in Nat /\ get.time <= mtime
    /\ get.pc = "decrypt" /\ get.time = mtime => get.text = disk.vault

(* A text that was read is in the window; and if it could not be opened at *)
(* some moment, so is the empty vault: a vault that another writer puts in *)
(* its place is closed by a new password like the old one.                 *)
TextInv ==
    get.pc = "decrypt" =>
        /\ get.text \in Blob => get.text.data \in get.window
        /\ \/ Empty("vault") \in get.window
           \/ Opens(get.text, disk.password) /\ Opens(disk.vault, disk.password)

LookInv == ShapeInv /\ CacheInv /\ WindowInv /\ TimeInv /\ TextInv /\ SecretWasCurrent

(* A file that cannot be opened shows the empty vault.                     *)
LEMMA ClosedShowsNothing ==
    ASSUME NEW v, NEW p, ~Opens(v, p)
    PROVE  Empty("vault") \in Views(v, p)
BY DEF Views

LEMMA BlobShowsItsData ==
    ASSUME NEW v, NEW p, v \in Blob
    PROVE  v.data \in Views(v, p)
BY DEF Views

(* Nobody seals a vault with a password that is not there.                 *)
LEMMA NobodySealsWithAbsent ==
    ASSUME NEW v, v \in Blob
    PROVE  v.by # Absent
BY ValuesAssumption, MaxJobsAssumption DEF Blob

LEMMA InitLook == DocumentsInit => LookInv
<1> SUFFICES ASSUME DocumentsInit PROVE LookInv
  OBVIOUS
<1>1. /\ get = NoGet /\ cache = NoCache /\ mtime = 1
  BY DEF DocumentsInit
<1>2. ShapeInv
  <2>1. PICK fresh \in BOOLEAN :
         disk \in [scorecard : {IF fresh THEN Absent ELSE All("scorecard", 0)},
                  prompts   : {IF fresh THEN Absent ELSE All("prompts", 0)},
                  config    : {IF fresh THEN Absent ELSE All("config", 0)},
                  vault     : {Absent, Sealed(0, All("vault", 0))},
                  password  : {Absent, 0}]
    BY DEF DocumentsInit
  <2>2. /\ {"vault", "password"} \subseteq DOMAIN disk
        /\ disk = [f \in DOMAIN disk |-> disk[f]]
    BY <2>1
  <2> QED BY <1>1, <2>2 DEF ShapeInv, NoGet, NoCache
<1> QED BY <1>1, <1>2 DEF LookInv, CacheInv, WindowInv, TimeInv, TextInv,
           SecretWasCurrent, NoGet, NoCache

(* A step that leaves the vault, its password, the cache and the look.     *)
LEMMA QuietLook ==
    ASSUME LookInv, UNCHANGED <<disk, mtime, get>>, cache' = cache \/ cache' = NoCache
    PROVE  LookInv'
<1>1. CacheInv'
  BY DEF LookInv, CacheInv, NoCache, ShapeInv
<1>2. ShapeInv'
  BY DEF LookInv, ShapeInv, NoCache
<1> QED BY <1>1, <1>2 DEF LookInv, WindowInv, TimeInv, TextInv, SecretWasCurrent

(* A file gets a new text, at a new time if it is the vault.               *)
LEMMA PutLook ==
    ASSUME LookInv, NEW f, NEW x, Put(f, x), UNCHANGED cache
    PROVE  LookInv'
<1>1. /\ disk' = [disk EXCEPT ![f] = x]
      /\ mtime' = IF f = "vault" THEN mtime + 1 ELSE mtime
      /\ get' = IF get.pc = "idle" THEN get
                ELSE [get EXCEPT !.window = @ \cup Views(disk'.vault, disk'.password)]
  BY DEF Put
<1>2. ShapeInv'
  <2>1. /\ {"vault", "password"} \subseteq DOMAIN disk'
        /\ disk' = [g \in DOMAIN disk' |-> disk'[g]]
    BY <1>1 DEF LookInv, ShapeInv
  <2>2. mtime' \in Nat \ {0} /\ cache' = [time |-> cache'.time, data |-> cache'.data]
    BY <1>1 DEF LookInv, ShapeInv
  <2>3. get' = [pc |-> get'.pc, time |-> get'.time, text |-> get'.text,
                window |-> get'.window, result |-> get'.result]
    BY <1>1 DEF LookInv, ShapeInv
  <2> QED BY <2>1, <2>2, <2>3 DEF ShapeInv
<1>3. /\ get'.pc = get.pc /\ get'.time = get.time /\ get'.text = get.text
      /\ get'.result = get.result
      /\ get.window \subseteq get'.window
      /\ get.pc # "idle" => Views(disk'.vault, disk'.password) \subseteq get'.window
      /\ get.pc = "idle" => get'.window = get.window
  BY <1>1 DEF LookInv, ShapeInv
<1>4. mtime \in Nat /\ mtime' \in Nat /\ mtime <= mtime' /\ (mtime' = mtime => disk'.vault = disk.vault)
  BY <1>1 DEF LookInv, ShapeInv
<1>5. CacheInv'
  BY <1>4 DEF LookInv, CacheInv
<1>6. WindowInv'
  BY <1>3 DEF WindowInv
<1>7. TimeInv'
  BY <1>3, <1>4 DEF LookInv, TimeInv
<1>8. TextInv'
  <2> SUFFICES ASSUME get.pc = "decrypt" PROVE TextInv'
    BY <1>3 DEF TextInv
  <2>1. get.text \in Blob => get'.text.data \in get'.window
    BY <1>3 DEF LookInv, TextInv
  <2>2. CASE Empty("vault") \in get.window
    BY <1>3, <2>1, <2>2 DEF TextInv
  <2>3. CASE Opens(get.text, disk.password) /\ Opens(disk.vault, disk.password)
    <3>1. CASE Opens(disk'.vault, disk'.password)
      <4>1. disk'.vault = disk.vault \/ disk'.password = disk.password
        BY <1>1 DEF LookInv, ShapeInv
      <4>2. disk'.password = disk.password
        BY <2>3, <3>1, <4>1 DEF Opens
      <4> QED BY <1>3, <2>1, <2>3, <3>1, <4>2 DEF TextInv
    <3>2. CASE ~Opens(disk'.vault, disk'.password)
      <4>1. Empty("vault") \in Views(disk'.vault, disk'.password)
        BY <3>2, ClosedShowsNothing
      <4> QED BY <1>3, <2>1, <4>1 DEF TextInv
    <3> QED BY <3>1, <3>2
  <2> QED BY <2>2, <2>3 DEF LookInv, TextInv
<1>9. SecretWasCurrent'
  BY <1>3 DEF LookInv, SecretWasCurrent
<1> QED BY <1>2, <1>5, <1>6, <1>7, <1>8, <1>9 DEF LookInv

(* The steps of a job put a file, or leave all the look depends on.        *)
LEMMA JobLook ==
    ASSUME LookInv, NEW j \in Jobs, Step(j)
    PROVE  LookInv'
<1>1. CASE \/ PutCell(j) \/ PutPrompts(j) \/ Bootstrap(j) \/ PutDefault(j)
           \/ InitVault(j) \/ SetSecret(j) \/ EditVault(j) \/ Rotate(j)
  <2>1. UNCHANGED <<disk, mtime, get, cache>>
    BY <1>1 DEF PutCell, PutPrompts, Bootstrap, PutDefault, InitVault, SetSecret,
                EditVault, Rotate, Begin
  <2> QED BY <2>1, QuietLook
<1>2. CASE ReadPlain(j) \/ ChoosePassword(j) \/ ResolvePassword(j) \/ ReadVault(j) \/ Kill(j)
  <2>1. UNCHANGED <<disk, mtime, get>> /\ (cache' = cache \/ cache' = NoCache)
    BY <1>2 DEF ReadPlain, ChoosePassword, ResolvePassword, ReadVault, Refuse, Kill
  <2> QED BY <2>1, QuietLook
<1>3. CASE Open(j)
  BY <1>3, PutLook DEF Open
<1>4. CASE Write(j)
  BY <1>4, PutLook DEF Write
<1> QED BY <1>1, <1>2, <1>3, <1>4 DEF Step

(* The look itself: the time first, then the text, then the password.      *)
LEMMA ServerLook ==
    ASSUME LookInv, GetSecret \/ Stat \/ ReadText \/ Decrypt
    PROVE  LookInv'
<1>1. CASE GetSecret
  <2>1. /\ get' = [NoGet EXCEPT !.pc = "stat", !.window = Views(disk.vault, disk.password)]
        /\ UNCHANGED <<disk, mtime, cache>>
    BY <1>1 DEF GetSecret
  <2>2. ShapeInv'
    BY <2>1 DEF LookInv, ShapeInv, NoGet
  <2>3. get'.pc = "stat" /\ get'.window = Views(disk.vault, disk.password)
    BY <2>1 DEF NoGet
  <2> QED BY <2>1, <2>2, <2>3 DEF LookInv, CacheInv, WindowInv, TimeInv, TextInv, SecretWasCurrent
<1>2. ASSUME NEW x, Return(x), x \in get.window, UNCHANGED <<disk, mtime>>, CacheInv',
             cache' = [time |-> cache'.time, data |-> cache'.data]
      PROVE  LookInv'
  <2>1. get' = [get EXCEPT !.pc = "idle", !.result = x]
    BY <1>2 DEF Return
  <2>2. ShapeInv'
    BY <1>2, <2>1 DEF LookInv, ShapeInv
  <2>3. get'.pc = "idle" /\ get'.result = x /\ get'.window = get.window
    BY <2>1 DEF LookInv, ShapeInv
  <2> QED BY <1>2, <2>2, <2>3 DEF LookInv, WindowInv, TimeInv, TextInv, SecretWasCurrent
<1>3. cache = [time |-> cache.time, data |-> cache.data]
  BY DEF LookInv, ShapeInv
<1>4. ASSUME UNCHANGED <<disk, mtime, cache>> PROVE CacheInv'
  BY <1>4 DEF LookInv, CacheInv
<1>5. CASE Stat
  <2>1. get.pc = "stat" /\ UNCHANGED <<disk, mtime, cache>>
    BY <1>5 DEF Stat
  <2>2. Views(disk.vault, disk.password) \subseteq get.window
    BY <2>1 DEF LookInv, WindowInv
  <2>3. CASE disk.vault = Absent /\ Return(Empty("vault"))
    <3>1. ~Opens(disk.vault, disk.password)
      BY <2>3, BlobsAssumption DEF Opens
    <3> QED BY <1>2, <1>3, <1>4, <2>1, <2>2, <2>3, <3>1, ClosedShowsNothing
  <2>4. CASE cache.time = mtime /\ Return(cache.data)
    <3>1. disk.vault \in Blob /\ cache.data = disk.vault.data
      BY <2>4 DEF LookInv, CacheInv
    <3> QED BY <1>2, <1>3, <1>4, <2>1, <2>2, <2>4, <3>1, BlobShowsItsData
  <2>5. CASE get' = [get EXCEPT !.pc = "read", !.time = mtime]
    <3>1. ShapeInv'
      BY <2>1, <2>5 DEF LookInv, ShapeInv
    <3>2. get'.pc = "read" /\ get'.time = mtime /\ get'.window = get.window
      BY <2>5 DEF LookInv, ShapeInv
    <3>3. mtime \in Nat
      BY DEF LookInv, ShapeInv
    <3> QED BY <1>4, <2>1, <2>2, <3>1, <3>2, <3>3
            DEF LookInv, WindowInv, TimeInv, TextInv, SecretWasCurrent
  <2> QED BY <1>5, <2>3, <2>4, <2>5 DEF Stat
<1>6. CASE ReadText
  <2>1. get.pc = "read" /\ UNCHANGED <<disk, mtime, cache>>
    BY <1>6 DEF ReadText
  <2>2. Views(disk.vault, disk.password) \subseteq get.window
    BY <2>1 DEF LookInv, WindowInv
  <2>3. CASE disk.vault = Torn
    <3>1. ~Opens(disk.vault, disk.password)
      BY <2>3, BlobsAssumption DEF Opens
    <3>2. Return(Empty("vault"))
      BY <1>6, <2>3 DEF ReadText
    <3> QED BY <1>2, <1>3, <1>4, <2>1, <2>2, <3>1, <3>2, ClosedShowsNothing
  <2>4. CASE disk.vault # Torn
    <3>1. get' = [get EXCEPT !.pc = "decrypt", !.text = disk.vault]
      BY <1>6, <2>4 DEF ReadText
    <3>2. ShapeInv'
      BY <2>1, <3>1 DEF LookInv, ShapeInv
    <3>3. /\ get'.pc = "decrypt" /\ get'.text = disk.vault
          /\ get'.time = get.time /\ get'.window = get.window
      BY <3>1 DEF LookInv, ShapeInv
    <3>4. get'.text \in Blob => get'.text.data \in get'.window
      BY <2>2, <3>3, BlobShowsItsData
    <3>5. Empty("vault") \in get'.window \/ Opens(disk.vault, disk.password)
      BY <2>2, <3>3, ClosedShowsNothing
    <3>6. TextInv'
      BY <2>1, <3>3, <3>4, <3>5 DEF TextInv
    <3> QED BY <1>4, <2>1, <2>2, <3>2, <3>3, <3>6
            DEF LookInv, WindowInv, TimeInv, SecretWasCurrent
  <2> QED BY <2>3, <2>4
<1>7. CASE Decrypt
  <2>1. get.pc = "decrypt" /\ UNCHANGED <<disk, mtime>>
    BY <1>7 DEF Decrypt
  <2>2. CASE /\ Opens(get.text, disk.password)
             /\ cache' = [time |-> get.time, data |-> get.text.data]
             /\ Return(get.text.data)
    <3>1. get.text \in Blob
      BY <2>2 DEF Opens
    <3>2. get.text.data \in get.window
      BY <2>1, <3>1 DEF LookInv, TextInv
    <3>3. CacheInv'
      BY <2>1, <2>2, <3>1 DEF LookInv, TimeInv, CacheInv
    <3>4. cache' = [time |-> cache'.time, data |-> cache'.data]
      BY <2>2
    <3> QED BY <1>2, <2>1, <2>2, <3>2, <3>3, <3>4
  <2>3. CASE /\ disk.password = Absent \/ ~Opens(get.text, disk.password)
             /\ Return(Empty("vault"))
             /\ UNCHANGED cache
    <3>1. ~Opens(get.text, disk.password)
      BY <2>3, NobodySealsWithAbsent DEF Opens
    <3>2. Empty("vault") \in get.window
      BY <2>1, <3>1 DEF LookInv, TextInv
    <3> QED BY <1>2, <1>3, <1>4, <2>1, <2>3, <3>2
  <2> QED BY <1>7, <2>2, <2>3 DEF Decrypt
<1> QED BY <1>1, <1>5, <1>6, <1>7

(* A new server has no cache, and has looked nothing up.                   *)
LEMMA RestartLook ==
    ASSUME LookInv, Restart
    PROVE  LookInv'
<1>1. cache' = NoCache /\ get' = NoGet /\ UNCHANGED <<disk, mtime>>
  BY DEF Restart
<1>2. ShapeInv'
  BY <1>1 DEF LookInv, ShapeInv, NoCache, NoGet
<1> QED BY <1>1, <1>2 DEF LookInv, ShapeInv, CacheInv, WindowInv, TimeInv, TextInv,
           SecretWasCurrent, NoCache, NoGet

LEMMA LookStep == LookInv /\ [DocumentsNext]_documentVars => LookInv'
<1>1. ASSUME LookInv, UNCHANGED documentVars PROVE LookInv'
  BY <1>1, QuietLook DEF documentVars
<1> QED BY <1>1, JobLook, ServerLook, RestartLook DEF DocumentsNext

(* The inductive invariant of get_secret.                                  *)
THEOREM LookInvariant == DocumentsSpec => []LookInv
BY InitLook, LookStep, PTL DEF DocumentsSpec

(* What get_secret gives was in the vault while it ran, whatever init, set,*)
(* edit and rotate do in other processes: the time is asked for first, so  *)
(* that an old text never gets a new time.  (_load_vault of                *)
(* secrets/__init__.py.)                                                   *)
THEOREM SecretsAreCurrent == DocumentsSpec => []SecretWasCurrent
BY LookInvariant, PTL DEF LookInv

-----------------------------------------------------------------------------
(* The documents.  A job that no other has disturbed has its document to   *)
(* itself, the password file included if it is the vault.                  *)

PcLabels == {"new", "password", "read", "open", "write", "refused", "done", "killed"}

Held(d)   == {Absent, Torn} \cup Doc(d)
Passwords == {Torn} \cup 0 .. MaxJobs

DocTypeInv ==
    /\ disk \in [scorecard : Held("scorecard"), prompts : Held("prompts"),
                 config : Held("config"), vault : {Absent, Torn} \cup Blob,
                 password : {Absent} \cup Passwords]
    /\ job = [j \in Jobs |-> job[j]] /\ todo = [j \in Jobs |-> todo[j]]
    /\ seen = [j \in Jobs |-> seen[j]]
    /\ pc \in [Jobs -> PcLabels] /\ pass \in [Jobs -> Passwords]
    /\ report = [d \in Docs |-> report[d]] /\ sound \in SUBSET Docs
    /\ \A d \in sound : report[d] \in Doc(d)

Sane(p) ==
    /\ p.kind \in {"cell", "block", "bootstrap", "default", "init", "set", "edit", "rotate"}
    /\ p.kind \in {"cell", "block"} => p.key \in Personas
    /\ p.kind = "default" => p.key = "default_backend"
    /\ p.kind = "set" => p.key \in Secrets

(* What a job may have to write, before and between its files.             *)
Todos(j) ==
    CASE job[j].kind = "init"   -> {<<"vault">>, <<"password", "vault">>}
      [] job[j].kind = "rotate" -> IF Has(j, "update")
                                     THEN {<<"vault", "password">>, <<"password">>}
                                     ELSE {<<"vault">>}
      [] OTHER                  -> {<<MyDoc(j)>>}

PlaceInv(j) ==
    Working(j) =>
        /\ Sane(job[j])
        /\ pc[j] = "password" => MyDoc(j) = "vault"
        /\ pc[j] = "read" => job[j].kind # "init"
        /\ pc[j] \in {"password", "read"} => todo[j] = <<MyDoc(j)>>
        /\ pc[j] \in {"open", "write"} => seen[j] \in Doc(MyDoc(j)) /\ todo[j] \in Todos(j)

RivalInv ==
    \A i, j \in Jobs : i # j /\ Working(i) /\ Working(j) =>
        /\ ~(OnLoop(job[i].kind) /\ OnLoop(job[j].kind))
        /\ MyDoc(i) = MyDoc(j) => j \notin alone /\ MyDoc(i) \notin sound

(* A sound document is built on; the password is the one on the disk, until*)
(* rotate has sealed the vault with the new one.                           *)
OwnInv(j) ==
    j \in alone /\ Working(j) =>
        /\ pc[j] \in {"open", "write"} /\ job[j].kind # "init" /\ MyDoc(j) \in sound =>
             seen[j] = report[MyDoc(j)]
        /\ pc[j] = "read" /\ MyDoc(j) = "vault" => pass[j] = disk.password
        /\ pc[j] \in {"open", "write"} /\ job[j].kind \in {"set", "edit"} =>
             pass[j] = disk.password
        /\ job[j].kind = "rotate" /\ pc[j] \in {"open", "write"} /\ todo[j] = <<"password">> =>
             disk.vault = Sealed(pass[j], seen[j])

Early(j) == pc[j] \in {"password", "read"}

SoundInv(d) ==
    d \in sound /\ (\A j \in Jobs : Working(j) /\ MyDoc(j) = d => Early(j))
      => Value(d, disk) = report[d]

DocsInv == /\ DocTypeInv /\ RivalInv
           /\ \A j \in Jobs : PlaceInv(j) /\ OwnInv(j)
           /\ \A d \in Docs : SoundInv(d)

LEMMA DocsHaveFiles == Docs = {"scorecard", "prompts", "config", "vault"}
BY DEF Docs, Plain

LEMMA SaneDoc ==
    ASSUME NEW j \in Jobs, Sane(job[j])
    PROVE  /\ MyDoc(j) \in Docs
           /\ MyDoc(j) = "vault" <=> job[j].kind \in {"init", "set", "edit", "rotate"}
           /\ MyDoc(j) = "scorecard" <=> job[j].kind = "cell"
           /\ MyDoc(j) = "prompts" <=> job[j].kind \in {"block", "bootstrap"}
           /\ MyDoc(j) = "config" <=> job[j].kind = "default"
BY DocsHaveFiles DEF Sane, MyDoc, DocOf

DocFiles(d) == IF d = "vault" THEN {"vault", "password"} ELSE {d}

(* The value of a document depends on its files only.                      *)
LEMMA ValueOfFiles ==
    ASSUME DocTypeInv, NEW d \in Docs, \A f \in DocFiles(d) : disk'[f] = disk[f]
    PROVE  Value(d, disk') = Value(d, disk)
BY DocsHaveFiles DEF DocFiles, Value

LEMMA EmptyIsADoc == \A d \in Docs : Empty(d) \in Doc(d)
BY DEF Empty, All, Doc, Values

(* What a job makes of a document is one.                                  *)
LEMMA UpdateIsADoc ==
    ASSUME NEW j \in Jobs, Sane(job[j]), NEW old \in Doc(MyDoc(j))
    PROVE  Update(j, old) \in Doc(MyDoc(j))
<1>1. j \in Values /\ Unset \in Values
  BY MaxJobsAssumption DEF Values, Jobs
<1>2. CASE job[j].kind = "cell"
  <2>1. MyDoc(j) = "scorecard" /\ job[j].key \in Personas
    BY <1>2, SaneDoc DEF Sane
  <2>2. old \in [Personas \X {"rating", "notes"} -> Values]
    BY <2>1 DEF Doc, Keys
  <2>3. Update(j, old) =
          [old EXCEPT ![Cell(job[j].key, "rating")] = IF Has(j, "rating") THEN j ELSE Unset,
                      ![Cell(job[j].key, "notes")]  = IF Has(j, "notes") THEN j ELSE @]
    BY <1>2 DEF Update
  <2>4. /\ Cell(job[j].key, "rating") \in Personas \X {"rating", "notes"}
        /\ Cell(job[j].key, "notes") \in Personas \X {"rating", "notes"}
    BY <2>1 DEF Cell
  <2>5. [old EXCEPT ![Cell(job[j].key, "rating")] = IF Has(j, "rating") THEN j ELSE Unset]
          \in [Personas \X {"rating", "notes"} -> Values]
    BY <1>1, <2>2, <2>4
  <2>6. Update(j, old) \in [Personas \X {"rating", "notes"} -> Values]
    BY <1>1, <2>3, <2>4, <2>5
  <2> QED BY <2>1, <2>6 DEF Doc, Keys
<1>3. CASE job[j].kind \in {"block", "default", "set"}
  <2>1. job[j].key \in Keys(MyDoc(j))
    BY <1>3, SaneDoc DEF Sane, Keys
  <2>2. Update(j, old) = [old EXCEPT ![job[j].key] = j]
    BY <1>3 DEF Update
  <2> QED BY <1>1, <2>1, <2>2 DEF Doc
<1>4. CASE job[j].kind = "bootstrap"
  <2>1. MyDoc(j) = "prompts" /\ old \in [Personas -> Values]
    BY <1>4, SaneDoc DEF Doc, Keys
  <2>2. Update(j, old) =
          [p \in Personas |-> IF old[p] = Unset \/ Has(j, "force") THEN j ELSE old[p]]
    BY <1>4 DEF Update
  <2> QED BY <1>1, <2>1, <2>2 DEF Doc, Keys
<1>5. CASE job[j].kind \in {"edit", "rotate", "init"}
  BY <1>1, <1>5, SaneDoc, EmptyIsADoc DEF Update, All, Doc
<1> QED BY <1>2, <1>3, <1>4, <1>5 DEF Sane

LEMMA InitDocs == DocumentsInit => DocsInv
<1> SUFFICES ASSUME DocumentsInit PROVE DocsInv
  OBVIOUS
<1>1. PICK fresh \in BOOLEAN :
         disk \in [scorecard : {IF fresh THEN Absent ELSE All("scorecard", 0)},
                  prompts   : {IF fresh THEN Absent ELSE All("prompts", 0)},
                  config    : {IF fresh THEN Absent ELSE All("config", 0)},
                  vault     : {Absent, Sealed(0, All("vault", 0))},
                  password  : {Absent, 0}]
  BY DEF DocumentsInit
<1>2. /\ \A d \in Docs : All(d, 0) \in Doc(d)
      /\ 0 \in Passwords /\ Torn \in Passwords
  BY MaxJobsAssumption DEF All, Doc, Values, Passwords
<1>3. Sealed(0, All("vault", 0)) \in Blob
  BY <1>2, DocsHaveFiles, MaxJobsAssumption DEF Sealed, Blob, Passwords
<1>4. disk \in [scorecard : Held("scorecard"), prompts : Held("prompts"),
                config : Held("config"), vault : {Absent, Torn} \cup Blob,
                password : {Absent} \cup Passwords]
  BY <1>1, <1>2, <1>3, DocsHaveFiles DEF Held
<1>5. ASSUME NEW d \in Docs, Value(d, disk) # Torn PROVE Value(d, disk) \in Doc(d)
  <2>1. CASE d = "vault"
    BY <1>4, <1>5, <2>1, EmptyIsADoc DEF Value, Opens, Blob
  <2>2. CASE d \in Plain
    BY <1>4, <1>5, <2>2, EmptyIsADoc DEF Value, Held, Plain, Docs
  <2> QED BY <2>1, <2>2 DEF Docs
<1>6. DocTypeInv
  BY <1>2, <1>4, <1>5 DEF DocumentsInit, DocTypeInv, PcLabels
<1>7. \A j \in Jobs : ~Working(j)
  BY DEF DocumentsInit, Working
<1> QED BY <1>6, <1>7 DEF DocumentsInit, DocsInv, RivalInv, PlaceInv, OwnInv, SoundInv

-----------------------------------------------------------------------------
(* A step of job k changes its own place and its own document.             *)
Frame(k) ==
    /\ Working(k) /\ job' = job /\ alone' = alone
    /\ \A j \in Jobs \ {k} : /\ pc'[j] = pc[j] /\ todo'[j] = todo[j]
                             /\ seen'[j] = seen[j] /\ pass'[j] = pass[j]
    /\ \A d \in Docs \ {MyDoc(k)} :
         /\ \A f \in DocFiles(d) : disk'[f] = disk[f]
         /\ report'[d] = report[d] /\ (d \in sound' <=> d \in sound)
    /\ MyDoc(k) \in sound' => MyDoc(k) \in sound \/ k \in alone

Kept(k) == /\ DocTypeInv' /\ Frame(k) /\ PlaceInv(k)' /\ OwnInv(k)'
           /\ \A d \in Docs : d = MyDoc(k) => SoundInv(d)'

LEMMA FrameKeeps ==
    ASSUME DocsInv, NEW k \in Jobs, Kept(k)
    PROVE  DocsInv'
<1>1. /\ Frame(k) /\ DocTypeInv' /\ DocTypeInv
      /\ \A j \in Jobs : PlaceInv(j) /\ OwnInv(j)
  BY DEF Kept, DocsInv
<1>2. /\ job' = job /\ alone' = alone
      /\ \A j \in Jobs : Working(j)' => Working(j)
      /\ \A j \in Jobs : MyDoc(j)' = MyDoc(j)
  BY <1>1 DEF Frame, Working, MyDoc
<1>3. ASSUME NEW j \in Jobs PROVE PlaceInv(j)' /\ OwnInv(j)'
  <2>1. CASE j = k
    BY <2>1 DEF Kept
  <2>2. CASE j # k
    <3>1. /\ pc'[j] = pc[j] /\ todo'[j] = todo[j] /\ seen'[j] = seen[j] /\ pass'[j] = pass[j]
          /\ (Working(j)' <=> Working(j)) /\ PlaceInv(j) /\ OwnInv(j)
      BY <1>1, <2>2 DEF Frame, Working
    <3>2. Todos(j)' = Todos(j)
      BY <1>2 DEF Todos, Has
    <3>3. PlaceInv(j)'
      BY <1>2, <3>1, <3>2 DEF PlaceInv
    <3>4. ASSUME j \in alone, Working(j)
          PROVE  LET d == MyDoc(j) IN
                   /\ \A f \in DocFiles(d) : disk'[f] = disk[f]
                   /\ report'[d] = report[d] /\ (d \in sound' <=> d \in sound)
      <4>1. MyDoc(j) # MyDoc(k)
        BY <1>1, <2>2, <3>4 DEF DocsInv, RivalInv, Frame
      <4>2. MyDoc(j) \in Docs
        BY <3>1, <3>4, SaneDoc DEF PlaceInv
      <4> QED BY <1>1, <4>1, <4>2 DEF Frame
    <3>5. Sane(job[j]) /\ job[j].kind \in {"set", "edit", "rotate"} => MyDoc(j) = "vault"
      BY SaneDoc
    <3>6. OwnInv(j)'
      BY <1>2, <3>1, <3>4, <3>5 DEF OwnInv, PlaceInv, DocFiles
    <3> QED BY <3>3, <3>6
  <2> QED BY <2>1, <2>2
<1>4. RivalInv'
  <2> SUFFICES ASSUME NEW i \in Jobs, NEW j \in Jobs, i # j, Working(i)', Working(j)'
               PROVE  /\ ~(OnLoop(job[i].kind) /\ OnLoop(job[j].kind))
                      /\ MyDoc(i) = MyDoc(j) => j \notin alone /\ MyDoc(i) \notin sound'
    BY <1>2 DEF RivalInv
  <2>1. /\ ~(OnLoop(job[i].kind) /\ OnLoop(job[j].kind))
        /\ MyDoc(i) = MyDoc(j) => j \notin alone /\ MyDoc(i) \notin sound
    BY <1>2 DEF DocsInv, RivalInv
  <2>2. ASSUME MyDoc(i) = MyDoc(j) PROVE MyDoc(i) \notin sound'
    <3>1. CASE MyDoc(i) # MyDoc(k)
      <4>1. MyDoc(i) \in Docs
        BY <1>1, <1>2, SaneDoc DEF PlaceInv
      <4> QED BY <1>1, <2>1, <2>2, <3>1, <4>1 DEF Frame
    <3>2. CASE MyDoc(i) = MyDoc(k)
      <4>1. PICK l \in {i, j} : l # k
        OBVIOUS
      <4>2. k \notin alone
        BY <1>1, <1>2, <2>2, <3>2, <4>1 DEF DocsInv, RivalInv, Frame
      <4> QED BY <1>1, <2>1, <2>2, <3>2, <4>2 DEF Frame
    <3> QED BY <3>1, <3>2
  <2> QED BY <2>1, <2>2
<1>5. ASSUME NEW d \in Docs PROVE SoundInv(d)'
  <2>1. CASE d = MyDoc(k)
    BY <2>1 DEF Kept
  <2>2. CASE d # MyDoc(k)
    <3>1. /\ Value(d, disk') = Value(d, disk)
          /\ report'[d] = report[d] /\ (d \in sound' <=> d \in sound)
      BY <1>1, <2>2, ValueOfFiles DEF Frame
    <3>2. \A j \in Jobs : MyDoc(j) = d =>
             (Working(j)' <=> Working(j)) /\ (Early(j)' <=> Early(j))
      BY <1>1, <2>2 DEF Frame, Working, Early
    <3> QED BY <1>2, <3>1, <3>2 DEF DocsInv, SoundInv
  <2> QED BY <2>1, <2>2
<1> QED BY <1>1, <1>3, <1>4, <1>5 DEF DocsInv

LEMMA EarlyIsReported ==
    ASSUME DocsInv, NEW k \in Jobs, Working(k), Early(k), MyDoc(k) \in sound
    PROVE  Value(MyDoc(k), disk) = report[MyDoc(k)]
<1>1. \A j \in Jobs : Working(j) /\ MyDoc(j) = MyDoc(k) => j = k
  BY DEF DocsInv, RivalInv
<1> QED BY <1>1, SaneDoc DEF DocsInv, SoundInv, PlaceInv

(* A step that leaves the documents and their jobs.                        *)
LEMMA QuietDocs ==
    ASSUME DocsInv, UNCHANGED <<disk, work, ghost>>
    PROVE  DocsInv'
<1>1. /\ disk' = disk /\ job' = job /\ pc' = pc /\ todo' = todo /\ seen' = seen
      /\ pass' = pass /\ alone' = alone /\ report' = report /\ sound' = sound
  BY DEF work, ghost
<1>2. DocTypeInv'
  BY <1>1 DEF DocsInv, DocTypeInv
<1>3. \A j \in Jobs : /\ (Working(j)' <=> Working(j)) /\ (Early(j)' <=> Early(j))
                      /\ MyDoc(j)' = MyDoc(j) /\ Todos(j)' = Todos(j)
  BY <1>1 DEF Working, Early, MyDoc, Todos, Has
<1>4. RivalInv'
  BY <1>1, <1>3 DEF DocsInv, RivalInv
<1>5. ASSUME NEW j \in Jobs PROVE PlaceInv(j)' /\ OwnInv(j)'
  BY <1>1, <1>3 DEF DocsInv, PlaceInv, OwnInv
<1>6. ASSUME NEW d \in Docs PROVE SoundInv(d)'
  BY <1>1, <1>3 DEF DocsInv, SoundInv
<1> QED BY <1>2, <1>4, <1>5, <1>6 DEF DocsInv

-----------------------------------------------------------------------------
(* A job that is begun disturbs those at work on its document.             *)
LEMMA BeginDocs ==
    ASSUME DocsInv, NEW k \in Jobs, NEW kind, NEW key, NEW opts,
           Sane([kind |-> kind, key |-> key, opts |-> opts]), Begin(k, kind, key, opts)
    PROVE  DocsInv'
<1> DEFINE p == [kind |-> kind, key |-> key, opts |-> opts]
           clashing == Clashing(kind)
<1>1. /\ pc[k] = "new" /\ (OnLoop(kind) => LoopFree)
      /\ job' = [job EXCEPT ![k] = p]
      /\ pc' = [pc EXCEPT ![k] = IF DocOf(kind) = "vault" THEN "password" ELSE "read"]
      /\ todo' = [todo EXCEPT ![k] = <<DocOf(kind)>>]
      /\ alone' = IF clashing = {} THEN alone ELSE alone \ (clashing \cup {k})
      /\ sound' = IF clashing = {} THEN sound ELSE sound \ {DocOf(kind)}
      /\ UNCHANGED <<disk, seen, pass, report>>
  BY DEF Begin
<1> HIDE DEF p
<1>2. /\ job'[k] = p /\ pc'[k] \in {"password", "read"} /\ todo'[k] = <<DocOf(kind)>>
      /\ pc'[k] = IF DocOf(kind) = "vault" THEN "password" ELSE "read"
      /\ \A j \in Jobs \ {k} : job'[j] = job[j] /\ pc'[j] = pc[j] /\ todo'[j] = todo[j]
  BY <1>1 DEF DocsInv, DocTypeInv
<1>3. p.kind = kind
  BY DEF p
<1>4. MyDoc(k)' = DocOf(kind) /\ \A j \in Jobs \ {k} : MyDoc(j)' = MyDoc(j)
  BY <1>2, <1>3 DEF MyDoc
<1>5. Working(k)' /\ ~Working(k) /\ \A j \in Jobs \ {k} : Working(j)' <=> Working(j)
  BY <1>1, <1>2 DEF Working
<1>6. alone' \subseteq alone /\ sound' \subseteq sound
  BY <1>1
<1>7. DocTypeInv'
  <2>1. job' = [j \in Jobs |-> job'[j]] /\ todo' = [j \in Jobs |-> todo'[j]]
    BY <1>1 DEF DocsInv, DocTypeInv
  <2>2. pc' \in [Jobs -> PcLabels]
    BY <1>1 DEF DocsInv, DocTypeInv, PcLabels
  <2> QED BY <1>1, <1>6, <2>1, <2>2 DEF DocsInv, DocTypeInv
<1>8. RivalInv'
  <2>1. ASSUME NEW i \in Jobs \ {k}, Working(i)
        PROVE  /\ ~(OnLoop(job[i].kind) /\ OnLoop(kind))
               /\ MyDoc(i) = DocOf(kind) =>
                    i \notin alone' /\ k \notin alone' /\ DocOf(kind) \notin sound'
    <3>1. ~(OnLoop(job[i].kind) /\ OnLoop(kind))
      BY <1>1, <2>1 DEF LoopFree
    <3>2. MyDoc(i) = DocOf(kind) => i \in clashing
      BY <2>1, <3>1 DEF Clashing
    <3> QED BY <1>1, <3>1, <3>2
  <2> SUFFICES ASSUME NEW i \in Jobs, NEW j \in Jobs, i # j, Working(i)', Working(j)'
               PROVE  /\ ~(OnLoop(job'[i].kind) /\ OnLoop(job'[j].kind))
                      /\ MyDoc(i)' = MyDoc(j)' => j \notin alone' /\ MyDoc(i)' \notin sound'
    BY DEF RivalInv, OnLoop
  <2>2. CASE i = k
    BY <1>2, <1>3, <1>4, <1>5, <2>1, <2>2
  <2>3. CASE j = k
    BY <1>2, <1>3, <1>4, <1>5, <2>1, <2>3
  <2>4. CASE i # k /\ j # k
    BY <1>2, <1>4, <1>5, <1>6, <2>4 DEF DocsInv, RivalInv
  <2> QED BY <2>2, <2>3, <2>4
<1>9. ASSUME NEW j \in Jobs PROVE PlaceInv(j)' /\ OwnInv(j)'
  <2>1. CASE j = k
    <3>1. PlaceInv(k)'
      <4>1. DocOf(kind) # "vault" => kind # "init"
        BY DEF DocOf
      <4> QED BY <1>2, <1>3, <1>4, <4>1 DEF PlaceInv, Sane, p
    <3>2. pc'[k] \notin {"open", "write"} /\ ~(pc'[k] = "read" /\ MyDoc(k)' = "vault")
      BY <1>2, <1>4
    <3>3. OwnInv(k)'
      BY <3>2 DEF OwnInv
    <3> QED BY <2>1, <3>1, <3>3
  <2>2. CASE j # k
    <3>1. /\ job'[j] = job[j] /\ pc'[j] = pc[j] /\ todo'[j] = todo[j]
          /\ (Working(j)' <=> Working(j)) /\ MyDoc(j)' = MyDoc(j)
          /\ PlaceInv(j) /\ OwnInv(j)
      BY <1>2, <1>4, <1>5, <2>2 DEF DocsInv
    <3>2. Todos(j)' = Todos(j)
      BY <3>1 DEF Todos, Has
    <3>3. PlaceInv(j)'
      BY <1>1, <3>1, <3>2 DEF PlaceInv
    <3>4. OwnInv(j)'
      BY <1>1, <1>6, <3>1 DEF OwnInv
    <3> QED BY <3>3, <3>4
  <2> QED BY <2>1, <2>2
<1>10. ASSUME NEW d \in Docs PROVE SoundInv(d)'
  <2> SUFFICES ASSUME d \in sound', \A j \in Jobs : Working(j)' /\ MyDoc(j)' = d => Early(j)'
               PROVE  Value(d, disk) = report[d]
    BY <1>1 DEF SoundInv
  <2>1. \A j \in Jobs : Working(j) /\ MyDoc(j) = d => Early(j)
    BY <1>2, <1>4, <1>5 DEF Early
  <2> QED BY <1>6, <2>1 DEF DocsInv, SoundInv
<1> QED BY <1>7, <1>8, <1>9, <1>10 DEF DocsInv

LEMMA StartsAreSane ==
    ASSUME DocsInv, NEW k \in Jobs,
           \/ PutCell(k) \/ PutPrompts(k) \/ Bootstrap(k) \/ PutDefault(k)
           \/ InitVault(k) \/ SetSecret(k) \/ EditVault(k) \/ Rotate(k)
    PROVE  DocsInv'
<1>1. CASE PutCell(k)
  <2>1. PICK p \in Personas, sent \in CellRequests : Begin(k, "cell", p, sent)
    BY <1>1 DEF PutCell
  <2> QED BY <2>1, BeginDocs DEF Sane
<1>2. CASE PutPrompts(k)
  <2>1. PICK p \in Personas : Begin(k, "block", p, {})
    BY <1>2 DEF PutPrompts
  <2> QED BY <2>1, BeginDocs DEF Sane
<1>3. CASE Bootstrap(k)
  BY <1>3, BeginDocs DEF Bootstrap, Sane
<1>4. CASE PutDefault(k)
  BY <1>4, BeginDocs DEF PutDefault, Sane
<1>5. CASE InitVault(k)
  BY <1>5, BeginDocs DEF InitVault, Sane
<1>6. CASE SetSecret(k)
  BY <1>6, BeginDocs DEF SetSecret, Sane
<1>7. CASE EditVault(k)
  BY <1>7, BeginDocs DEF EditVault, Sane
<1>8. CASE Rotate(k)
  BY <1>8, BeginDocs DEF Rotate, Sane
<1> QED BY <1>1, <1>2, <1>3, <1>4, <1>5, <1>6, <1>7, <1>8

-----------------------------------------------------------------------------
(* Reading.                                                                *)
LEMMA RefuseDocs ==
    ASSUME DocsInv, NEW k \in Jobs, Working(k), Early(k), Refuse(k)
    PROVE  DocsInv'
<1>1. /\ pc' = [pc EXCEPT ![k] = "refused"] /\ disk' = disk /\ job' = job /\ todo' = todo
      /\ seen' = seen /\ pass' = pass /\ alone' = alone /\ report' = report /\ sound' = sound
  BY DEF Refuse, GoesTo, ghost
<1>2. DocTypeInv'
  BY <1>1 DEF DocsInv, DocTypeInv, PcLabels
<1>3. ~Working(k)'
  BY <1>1 DEF Working, DocsInv, DocTypeInv
<1>4. Frame(k)
  BY <1>1 DEF Frame, DocsInv, DocTypeInv
<1>5. ASSUME NEW d \in Docs, d = MyDoc(k) PROVE SoundInv(d)'
  BY <1>1, <1>5, EarlyIsReported DEF SoundInv
<1> QED BY <1>2, <1>3, <1>4, <1>5, FrameKeeps DEF Kept, PlaceInv, OwnInv

(* A job goes on and has not written anything yet.                         *)
LEMMA GoOn ==
    ASSUME DocsInv, NEW k \in Jobs, Working(k), Early(k), Working(k)',
           UNCHANGED <<disk, job, ghost>>, DocTypeInv',
           \A j \in Jobs \ {k} : /\ pc'[j] = pc[j] /\ todo'[j] = todo[j]
                                 /\ seen'[j] = seen[j] /\ pass'[j] = pass[j],
           PlaceInv(k)', OwnInv(k)'
    PROVE  DocsInv'
<1>1. Frame(k)
  BY DEF Frame, ghost
<1>2. ASSUME NEW d \in Docs, d = MyDoc(k) PROVE SoundInv(d)'
  BY <1>2, EarlyIsReported DEF SoundInv, ghost
<1> QED BY <1>1, <1>2, FrameKeeps DEF Kept

LEMMA ReadPlainDocs ==
    ASSUME DocsInv, NEW k \in Jobs, ReadPlain(k)
    PROVE  DocsInv'
<1> DEFINE d == MyDoc(k)
           x == IF disk[d] \in {Absent, Torn} THEN Empty(d) ELSE disk[d]
<1>1. /\ pc[k] = "read" /\ d # "vault"
      /\ pc' = [pc EXCEPT ![k] = "open"] /\ seen' = [seen EXCEPT ![k] = x]
      /\ UNCHANGED <<disk, job, todo, pass, ghost>>
  BY DEF ReadPlain, GoesTo
<1>2. Working(k) /\ Early(k)
  BY <1>1 DEF Working, Early
<1>3. PlaceInv(k) /\ Sane(job[k]) /\ d \in Docs
  BY <1>2, SaneDoc DEF DocsInv, PlaceInv
<1>4. x \in Doc(d)
  BY <1>1, <1>3, EmptyIsADoc, DocsHaveFiles DEF DocsInv, DocTypeInv, Held
<1>5. DocTypeInv'
  BY <1>1 DEF DocsInv, DocTypeInv, PcLabels, ghost
<1>6. /\ pc'[k] = "open" /\ seen'[k] = x /\ todo'[k] = <<d>> /\ MyDoc(k)' = d
      /\ Todos(k)' = {<<d>>}
  BY <1>1, <1>3, SaneDoc DEF DocsInv, DocTypeInv, PlaceInv, Working, MyDoc, Todos
<1>7. Working(k)' /\ PlaceInv(k)'
  BY <1>1, <1>3, <1>4, <1>6 DEF Working, PlaceInv
<1>8. d \in sound => x = report[d]
  <2>1. d \in sound => Value(d, disk) = report[d] /\ report[d] \in Doc(d)
    BY <1>2, EarlyIsReported DEF DocsInv, DocTypeInv
  <2>2. Value(d, disk) = IF disk[d] = Absent THEN Empty(d) ELSE disk[d]
    BY <1>1 DEF Value
  <2> QED BY <1>3, <2>1, <2>2, DocsAssumption
<1>9. job[k].kind \notin {"set", "edit", "rotate"}
  BY <1>1, <1>3, SaneDoc
<1>10. OwnInv(k)'
  BY <1>1, <1>6, <1>8, <1>9 DEF OwnInv, ghost
<1>11. \A j \in Jobs \ {k} : /\ pc'[j] = pc[j] /\ todo'[j] = todo[j]
                             /\ seen'[j] = seen[j] /\ pass'[j] = pass[j]
  BY <1>1 DEF DocsInv, DocTypeInv
<1> QED BY <1>1, <1>2, <1>5, <1>7, <1>10, <1>11, GoOn

LEMMA ChoosePasswordDocs ==
    ASSUME DocsInv, NEW k \in Jobs, ChoosePassword(k)
    PROVE  DocsInv'
<1>1. pc[k] = "password" /\ job[k].kind = "init" /\ Working(k) /\ Early(k)
  BY DEF ChoosePassword, Working, Early
<1>2. PlaceInv(k) /\ Sane(job[k]) /\ MyDoc(k) = "vault"
  BY <1>1, SaneDoc DEF DocsInv, PlaceInv
<1>3. CASE Refuse(k)
  BY <1>1, <1>3, RefuseDocs
<1>4. CASE ~Refuse(k)
  <2>1. /\ \/ /\ disk.password # Absent /\ pass' = [pass EXCEPT ![k] = disk.password]
              /\ todo' = todo
           \/ /\ disk.password = Absent /\ pass' = [pass EXCEPT ![k] = k]
              /\ todo' = todo \/ todo' = [todo EXCEPT ![k] = <<"password", "vault">>]
        /\ seen' = [seen EXCEPT ![k] = Empty("vault")]
        /\ pc' = [pc EXCEPT ![k] = "open"]
        /\ UNCHANGED <<disk, job, ghost>>
    BY <1>4 DEF ChoosePassword, GoesTo
  <2>2. k \in Passwords /\ (disk.password # Absent => disk.password \in Passwords)
    BY MaxJobsAssumption DEF Passwords, Jobs, DocsInv, DocTypeInv
  <2>3. DocTypeInv'
    <3>1. pass' \in [Jobs -> Passwords] /\ todo' = [j \in Jobs |-> todo'[j]]
      BY <2>1, <2>2 DEF DocsInv, DocTypeInv
    <3> QED BY <2>1, <3>1 DEF DocsInv, DocTypeInv, PcLabels, ghost
  <2>4. /\ pc'[k] = "open" /\ seen'[k] = Empty("vault") /\ MyDoc(k)' = "vault"
        /\ todo'[k] \in {<<"vault">>, <<"password", "vault">>}
        /\ Todos(k)' = {<<"vault">>, <<"password", "vault">>}
    BY <1>1, <1>2, <2>1 DEF DocsInv, DocTypeInv, PlaceInv, MyDoc, Todos
  <2>5. Working(k)' /\ PlaceInv(k)' /\ OwnInv(k)'
    BY <1>1, <1>2, <2>1, <2>4, EmptyIsADoc, DocsHaveFiles DEF Working, PlaceInv, OwnInv
  <2>6. \A j \in Jobs \ {k} : /\ pc'[j] = pc[j] /\ todo'[j] = todo[j]
                              /\ seen'[j] = seen[j] /\ pass'[j] = pass[j]
    BY <2>1 DEF DocsInv, DocTypeInv
  <2> QED BY <1>1, <2>1, <2>3, <2>5, <2>6, GoOn
<1> QED BY <1>3, <1>4

LEMMA ResolvePasswordDocs ==
    ASSUME DocsInv, NEW k \in Jobs, ResolvePassword(k)
    PROVE  DocsInv'
<1>1. pc[k] = "password" /\ job[k].kind # "init" /\ Working(k) /\ Early(k)
  BY DEF ResolvePassword, Working, Early
<1>2. PlaceInv(k) /\ Sane(job[k]) /\ MyDoc(k) = "vault"
  BY <1>1, SaneDoc DEF DocsInv, PlaceInv
<1>3. CASE Refuse(k)
  BY <1>1, <1>3, RefuseDocs
<1>4. CASE ~Refuse(k)
  <2>1. /\ disk.password # Absent /\ pass' = [pass EXCEPT ![k] = disk.password]
        /\ pc' = [pc EXCEPT ![k] = "read"]
        /\ UNCHANGED <<disk, job, todo, seen, ghost>>
    BY <1>4 DEF ResolvePassword, GoesTo
  <2>2. DocTypeInv'
    BY <2>1 DEF DocsInv, DocTypeInv, PcLabels, ghost
  <2>3. pc'[k] = "read" /\ pass'[k] = disk.password /\ MyDoc(k)' = "vault"
    BY <1>2, <2>1 DEF DocsInv, DocTypeInv, MyDoc
  <2>4. Working(k)' /\ PlaceInv(k)' /\ OwnInv(k)'
    BY <1>1, <1>2, <2>1, <2>3 DEF Working, PlaceInv, OwnInv
  <2>5. \A j \in Jobs \ {k} : /\ pc'[j] = pc[j] /\ todo'[j] = todo[j]
                              /\ seen'[j] = seen[j] /\ pass'[j] = pass[j]
    BY <2>1 DEF DocsInv, DocTypeInv
  <2> QED BY <1>1, <2>1, <2>2, <2>4, <2>5, GoOn
<1> QED BY <1>3, <1>4

LEMMA ReadVaultDocs ==
    ASSUME DocsInv, NEW k \in Jobs, ReadVault(k)
    PROVE  DocsInv'
<1> DEFINE x == IF disk.vault = Absent THEN Empty("vault") ELSE disk.vault.data
<1>1. pc[k] = "read" /\ MyDoc(k) = "vault" /\ Working(k) /\ Early(k)
  BY DEF ReadVault, Working, Early
<1>2. PlaceInv(k) /\ Sane(job[k]) /\ job[k].kind \in {"set", "edit", "rotate"}
      /\ todo[k] = <<"vault">>
  BY <1>1, SaneDoc DEF DocsInv, PlaceInv
<1>3. CASE Refuse(k)
  BY <1>1, <1>3, RefuseDocs
<1>4. CASE ~Refuse(k)
  <2>1. /\ disk.vault = Absent \/ Opens(disk.vault, pass[k])
        /\ seen' = [seen EXCEPT ![k] = x]
        /\ IF job[k].kind = "rotate"
             THEN /\ pass' = [pass EXCEPT ![k] = k]
                  /\ todo' = IF Has(k, "update")
                               THEN [todo EXCEPT ![k] = <<"vault", "password">>]
                               ELSE todo
             ELSE pass' = pass /\ todo' = todo
        /\ pc' = [pc EXCEPT ![k] = "open"]
        /\ UNCHANGED <<disk, job, ghost>>
    BY <1>4 DEF ReadVault, GoesTo
  <2>2. x \in Doc("vault")
    BY <2>1, EmptyIsADoc, DocsHaveFiles DEF Opens, Blob
  <2> HIDE DEF x
  <2>3. k \in Passwords
    BY MaxJobsAssumption DEF Passwords, Jobs
  <2>4. DocTypeInv'
    BY <2>1, <2>3 DEF DocsInv, DocTypeInv, PcLabels, ghost
  <2>5. /\ pc'[k] = "open" /\ seen'[k] = x /\ MyDoc(k)' = "vault"
        /\ job[k].kind \in {"set", "edit"} => todo'[k] = <<"vault">> /\ pass'[k] = pass[k]
        /\ job[k].kind = "rotate" =>
             todo'[k] = IF Has(k, "update") THEN <<"vault", "password">> ELSE <<"vault">>
    BY <1>1, <1>2, <2>1 DEF DocsInv, DocTypeInv, MyDoc
  <2>6. todo'[k] \in Todos(k)' /\ todo'[k] # <<"password">>
    BY <1>1, <1>2, <2>1, <2>5 DEF Todos, Has, MyDoc
  <2>7. Working(k)' /\ PlaceInv(k)'
    BY <1>2, <2>1, <2>2, <2>5, <2>6 DEF Working, PlaceInv
  <2>8. ASSUME k \in alone, "vault" \in sound PROVE x = report["vault"]
    <3>1. Value("vault", disk) = report["vault"]
      BY <1>1, <2>8, EarlyIsReported
    <3>2. OwnInv(k)
      BY DEF DocsInv
    <3>3. pass[k] = disk.password
      BY <1>1, <1>2, <2>8, <3>2 DEF OwnInv
    <3> QED BY <2>1, <3>1, <3>3 DEF Value, x
  <2>9. OwnInv(k)'
    <3>2. OwnInv(k)
      BY DEF DocsInv
    <3>1. k \in alone => pass[k] = disk.password
      BY <1>1, <3>2 DEF OwnInv
    <3> QED BY <1>1, <2>1, <2>5, <2>6, <2>8, <3>1 DEF OwnInv, ghost
  <2>10. \A j \in Jobs \ {k} : /\ pc'[j] = pc[j] /\ todo'[j] = todo[j]
                               /\ seen'[j] = seen[j] /\ pass'[j] = pass[j]
    BY <2>1 DEF DocsInv, DocTypeInv
  <2> QED BY <1>1, <2>1, <2>4, <2>7, <2>9, <2>10, GoOn
<1> QED BY <1>3, <1>4

-----------------------------------------------------------------------------
(* Writing.                                                                *)
HeldBy(f) == CASE f \in Plain    -> Held(f)
               [] f = "vault"    -> {Absent, Torn} \cup Blob
               [] f = "password" -> {Absent} \cup Passwords

(* A job writes the files of its document, the last one last.              *)
LEMMA FilesOfDoc ==
    ASSUME NEW k \in Jobs, PlaceInv(k), pc[k] \in {"open", "write"}
    PROVE  /\ Head(todo[k]) \in DocFiles(MyDoc(k))
           /\ Len(todo[k]) > 1 =>
                \/ job[k].kind = "init" /\ todo[k] = <<"password", "vault">>
                \/ job[k].kind = "rotate" /\ Has(k, "update") /\ todo[k] = <<"vault", "password">>
           /\ Len(todo[k]) = 1 =>
                IF job[k].kind = "rotate" /\ Has(k, "update")
                  THEN todo[k] = <<"password">> ELSE todo[k] = <<MyDoc(k)>>
<1>1. Working(k) /\ Sane(job[k]) /\ todo[k] \in Todos(k)
  BY DEF PlaceInv, Working
<1>2. job[k].kind \in {"init", "rotate"} => MyDoc(k) = "vault"
  BY <1>1, SaneDoc
<1>3. /\ \A a : Len(<<a>>) = 1 /\ Head(<<a>>) = a
      /\ \A a, b : Len(<<a, b>>) = 2 /\ Head(<<a, b>>) = a
  OBVIOUS
<1>4. CASE job[k].kind = "init"
  <2>1. MyDoc(k) = "vault" /\ todo[k] \in {<<"vault">>, <<"password", "vault">>}
    BY <1>1, <1>2, <1>4 DEF Todos
  <2>2. CASE todo[k] = <<"vault">>
    BY <1>3, <1>4, <2>1, <2>2 DEF DocFiles
  <2>3. CASE todo[k] = <<"password", "vault">>
    BY <1>3, <1>4, <2>1, <2>3 DEF DocFiles
  <2> QED BY <2>1, <2>2, <2>3
<1>5. CASE job[k].kind = "rotate" /\ Has(k, "update")
  <2>1. MyDoc(k) = "vault" /\ todo[k] \in {<<"vault", "password">>, <<"password">>}
    BY <1>1, <1>2, <1>5 DEF Todos
  <2>2. CASE todo[k] = <<"vault", "password">>
    BY <1>3, <1>5, <2>1, <2>2 DEF DocFiles
  <2>3. CASE todo[k] = <<"password">>
    BY <1>3, <1>5, <2>1, <2>3 DEF DocFiles
  <2> QED BY <2>1, <2>2, <2>3
<1>6. CASE job[k].kind = "rotate" /\ ~Has(k, "update")
  <2>1. MyDoc(k) = "vault" /\ todo[k] = <<"vault">>
    BY <1>1, <1>2, <1>6 DEF Todos
  <2> QED BY <1>3, <1>6, <2>1 DEF DocFiles
<1>7. CASE job[k].kind \notin {"init", "rotate"}
  <2>1. todo[k] = <<MyDoc(k)>>
    BY <1>1, <1>7 DEF Todos
  <2> QED BY <1>3, <1>7, <2>1 DEF DocFiles
<1> QED BY <1>4, <1>5, <1>6, <1>7

(* What a file is given is of its type, and no other file is changed.      *)
LEMMA PutKeepsFiles ==
    ASSUME DocTypeInv, NEW d \in Docs, NEW f \in DocFiles(d), NEW x, x \in HeldBy(f), Put(f, x)
    PROVE  /\ disk' \in [scorecard : Held("scorecard"), prompts : Held("prompts"),
                         config : Held("config"), vault : {Absent, Torn} \cup Blob,
                         password : {Absent} \cup Passwords]
           /\ disk'[f] = x
           /\ \A e \in Docs \ {d} : \A g \in DocFiles(e) : disk'[g] = disk[g]
           /\ \A g \in DocFiles(d) \ {f} : disk'[g] = disk[g]
<1>1. disk' = [disk EXCEPT ![f] = x]
  BY DEF Put
<1>2. f \in {"scorecard", "prompts", "config", "vault", "password"}
  BY DocsHaveFiles DEF DocFiles
<1>3. CASE f = "scorecard"
  BY <1>1, <1>3, DocsHaveFiles DEF DocTypeInv, HeldBy, Plain, DocFiles
<1>4. CASE f = "prompts"
  BY <1>1, <1>4, DocsHaveFiles DEF DocTypeInv, HeldBy, Plain, DocFiles
<1>5. CASE f = "config"
  BY <1>1, <1>5, DocsHaveFiles DEF DocTypeInv, HeldBy, Plain, DocFiles
<1>6. CASE f = "vault"
  BY <1>1, <1>6, DocsHaveFiles DEF DocTypeInv, HeldBy, Plain, DocFiles
<1>7. CASE f = "password"
  BY <1>1, <1>7, DocsHaveFiles DEF DocTypeInv, HeldBy, Plain, DocFiles
<1> QED BY <1>2, <1>3, <1>4, <1>5, <1>6, <1>7

LEMMA OpenDocs ==
    ASSUME DocsInv, NEW k \in Jobs, Open(k)
    PROVE  DocsInv'
<1> DEFINE f == Head(todo[k])
           d == MyDoc(k)
<1>1. /\ pc[k] = "open" /\ Put(f, Torn) /\ pc' = [pc EXCEPT ![k] = "write"]
      /\ UNCHANGED <<job, todo, seen, pass, ghost>>
  BY DEF Open, GoesTo
<1>2. Working(k) /\ PlaceInv(k) /\ OwnInv(k) /\ Sane(job[k]) /\ DocTypeInv
  BY <1>1 DEF DocsInv, PlaceInv, Working
<1>3. d \in Docs /\ f \in DocFiles(d) /\ Torn \in HeldBy(f)
  BY <1>1, <1>2, SaneDoc, FilesOfDoc, DocsHaveFiles DEF HeldBy, Held, Passwords, DocFiles, Docs
<1>4. pc'[k] = "write" /\ MyDoc(k)' = MyDoc(k) /\ Todos(k)' = Todos(k)
  BY <1>1 DEF DocsInv, DocTypeInv, MyDoc, Todos, Has
<1>5. Working(k)' /\ ~Early(k)'
  BY <1>4 DEF Working, Early
<1> HIDE DEF f
<1>6. /\ DocTypeInv'
      /\ \A e \in Docs \ {d} : \A g \in DocFiles(e) : disk'[g] = disk[g]
      /\ \A g \in DocFiles(d) \ {f} : disk'[g] = disk[g]
  BY <1>1, <1>2, <1>3, PutKeepsFiles DEF DocTypeInv, PcLabels, ghost
<1>7. PlaceInv(k)'
  BY <1>1, <1>2, <1>4 DEF PlaceInv
<1>8. OwnInv(k)'
  <2>1. k \in alone /\ job[k].kind \in {"set", "edit"} => pass[k] = disk'.password
    <3>1. job[k].kind \in {"set", "edit"} =>
            todo[k] = <<"vault">> /\ "password" \in DocFiles(d) \ {"vault"}
      BY <1>1, <1>2, SaneDoc DEF PlaceInv, Todos, DocFiles
    <3>2. job[k].kind \in {"set", "edit"} => disk'.password = disk.password
      BY <1>6, <3>1 DEF f
    <3> QED BY <1>1, <1>2, <3>2 DEF OwnInv
  <2>2. k \in alone /\ job[k].kind = "rotate" /\ todo[k] = <<"password">> =>
          disk'.vault = Sealed(pass[k], seen[k])
    <3>1. job[k].kind = "rotate" /\ todo[k] = <<"password">> => disk'.vault = disk.vault
      BY <1>2, <1>6, SaneDoc DEF DocFiles, f
    <3> QED BY <1>1, <1>2, <3>1 DEF OwnInv
  <2> QED BY <1>1, <1>2, <1>4, <2>1, <2>2 DEF OwnInv, ghost
<1>9. Frame(k)
  BY <1>1, <1>2, <1>6 DEF Frame, ghost, DocTypeInv
<1>10. ASSUME NEW e \in Docs, e = d PROVE SoundInv(e)'
  BY <1>4, <1>5, <1>10 DEF SoundInv
<1> QED BY <1>6, <1>7, <1>8, <1>9, <1>10, FrameKeeps DEF Kept

LEMMA KillDocs ==
    ASSUME DocsInv, NEW k \in Jobs, Kill(k)
    PROVE  DocsInv'
<1> DEFINE d == MyDoc(k)
<1>1. /\ Working(k) /\ pc' = [pc EXCEPT ![k] = "killed"]
      /\ sound' = IF pc[k] \in {"open", "write"} THEN sound \ {d} ELSE sound
      /\ UNCHANGED <<disk, job, todo, seen, pass, alone, report>>
  BY DEF Kill, GoesTo
<1>2. DocTypeInv'
  BY <1>1 DEF DocsInv, DocTypeInv, PcLabels
<1>3. ~Working(k)'
  BY <1>1 DEF Working, DocsInv, DocTypeInv
<1>4. Frame(k)
  BY <1>1 DEF Frame, DocsInv, DocTypeInv
<1>5. ASSUME NEW e \in Docs, e = d, e \in sound' PROVE Value(e, disk) = report[e]
  <2>1. Early(k) /\ d \in sound
    BY <1>1, <1>5 DEF Working, Early
  <2> QED BY <1>1, <1>5, <2>1, EarlyIsReported
<1>6. ASSUME NEW e \in Docs, e = d PROVE SoundInv(e)'
  BY <1>1, <1>5, <1>6 DEF SoundInv
<1> QED BY <1>2, <1>3, <1>4, <1>6, FrameKeeps DEF Kept, PlaceInv, OwnInv

(* The last file of a job is written.  If the job has been alone and built *)
(* on what was sound, the document is what the job reports to have made.   *)
LEMMA WritesAreReported ==
    ASSUME DocsInv, NEW k \in Jobs, Write(k), Len(todo[k]) = 1, k \in alone, WellFounded(k)
    PROVE  /\ report[MyDoc(k)] \in Doc(MyDoc(k)) \/ job[k].kind = "init"
           /\ Value(MyDoc(k), disk') = Update(k, report[MyDoc(k)])
<1> DEFINE d == MyDoc(k)
<1>1. pc[k] = "write" /\ disk' = [disk EXCEPT ![Head(todo[k])] = Content(k)]
  BY DEF Write, Put
<1>2. Working(k) /\ PlaceInv(k) /\ OwnInv(k) /\ Sane(job[k]) /\ DocTypeInv
  BY <1>1 DEF DocsInv, PlaceInv, Working
<1>3. d \in Docs /\ seen[k] \in Doc(d) /\ Update(k, seen[k]) \in Doc(d)
  BY <1>1, <1>2, SaneDoc, UpdateIsADoc DEF PlaceInv
<1>4. /\ d \in sound => report[d] \in Doc(d)
      /\ d \in sound /\ job[k].kind # "init" => seen[k] = report[d]
  BY <1>1, <1>2 DEF DocTypeInv, OwnInv
<1>5. IF job[k].kind = "rotate" /\ Has(k, "update")
        THEN todo[k] = <<"password">> ELSE todo[k] = <<d>>
  BY <1>1, <1>2, FilesOfDoc
<1>6. \A a : Head(<<a>>) = a
  OBVIOUS
<1>7. ASSUME NEW b \in Passwords, NEW x \in Doc("vault"),
             disk'.vault = Sealed(b, x), disk'.password = b
      PROVE  Value("vault", disk') = x
  <2>1. Sealed(b, x) \in Blob /\ Sealed(b, x).by = b /\ Sealed(b, x).data = x
    BY DEF Blob, Sealed, Passwords
  <2>2. Sealed(b, x) # Absent
    BY <2>1, BlobsAssumption
  <2> QED BY <1>7, <2>1, <2>2 DEF Value, Opens
<1>8. pass[k] \in Passwords
  BY <1>2 DEF DocTypeInv
<1>9. CASE d # "vault"
  <2>1. job[k].kind \notin {"init", "rotate"} /\ d \in sound
    BY <1>2, <1>9, SaneDoc DEF WellFounded
  <2>2. Head(todo[k]) = d /\ Content(k) = Update(k, seen[k])
    BY <1>2, <1>3, <1>5, <1>6, <1>9, <2>1, DocsHaveFiles DEF Content
  <2>3. disk'[d] = Update(k, seen[k])
    BY <1>1, <1>2, <1>3, <1>9, <2>2, DocsHaveFiles DEF DocTypeInv
  <2>4. disk'[d] # Absent
    BY <1>3, <2>3, DocsAssumption
  <2>5. Value(d, disk') = Update(k, seen[k])
    BY <1>9, <2>3, <2>4 DEF Value
  <2> QED BY <1>4, <2>1, <2>5
<1>10. CASE job[k].kind \in {"init", "set", "edit"}
  <2>1. d = "vault"
    BY <1>2, <1>10, SaneDoc
  <2>2. todo[k] = <<"vault">>
    BY <1>5, <1>10, <2>1
  <2>3. Head(todo[k]) = "vault" /\ Content(k) = Sealed(pass[k], Update(k, seen[k]))
    BY <1>6, <2>2 DEF Content
  <2>4. disk'.vault = Sealed(pass[k], Update(k, seen[k])) /\ disk'.password = disk.password
    BY <1>1, <1>2, <2>3 DEF DocTypeInv
  <2>5. pass[k] = disk'.password
    BY <1>1, <1>2, <1>10, <2>4 DEF OwnInv, WellFounded
  <2>6. Value("vault", disk') = Update(k, seen[k])
    BY <1>3, <1>7, <1>8, <2>1, <2>4, <2>5
  <2>7. CASE job[k].kind = "init"
    BY <2>1, <2>6, <2>7 DEF Update
  <2>8. CASE job[k].kind # "init"
    <3>1. d \in sound
      BY <1>10, <2>8 DEF WellFounded
    <3> QED BY <1>4, <2>1, <2>6, <2>8, <3>1
  <2> QED BY <2>7, <2>8
<1>11. CASE job[k].kind = "rotate"
  <2>1. d = "vault" /\ Has(k, "update") /\ d \in sound
    BY <1>2, <1>11, SaneDoc DEF WellFounded
  <2>2. todo[k] = <<"password">>
    BY <1>5, <1>11, <2>1
  <2>3. Head(todo[k]) = "password" /\ Content(k) = pass[k]
    BY <1>6, <2>2 DEF Content
  <2>4. disk'.password = pass[k] /\ disk'.vault = disk.vault
    BY <1>1, <1>2, <2>3 DEF DocTypeInv
  <2>5. disk.vault = Sealed(pass[k], seen[k])
    BY <1>1, <1>2, <1>11, <2>2 DEF OwnInv
  <2>6. Value("vault", disk') = seen[k]
    BY <1>3, <1>7, <1>8, <2>1, <2>4, <2>5
  <2>7. Update(k, report[d]) = report[d]
    BY <1>11 DEF Update
  <2> QED BY <1>4, <1>11, <2>1, <2>6, <2>7
<1> QED BY <1>2, <1>9, <1>10, <1>11, SaneDoc

LEMMA WriteDocs ==
    ASSUME DocsInv, NEW k \in Jobs, Write(k)
    PROVE  DocsInv'
<1> DEFINE f == Head(todo[k])
           d == MyDoc(k)
<1>1. /\ pc[k] = "write" /\ Put(f, Content(k)) /\ todo' = [todo EXCEPT ![k] = Tail(@)]
      /\ UNCHANGED <<job, seen, pass, alone>>
  BY DEF Write
<1>2. Working(k) /\ PlaceInv(k) /\ OwnInv(k) /\ Sane(job[k]) /\ DocTypeInv
  BY <1>1 DEF DocsInv, PlaceInv, Working
<1>3. d \in Docs /\ f \in DocFiles(d)
  BY <1>1, <1>2, SaneDoc, FilesOfDoc
<1>4. Content(k) \in HeldBy(f)
  <2>1. Update(k, seen[k]) \in Doc(d) /\ pass[k] \in Passwords
    BY <1>1, <1>2, UpdateIsADoc DEF PlaceInv, DocTypeInv
  <2>2. CASE f = "password"
    BY <2>1, <2>2 DEF Content, HeldBy, Plain
  <2>3. CASE f = "vault"
    <3>1. d = "vault"
      BY <1>3, <2>3 DEF DocFiles
    <3>2. Sealed(pass[k], Update(k, seen[k])) \in Blob
      BY <2>1, <3>1 DEF Sealed, Blob, Passwords
    <3> QED BY <2>3, <3>2 DEF Content, HeldBy, Plain
  <2>4. CASE f \notin {"password", "vault"}
    <3>1. f = d /\ f \in Plain
      BY <1>3, <2>4 DEF DocFiles, Docs
    <3> QED BY <2>1, <2>4, <3>1 DEF Content, HeldBy, Held
  <2> QED BY <2>2, <2>3, <2>4
<1>5. MyDoc(k)' = MyDoc(k) /\ Todos(k)' = Todos(k)
  BY <1>1 DEF MyDoc, Todos, Has
<1>6. /\ disk' \in [scorecard : Held("scorecard"), prompts : Held("prompts"),
                    config : Held("config"), vault : {Absent, Torn} \cup Blob,
                    password : {Absent} \cup Passwords]
      /\ disk'[f] = Content(k)
      /\ \A e \in Docs \ {d} : \A g \in DocFiles(e) : disk'[g] = disk[g]
  BY <1>1, <1>2, <1>3, <1>4, PutKeepsFiles
<1> HIDE DEF f
<1>7. CASE Len(todo[k]) > 1
  <2>1. pc' = [pc EXCEPT ![k] = "open"] /\ UNCHANGED <<report, sound>>
    <3>1. \A n : n > 1 => n # 1
      OBVIOUS
    <3>2. Len(todo[k]) # 1
      BY <1>7, <3>1
    <3> QED BY <3>2 DEF Write, GoesTo
  <2>2. DocTypeInv'
    BY <1>1, <1>2, <1>6, <2>1 DEF DocTypeInv, PcLabels
  <2>3. pc'[k] = "open" /\ todo'[k] = Tail(todo[k]) /\ Working(k)' /\ ~Early(k)'
    BY <1>1, <1>2, <2>1 DEF DocTypeInv, Working, Early
  <2>4. \/ job[k].kind = "init" /\ todo[k] = <<"password", "vault">> /\ todo'[k] = <<"vault">>
        \/ /\ job[k].kind = "rotate" /\ Has(k, "update")
           /\ todo[k] = <<"vault", "password">> /\ todo'[k] = <<"password">>
    <3>1. \A a, b : Tail(<<a, b>>) = <<b>>
      OBVIOUS
    <3> QED BY <1>1, <1>2, <1>7, <2>3, <3>1, FilesOfDoc
  <2>5. todo'[k] \in Todos(k)'
    BY <1>5, <2>4 DEF Todos
  <2>6. PlaceInv(k)'
    BY <1>1, <1>2, <1>5, <2>3, <2>5 DEF PlaceInv
  <2>7. job[k].kind = "rotate" => disk'.vault = Sealed(pass[k], seen[k])
    <3>1. job[k].kind = "rotate" => f = "vault"
      BY <2>4 DEF f
    <3> QED BY <1>6, <3>1 DEF Content, Update, f
  <2>8. OwnInv(k)'
    BY <1>1, <1>2, <1>5, <2>1, <2>3, <2>4, <2>7 DEF OwnInv
  <2>9. Frame(k)
    BY <1>1, <1>2, <1>6, <2>1 DEF Frame, DocTypeInv
  <2>10. ASSUME NEW e \in Docs, e = d PROVE SoundInv(e)'
    BY <1>5, <2>3, <2>10 DEF SoundInv
  <2> QED BY <2>2, <2>6, <2>8, <2>9, <2>10, FrameKeeps DEF Kept
<1>8. CASE Len(todo[k]) = 1
  <2>1. /\ pc' = [pc EXCEPT ![k] = "done"]
        /\ sound' = IF k \in alone /\ WellFounded(k) THEN sound \cup {d} ELSE sound \ {d}
        /\ report' = IF d \in sound' THEN [report EXCEPT ![d] = Update(k, report[d])] ELSE report
    BY <1>8 DEF Write, GoesTo
  <2>2. d \in sound' => /\ k \in alone
                        /\ Value(d, disk') = Update(k, report[d])
                        /\ Update(k, report[d]) \in Doc(d)
    <3>1. SUFFICES ASSUME d \in sound'
                   PROVE  /\ k \in alone
                          /\ Value(d, disk') = Update(k, report[d])
                          /\ Update(k, report[d]) \in Doc(d)
      OBVIOUS
    <3>2. k \in alone /\ WellFounded(k)
      BY <2>1, <3>1
    <3>3. /\ report[d] \in Doc(d) \/ job[k].kind = "init"
          /\ Value(d, disk') = Update(k, report[d])
      BY <1>8, <3>2, WritesAreReported
    <3>4. CASE report[d] \in Doc(d)
      BY <1>2, <3>2, <3>3, <3>4, UpdateIsADoc
    <3>5. CASE job[k].kind = "init"
      BY <1>3, <3>2, <3>3, <3>5, EmptyIsADoc DEF Update
    <3> QED BY <3>3, <3>4, <3>5
  <2>3. /\ d \in sound' => report'[d] = Update(k, report[d])
        /\ \A e \in Docs \ {d} : report'[e] = report[e] /\ (e \in sound' <=> e \in sound)
        /\ report' = [e \in Docs |-> report'[e]] /\ sound' \in SUBSET Docs
    BY <1>2, <1>3, <2>1 DEF DocTypeInv
  <2>4. DocTypeInv'
    <3>1. \A e \in sound' : report'[e] \in Doc(e)
      BY <1>2, <2>2, <2>3 DEF DocTypeInv
    <3> QED BY <1>1, <1>2, <1>6, <2>1, <2>3, <3>1 DEF DocTypeInv, PcLabels
  <2>5. ~Working(k)'
    BY <1>2, <2>1 DEF DocTypeInv, Working
  <2>6. Frame(k)
    BY <1>1, <1>2, <1>6, <2>1, <2>2, <2>3 DEF Frame, DocTypeInv
  <2>7. ASSUME NEW e \in Docs, e = d PROVE SoundInv(e)'
    BY <2>2, <2>3, <2>7 DEF SoundInv
  <2> QED BY <2>4, <2>5, <2>6, <2>7, FrameKeeps DEF Kept, PlaceInv, OwnInv
<1> QED BY <1>7, <1>8 DEF Write

-----------------------------------------------------------------------------
LEMMA DocsStep == DocsInv /\ [DocumentsNext]_documentVars => DocsInv'
<1> SUFFICES ASSUME DocsInv, [DocumentsNext]_documentVars PROVE DocsInv'
  OBVIOUS
<1>1. ASSUME NEW k \in Jobs, Step(k) PROVE DocsInv'
  BY <1>1, StartsAreSane, ReadPlainDocs, ChoosePasswordDocs, ResolvePasswordDocs,
     ReadVaultDocs, OpenDocs, WriteDocs, KillDocs DEF Step
<1>2. CASE GetSecret \/ Stat \/ ReadText \/ Decrypt \/ Restart
  BY <1>2, QuietDocs DEF GetSecret, Stat, ReadText, Decrypt, Restart
<1>3. CASE UNCHANGED documentVars
  BY <1>3, QuietDocs DEF documentVars
<1> QED BY <1>1, <1>2, <1>3 DEF DocumentsNext

(* The inductive invariant of the documents: a job that no other disturbs  *)
(* works on what was reported, and holds the password that is on the disk. *)
THEOREM DocsInvariant == DocumentsSpec => []DocsInv
BY InitDocs, DocsStep, PTL DEF DocumentsSpec

(* A scorecard, the prompts, the configuration and the vault are what the  *)
(* jobs on them have been reported to make of them, and the vault opens    *)
(* with the password file, whatever else is done or killed meanwhile.      *)
THEOREM DocumentsKeepTheirReports == DocumentsSpec => []DocumentsAreAsReported
<1>1. DocsInv => DocumentsAreAsReported
  BY DEF DocsInv, DocTypeInv, SoundInv, DocumentsAreAsReported
<1> QED BY <1>1, DocsInvariant, PTL
-----------------------------------------------------------------------------
(***************************************************************************)
(* Release.                                                                *)
(***************************************************************************)
(* The fields of a run.                                                    *)
RunRecord(b) ==
    b = [sha |-> b.sha, ref |-> b.ref, event |-> b.event, after |-> b.after,
         attempt |-> b.attempt, passed |-> b.passed, at |-> b.at, clone |-> b.clone,
         expected |-> b.expected, bundle |-> b.bundle, installed |-> b.installed]

RunShape(b) == /\ RunRecord(b) /\ b.attempt \in Nat
               /\ b.attempt = 0 => b.passed = {} /\ b.at = "over"

(* Jobs pass in the order in which they need each other.                   *)
InOrder(b) == /\ "smoke" \in b.passed => "build" \in b.passed
              /\ "build" \in b.passed => "test" \in b.passed

(* The manifest that is expected is of an attempt of this run that was     *)
(* made by now, and so is its distribution, which is of the run's commit.  *)
OfTheRun(b, r) ==
    "build" \in b.passed =>
        /\ b.expected.source.attempt \in Nat /\ b.expected.source.attempt <= b.attempt
        /\ b.expected.dist.by = <<r, b.expected.source.attempt>>
        /\ b.expected.dist.commit = b.sha
        /\ b.expected.dist.version = ProjectMetadata(b.sha)

(* Once smoke has passed in the attempt that has built, it has done so on  *)
(* what was built.                                                         *)
SmokedInv(b, r) ==
    "smoke" \in b.passed /\ b.expected.source.attempt = b.attempt =>
        <<r, b.attempt, b.expected.dist>> \in smoked

(* What a run uploads was admitted.                                        *)
AdmittedInv(b, r) ==
    b.at \in {"wheel", "sdist"} =>
        /\ b.ref \in Tags /\ b.bundle.dist.commit = b.sha
        /\ b.bundle.dist.version = NormalizedVersion(b.ref)
        /\ b.bundle.dist.by = <<r, b.attempt>>
        /\ <<r, b.attempt, b.bundle.dist>> \in smoked

(* Only what was built is installed.                                       *)
InstalledInv(b) == b.at \in {"loaded", "installed"} => "build" \in b.passed

WheelIsThere(at, dist) == \E e \in index : e.at = at /\ e.file = "wheel" /\ e.dist = dist

RunInv(b, r) ==
    /\ RunShape(b) /\ InOrder(b) /\ OfTheRun(b, r) /\ SmokedInv(b, r) /\ AdmittedInv(b, r)
    /\ InstalledInv(b)
    /\ b.at = "sdist" => WheelIsThere(ReleaseDestination(b.ref), b.bundle.dist)

(* No sdist is without its wheel, and there is one wheel of a version.     *)
IndexInv ==
    /\ \A e \in index : /\ e.run \in Runs /\ run[e.run].attempt # 0
                        /\ WheelIsThere(e.at, e.dist)
    /\ \A e, f \in index : e.file = "wheel" /\ f.file = "wheel" /\ e.at = f.at
                             /\ e.dist.version = f.dist.version => e.dist = f.dist

ReleaseInv ==
    /\ run = [r \in Runs |-> run[r]]
    /\ \A r \in Runs : RunInv(run[r], r)
    /\ IndexInv /\ ReleasesAreQualified

(* What happened stays, and a run that does not move keeps its invariant.  *)
LEMMA OtherRunsKeep ==
    ASSUME NEW r \in Runs, RunInv(run[r], r), NEW b, b = run[r], run'[r] = b,
           smoked \subseteq smoked', index \subseteq index'
    PROVE  RunInv(run[r], r)'
<1>1. SmokedInv(b, r)' /\ AdmittedInv(b, r)' /\ \A at, d : WheelIsThere(at, d) => WheelIsThere(at, d)'
  BY DEF RunInv, SmokedInv, AdmittedInv, WheelIsThere
<1> QED BY <1>1 DEF RunInv, RunShape, InOrder, OfTheRun, SmokedInv, AdmittedInv,
     InstalledInv

(* A run moves, and uploads nothing.                                       *)
LEMMA RunMoves ==
    ASSUME ReleaseInv, NEW r \in Runs, NEW c, run' = [run EXCEPT ![r] = c],
           RunInv(c, r)', smoked \subseteq smoked', index' = index,
           run[r].attempt = 0 \/ (c.attempt # 0 /\ c.sha = run[r].sha /\ c.ref = run[r].ref)
    PROVE  ReleaseInv'
<1>1. run' = [q \in Runs |-> run'[q]] /\ run'[r] = c /\ \A q \in Runs \ {r} : run'[q] = run[q]
  BY DEF ReleaseInv
<1>2. ASSUME NEW q \in Runs PROVE RunInv(run[q], q)'
  <2>1. CASE q = r
    BY <1>1, <2>1
  <2>2. CASE q # r
    BY <1>1, <2>2, OtherRunsKeep DEF ReleaseInv
  <2> QED BY <2>1, <2>2
<1>3. ASSUME NEW e \in index
      PROVE  /\ e.run \in Runs /\ run'[e.run].attempt # 0
             /\ run'[e.run].sha = run[e.run].sha /\ run'[e.run].ref = run[e.run].ref
  <2>1. e.run \in Runs /\ run[e.run].attempt # 0
    BY DEF ReleaseInv, IndexInv
  <2> QED BY <1>1, <2>1
<1>4. IndexInv'
  BY <1>3 DEF ReleaseInv, IndexInv, WheelIsThere
<1>5. ReleasesAreQualified'
  BY <1>3 DEF ReleaseInv, ReleasesAreQualified, Identity
<1> QED BY <1>1, <1>2, <1>4, <1>5 DEF ReleaseInv

(* A run that has started, and what is kept of it when a job ends.         *)
LEMMA EndedFacts ==
    ASSUME NEW b, NEW at, RunRecord(b), NEW c, c = Ended(b, at)
    PROVE  /\ RunRecord(c) /\ c.at = at /\ c.sha = b.sha /\ c.ref = b.ref
           /\ c.attempt = b.attempt /\ c.passed = b.passed /\ c.expected = b.expected
<1>1. c = [sha |-> b.sha, ref |-> b.ref, event |-> b.event, after |-> b.after,
           attempt |-> b.attempt, passed |-> b.passed, at |-> at, clone |-> "none",
           expected |-> b.expected, bundle |-> NoBundle, installed |-> NoDist]
  BY DEF Ended, RunRecord
<1> QED BY <1>1 DEF RunRecord

LEMMA ReleaseInitInv == ReleaseInit => ReleaseInv
<1> SUFFICES ASSUME ReleaseInit PROVE ReleaseInv
  OBVIOUS
<1>1. run = [r \in Runs |-> NoRun] /\ index = {}
  BY DEF ReleaseInit
<1>2. \A r \in Runs : run[r] = NoRun
  BY <1>1
<1>3. \A r \in Runs : RunInv(run[r], r)
  BY <1>2 DEF NoRun, RunInv, RunRecord, RunShape, InOrder, OfTheRun, SmokedInv, AdmittedInv,
     InstalledInv
<1> QED BY <1>1, <1>3 DEF ReleaseInv, IndexInv, ReleasesAreQualified

(* Runs that start, stop, start again, clone and download.                 *)
LEMMA TriggerStep == ASSUME ReleaseInv, NEW r \in Runs, Trigger(r) PROVE ReleaseInv'
<1> DEFINE b == run[r]
<1>1. b.attempt = 0 /\ UNCHANGED <<artifacts, index, smoked>>
  BY DEF Trigger
<1>9. PICK sha \in Commits, ref \in Tags \cup {Main, Pull}, annotated \in BOOLEAN :
         run' = [run EXCEPT ![r] =
                  [@ EXCEPT !.sha = sha, !.ref = ref, !.attempt = 1, !.at = "queued",
                            !.event = IF ref = Pull THEN "pull_request" ELSE "push",
                            !.after = [commit |-> sha, annotated |-> annotated]]]
  BY DEF Trigger
<1>2. PICK event, after : /\ event = IF ref = Pull THEN "pull_request" ELSE "push"
                          /\ after = [commit |-> sha, annotated |-> annotated]
  OBVIOUS
<1>3. PICK c : c = [b EXCEPT !.sha = sha, !.ref = ref, !.attempt = 1, !.at = "queued",
                             !.event = event, !.after = after]
  OBVIOUS
<1>4. run' = [run EXCEPT ![r] = c]
  BY <1>2, <1>3, <1>9
<1>5. RunRecord(b) /\ b.passed = {}
  BY <1>1 DEF ReleaseInv, RunInv, RunShape
<1>8. RunRecord(c) /\ c.at = "queued" /\ c.passed = b.passed /\ c.attempt = 1
  BY <1>3, <1>5 DEF RunRecord
<1>6. RunShape(c) /\ c.at = "queued" /\ c.passed = {}
  BY <1>5, <1>8 DEF RunShape
<1>7. RunInv(c, r)'
  BY <1>6 DEF RunInv, InOrder, OfTheRun, SmokedInv, AdmittedInv,
     InstalledInv
<1> QED BY <1>1, <1>4, <1>7, RunMoves

(* A step of a run that changes nothing of what it has to remember.        *)
LEMMA RunGoesOn ==
    ASSUME ReleaseInv, NEW r \in Runs, NEW c, run' = [run EXCEPT ![r] = c], RunShape(c),
           run[r].attempt # 0, c.at \notin {"wheel", "sdist"},
           c.sha = run[r].sha, c.ref = run[r].ref, c.attempt = run[r].attempt,
           c.passed = run[r].passed, c.expected = run[r].expected,
           c.at \in {"loaded", "installed"} => "build" \in c.passed,
           UNCHANGED <<index, smoked>>
    PROVE  ReleaseInv'
<1>1. RunInv(run[r], r)
  BY DEF ReleaseInv
<1>2. RunInv(c, r)'
  BY <1>1 DEF RunInv, InOrder, OfTheRun, SmokedInv, AdmittedInv,
     InstalledInv
<1> QED BY <1>2, RunMoves

LEMMA StartedRun ==
    ASSUME ReleaseInv, NEW r \in Runs, run[r].at # "over"
    PROVE  run[r].attempt \in Nat \ {0} /\ RunInv(run[r], r)
BY DEF ReleaseInv, RunInv, RunShape

LEMMA FailStep == ASSUME ReleaseInv, NEW r \in Runs, Fail(r) PROVE ReleaseInv'
<1>1. PICK c : c = Ended(run[r], "over")
  OBVIOUS
<1>2. run' = [run EXCEPT ![r] = c] /\ UNCHANGED <<index, smoked>> /\ run[r].at # "over"
  BY <1>1 DEF Fail
<1>3. run[r].attempt \in Nat \ {0} /\ RunInv(run[r], r)
  BY <1>2, StartedRun
<1>4. /\ RunShape(c) /\ c.at = "over" /\ c.sha = run[r].sha /\ c.ref = run[r].ref
      /\ c.attempt = run[r].attempt /\ c.passed = run[r].passed
      /\ c.expected = run[r].expected
  BY <1>1, <1>3, EndedFacts DEF RunInv, RunShape
<1> QED BY <1>2, <1>3, <1>4, RunGoesOn

LEMMA LoadStep ==
    ASSUME ReleaseInv, NEW r \in Runs, Checkout(r) \/ Download(r) \/ Install(r)
    PROVE  ReleaseInv'
<1> DEFINE b == run[r]
<1>1. UNCHANGED <<index, smoked>> /\ b.at # "over"
  BY DEF Checkout, Download, Install
<1>2. b.attempt \in Nat \ {0} /\ RunInv(b, r) /\ RunRecord(b)
  BY <1>1, StartedRun DEF RunInv, RunShape
<1>3. ASSUME NEW c, run' = [run EXCEPT ![r] = c], RunRecord(c),
             c.at \in {"cloned", "loaded", "installed"}, c.sha = b.sha, c.ref = b.ref,
             c.attempt = b.attempt, c.passed = b.passed, c.expected = b.expected,
             c.at \in {"loaded", "installed"} => "build" \in b.passed
      PROVE  ReleaseInv'
  <2>1. RunShape(c)
    BY <1>2, <1>3 DEF RunShape
  <2> QED BY <1>1, <1>2, <1>3, <2>1, RunGoesOn
<1>4. CASE Checkout(r)
  <2>1. PICK commit \in Commits, annotated \in BOOLEAN :
           run' = [run EXCEPT ![r].at = "cloned",
                              ![r].clone = [commit |-> commit, annotated |-> annotated]]
    BY <1>4 DEF Checkout
  <2>2. PICK clone : clone = [commit |-> commit, annotated |-> annotated]
    OBVIOUS
  <2>3. PICK c : c = [b EXCEPT !.at = "cloned", !.clone = clone]
    OBVIOUS
  <2>4. run' = [run EXCEPT ![r] = c]
    BY <2>1, <2>2, <2>3 DEF ReleaseInv
  <2>5. /\ RunRecord(c) /\ c.at = "cloned" /\ c.sha = b.sha /\ c.ref = b.ref
        /\ c.attempt = b.attempt /\ c.passed = b.passed /\ c.expected = b.expected
    BY <1>2, <2>3 DEF RunRecord
  <2> QED BY <1>3, <2>4, <2>5
<1>5. CASE Download(r)
  <2>1. PICK bundle \in Downloads :
           run' = [run EXCEPT ![r].at = "loaded", ![r].bundle = bundle]
    BY <1>5 DEF Download
  <2>3. PICK c : c = [b EXCEPT !.at = "loaded", !.bundle = bundle]
    OBVIOUS
  <2>4. run' = [run EXCEPT ![r] = c]
    BY <2>1, <2>3 DEF ReleaseInv
  <2>5. /\ RunRecord(c) /\ c.at = "loaded" /\ c.sha = b.sha /\ c.ref = b.ref
        /\ c.attempt = b.attempt /\ c.passed = b.passed /\ c.expected = b.expected
    BY <1>2, <2>3 DEF RunRecord
  <2>6. "build" \in b.passed
    BY <1>5 DEF Download, JobOf
  <2> QED BY <1>3, <2>4, <2>5, <2>6
<1>6. CASE Install(r)
  <2>1. PICK installed, bundle :
           run' = [run EXCEPT ![r].at = "installed", ![r].installed = installed,
                              ![r].bundle = bundle]
    BY <1>6 DEF Install
  <2>3. PICK c : c = [b EXCEPT !.at = "installed", !.installed = installed, !.bundle = bundle]
    OBVIOUS
  <2>4. run' = [run EXCEPT ![r] = c]
    BY <2>1, <2>3 DEF ReleaseInv
  <2>5. /\ RunRecord(c) /\ c.at = "installed" /\ c.sha = b.sha /\ c.ref = b.ref
        /\ c.attempt = b.attempt /\ c.passed = b.passed /\ c.expected = b.expected
    BY <1>2, <2>3 DEF RunRecord
  <2>6. "build" \in b.passed
    BY <1>2, <1>6 DEF Install, RunInv, InstalledInv
  <2> QED BY <1>3, <2>4, <2>5, <2>6
<1> QED BY <1>4, <1>5, <1>6

(* A new attempt has built nothing yet.                                    *)
LEMMA RerunStep == ASSUME ReleaseInv, NEW r \in Runs, Rerun(r) PROVE ReleaseInv'
<1> DEFINE b == run[r]
<1>1. PICK passed \in {{}, run[r].passed} :
         run' = [run EXCEPT ![r] = [b EXCEPT !.at = "queued", !.attempt = @ + 1,
                                             !.passed = passed]]
  BY DEF Rerun
<1>9. PICK attempt : attempt = b.attempt + 1
  OBVIOUS
<1>2. PICK c : c = [b EXCEPT !.at = "queued", !.attempt = attempt, !.passed = passed]
  OBVIOUS
<1>11. UNCHANGED <<index, smoked>> /\ run = [q \in Runs |-> run[q]]
  BY DEF Rerun, ReleaseInv
<1>3. run' = [run EXCEPT ![r] = c] /\ UNCHANGED <<index, smoked>>
  BY <1>1, <1>2, <1>9, <1>11
<1>4. RunInv(b, r) /\ RunRecord(b) /\ b.attempt \in Nat
  BY DEF ReleaseInv, RunInv, RunShape
<1>10. /\ RunRecord(c) /\ c.at = "queued" /\ c.attempt = attempt /\ c.expected = b.expected
       /\ c.sha = b.sha /\ c.ref = b.ref /\ c.passed = passed
  BY <1>2, <1>4 DEF RunRecord
<1>5. /\ RunShape(c) /\ c.at = "queued" /\ c.attempt = b.attempt + 1 /\ c.attempt # 0
      /\ c.sha = b.sha /\ c.ref = b.ref /\ c.passed = passed /\ c.expected = b.expected
      /\ b.attempt \in Nat
  BY <1>4, <1>9, <1>10 DEF RunShape
<1>6. InOrder(c)
  BY <1>1, <1>4, <1>5 DEF RunInv, InOrder
<1>7. OfTheRun(c, r) /\ ("build" \in c.passed => c.expected.source.attempt # c.attempt)
  <2> SUFFICES ASSUME "build" \in c.passed
               PROVE  OfTheRun(c, r) /\ c.expected.source.attempt # c.attempt
    BY DEF OfTheRun
  <2>1. /\ b.expected.source.attempt \in Nat /\ b.expected.source.attempt <= b.attempt
        /\ b.expected.dist.by = <<r, b.expected.source.attempt>>
        /\ b.expected.dist.commit = b.sha
        /\ b.expected.dist.version = ProjectMetadata(b.sha)
    BY <1>1, <1>4, <1>5 DEF RunInv, OfTheRun
  <2>2. b.expected.source.attempt <= c.attempt /\ b.expected.source.attempt # c.attempt
    BY <1>5, <2>1
  <2> QED BY <1>5, <2>1, <2>2 DEF OfTheRun
<1>8. RunInv(c, r)'
  BY <1>5, <1>6, <1>7 DEF RunInv, InOrder, SmokedInv, AdmittedInv, InstalledInv
<1> QED BY <1>3, <1>5, <1>8, RunMoves

-----------------------------------------------------------------------------
(* The jobs.                                                               *)
LEMMA JobsInOrder ==
    ASSUME NEW r \in Runs, InOrder(run[r])
    PROVE  /\ JobOf(r) = "test" => {"build", "smoke"} \cap run[r].passed = {}
           /\ JobOf(r) = "build" => "test" \in run[r].passed /\ "build" \notin run[r].passed
                                    /\ "smoke" \notin run[r].passed
           /\ JobOf(r) = "smoke" => "build" \in run[r].passed
BY DEF JobOf, InOrder

LEMMA TestStep == ASSUME ReleaseInv, NEW r \in Runs, Test(r) PROVE ReleaseInv'
<1> DEFINE b == run[r]
<1>1. /\ b.at = "cloned" /\ JobOf(r) = "test" /\ UNCHANGED <<index, smoked>>
      /\ run' = [run EXCEPT ![r] = Ended([b EXCEPT !.passed = @ \cup {"test"}], "queued")]
  BY DEF Test, Pass
<1>2. b.attempt \in Nat \ {0} /\ RunInv(b, r) /\ RunRecord(b) /\ InOrder(b)
  BY <1>1, StartedRun DEF RunInv, RunShape
<1>3. PICK passed : passed = b.passed \cup {"test"}
  OBVIOUS
<1>4. PICK d : d = [b EXCEPT !.passed = passed]
  OBVIOUS
<1>5. PICK c : c = Ended(d, "queued")
  OBVIOUS
<1>6. run' = [run EXCEPT ![r] = c]
  BY <1>1, <1>3, <1>4, <1>5 DEF ReleaseInv
<1>7. /\ RunRecord(d) /\ d.sha = b.sha /\ d.ref = b.ref /\ d.attempt = b.attempt
      /\ d.passed = passed /\ d.expected = b.expected
  BY <1>2, <1>4 DEF RunRecord
<1>8. /\ RunRecord(c) /\ c.at = "queued" /\ c.sha = b.sha /\ c.ref = b.ref
      /\ c.attempt = b.attempt /\ c.passed = passed
  BY <1>5, <1>7, EndedFacts
<1>9. "build" \notin passed /\ "smoke" \notin passed
  BY <1>1, <1>2, <1>3, JobsInOrder
<1>10. RunInv(c, r)'
  BY <1>2, <1>8, <1>9 DEF RunInv, RunShape, InOrder, OfTheRun, SmokedInv, AdmittedInv,
     InstalledInv
<1> QED BY <1>1, <1>2, <1>6, <1>8, <1>10, RunMoves

LEMMA BuildStep == ASSUME ReleaseInv, NEW r \in Runs, Build(r) PROVE ReleaseInv'
<1> DEFINE b == run[r]
<1>1. b.at = "cloned" /\ JobOf(r) = "build" /\ UNCHANGED <<index, smoked>>
  BY DEF Build
<1>2. b.attempt \in Nat \ {0} /\ RunInv(b, r) /\ RunRecord(b) /\ InOrder(b)
  BY <1>1, StartedRun DEF RunInv, RunShape
<1>3. PICK version \in Versions :
         LET dist == [commit |-> run[r].sha, version |-> version,
                      by |-> <<r, run[r].attempt>>]
         IN  /\ DistributionFiles(dist, run[r].sha)
             /\ run' = [run EXCEPT ![r] =
                      Ended([b EXCEPT !.passed = @ \cup {"build"},
                                      !.expected = Manifest(r, dist)], "queued")]
  BY DEF Build
<1>4. PICK dist : dist = [commit |-> run[r].sha, version |-> version,
                          by |-> <<r, run[r].attempt>>]
  OBVIOUS
<1>5. PICK passed, expected : passed = b.passed \cup {"build"} /\ expected = Manifest(r, dist)
  OBVIOUS
<1>6. PICK d : d = [b EXCEPT !.passed = passed, !.expected = expected]
  OBVIOUS
<1>7. PICK c : c = Ended(d, "queued")
  OBVIOUS
<1>8. run' = [run EXCEPT ![r] = c]
  BY <1>3, <1>4, <1>5, <1>6, <1>7 DEF ReleaseInv
<1>9. /\ RunRecord(d) /\ d.sha = b.sha /\ d.ref = b.ref /\ d.attempt = b.attempt
      /\ d.passed = passed /\ d.expected = expected
  BY <1>2, <1>6 DEF RunRecord
<1>10. /\ RunRecord(c) /\ c.at = "queued" /\ c.sha = b.sha /\ c.ref = b.ref
       /\ c.attempt = b.attempt /\ c.passed = passed /\ c.expected = expected
  BY <1>7, <1>9, EndedFacts
<1>11. /\ "test" \in passed /\ "build" \in passed /\ "smoke" \notin passed
  BY <1>1, <1>2, <1>5, JobsInOrder
<1>12. /\ expected.source.attempt = b.attempt /\ expected.dist.by = <<r, b.attempt>>
       /\ expected.dist.commit = b.sha /\ expected.dist.version = ProjectMetadata(b.sha)
  BY <1>3, <1>4, <1>5 DEF Manifest, Identity, DistributionFiles
<1>13. RunInv(c, r)'
  BY <1>2, <1>10, <1>11, <1>12 DEF RunInv, RunShape, InOrder, OfTheRun, SmokedInv, AdmittedInv,
     InstalledInv
<1> QED BY <1>1, <1>2, <1>8, <1>10, <1>13, RunMoves

(* What verify_bundle leaves no doubt about.                               *)
LEMMA VerifiedBundle ==
    ASSUME NEW r \in Runs, VerifyBundle(r), RunInv(run[r], r), "build" \in run[r].passed
    PROVE  LET b == run[r] IN
           /\ b.expected.source.attempt = b.attempt /\ b.bundle.dist = b.expected.dist
           /\ b.bundle.dist.by = <<r, b.attempt>> /\ b.bundle.dist.commit = b.sha
           /\ b.bundle.dist.version = ProjectMetadata(b.sha)
<1>1. /\ run[r].bundle.manifest = run[r].expected
      /\ run[r].bundle.manifest.source = Identity(r)
      /\ run[r].bundle.manifest.dist = run[r].bundle.dist
  BY DEF VerifyBundle, Identity
<1>2. run[r].expected.source.attempt = run[r].attempt
  BY <1>1 DEF Identity
<1> QED BY <1>1, <1>2 DEF RunInv, OfTheRun

LEMMA SmokeStep == ASSUME ReleaseInv, NEW r \in Runs, Smoke(r) PROVE ReleaseInv'
<1> DEFINE b == run[r]
<1>1. /\ b.at = "installed" /\ CheckInstalled(r) /\ VerifyBundle(r) /\ index' = index
      /\ smoked' = smoked \cup {<<r, b.attempt, b.installed>>}
      /\ run' = [run EXCEPT ![r] = Ended([b EXCEPT !.passed = @ \cup {JobOf(r)}], "queued")]
  BY DEF Smoke, Pass
<1>2. b.attempt \in Nat \ {0} /\ RunInv(b, r) /\ RunRecord(b) /\ InOrder(b)
  BY <1>1, StartedRun DEF RunInv, RunShape
<1>3. PICK passed : passed = b.passed \cup {JobOf(r)}
  OBVIOUS
<1>4. PICK d : d = [b EXCEPT !.passed = passed]
  OBVIOUS
<1>5. PICK c : c = Ended(d, "queued")
  OBVIOUS
<1>6. run' = [run EXCEPT ![r] = c]
  BY <1>1, <1>3, <1>4, <1>5 DEF ReleaseInv
<1>7. /\ RunRecord(d) /\ d.sha = b.sha /\ d.ref = b.ref /\ d.attempt = b.attempt
      /\ d.passed = passed /\ d.expected = b.expected
  BY <1>2, <1>4 DEF RunRecord
<1>8. /\ RunRecord(c) /\ c.at = "queued" /\ c.sha = b.sha /\ c.ref = b.ref
      /\ c.attempt = b.attempt /\ c.passed = passed /\ c.expected = b.expected
  BY <1>5, <1>7, EndedFacts
<1>9. "build" \in b.passed /\ "test" \in b.passed
  BY <1>1, <1>2 DEF RunInv, InstalledInv, InOrder
<1>10. b.bundle.dist = b.expected.dist /\ b.installed = b.expected.dist
  BY <1>1, <1>2, <1>9, VerifiedBundle DEF CheckInstalled
<1>11. SmokedInv(c, r)'
  BY <1>1, <1>8, <1>10 DEF SmokedInv
<1>12. RunInv(c, r)'
  BY <1>2, <1>3, <1>8, <1>9, <1>11 DEF RunInv, RunShape, InOrder, OfTheRun, AdmittedInv,
     InstalledInv
<1> QED BY <1>1, <1>2, <1>6, <1>8, <1>12, RunMoves

LEMMA PublishStep ==
    ASSUME ReleaseInv, NEW r \in Runs, NEW destination, Publish(r, destination)
    PROVE  ReleaseInv'
<1> DEFINE b == run[r]
<1>1. /\ b.at = "loaded" /\ UNCHANGED <<index, smoked>>
      /\ {"test", "build", "smoke"} \subseteq b.passed /\ VerifyBundle(r)
      /\ b.ref \in Tags /\ b.event = "push"
      /\ run' = [run EXCEPT ![r].at = "wheel"]
  BY DEF Publish, PublishCheck
<1>2. b.attempt \in Nat \ {0} /\ RunInv(b, r) /\ RunRecord(b)
  BY <1>1, StartedRun DEF RunInv, RunShape
<1>3. PICK c : c = [b EXCEPT !.at = "wheel"]
  OBVIOUS
<1>4. run' = [run EXCEPT ![r] = c]
  BY <1>1, <1>3 DEF ReleaseInv
<1>5. /\ RunRecord(c) /\ c.at = "wheel" /\ c.sha = b.sha /\ c.ref = b.ref
      /\ c.attempt = b.attempt /\ c.passed = b.passed /\ c.expected = b.expected
      /\ c.bundle = b.bundle
  BY <1>2, <1>3 DEF RunRecord
<1>6. /\ b.expected.source.attempt = b.attempt /\ b.bundle.dist = b.expected.dist
      /\ b.bundle.dist.by = <<r, b.attempt>> /\ b.bundle.dist.commit = b.sha
      /\ b.bundle.dist.version = ProjectMetadata(b.sha)
  BY <1>1, <1>2, VerifiedBundle
<1>7. <<r, b.attempt, b.bundle.dist>> \in smoked
  BY <1>1, <1>2, <1>6 DEF RunInv, SmokedInv
<1>8. NormalizedVersion(b.ref) = ProjectMetadata(b.sha)
  BY <1>1, ReleaseAssumption DEF VerifyBundle, VerifySource, Identity
<1>9. AdmittedInv(c, r)'
  BY <1>1, <1>5, <1>6, <1>7, <1>8 DEF AdmittedInv
<1>10. RunInv(c, r)'
  BY <1>1, <1>2, <1>5, <1>9 DEF RunInv, RunShape, InOrder, OfTheRun, SmokedInv, InstalledInv
<1> QED BY <1>1, <1>2, <1>4, <1>5, <1>10, RunMoves

(* An index takes a wheel of a version once, and an sdist after its wheel. *)
LEMMA UploadStep == ASSUME ReleaseInv, NEW r \in Runs, Upload(r) PROVE ReleaseInv'
<1> DEFINE b == run[r]
<1>1. PICK file, here, dist :
         /\ file = (IF b.at = "wheel" THEN "wheel" ELSE "sdist")
         /\ here = ReleaseDestination(b.ref) /\ dist = b.bundle.dist
  OBVIOUS
<1>2. PICK new : new = [at |-> here, file |-> file, dist |-> dist,
                        run |-> r, attempt |-> b.attempt]
  OBVIOUS
<1>3. /\ b.at \in {"wheel", "sdist"} /\ smoked' = smoked /\ index' = index \cup {new}
      /\ \A e \in index : e.at = here /\ e.file = file /\ e.dist.version = dist.version =>
                             e.dist = dist
      /\ run' = [run EXCEPT ![r] = IF file = "wheel" THEN [b EXCEPT !.at = "sdist"]
                                   ELSE Ended(b, "over")]
  BY <1>1, <1>2 DEF Upload
<1>4. /\ b.attempt \in Nat \ {0} /\ RunInv(b, r) /\ RunRecord(b) /\ AdmittedInv(b, r)
      /\ b.ref \in Tags /\ dist.commit = b.sha /\ dist.version = NormalizedVersion(b.ref)
      /\ dist.by = <<r, b.attempt>> /\ <<r, b.attempt, dist>> \in smoked
  BY <1>1, <1>3, StartedRun DEF RunInv, RunShape, AdmittedInv
<1>5. PICK c : c = IF file = "wheel" THEN [b EXCEPT !.at = "sdist"] ELSE Ended(b, "over")
  OBVIOUS
<1>6. run' = [run EXCEPT ![r] = c]
  BY <1>3, <1>5
<1>7. /\ RunRecord(c) /\ c.sha = b.sha /\ c.ref = b.ref /\ c.attempt = b.attempt
      /\ c.passed = b.passed /\ c.expected = b.expected
      /\ c.at = (IF file = "wheel" THEN "sdist" ELSE "over")
      /\ file = "wheel" => c.bundle = b.bundle
  <2>1. CASE file = "wheel"
    <3>1. c = [b EXCEPT !.at = "sdist"]
      BY <1>5, <2>1
    <3> QED BY <1>4, <2>1, <3>1 DEF RunRecord
  <2>2. CASE file # "wheel"
    <3>1. c = Ended(b, "over")
      BY <1>5, <2>2
    <3> QED BY <1>4, <2>2, <3>1, EndedFacts
  <2> QED BY <2>1, <2>2
<1>8. WheelIsThere(here, dist)' /\ \A at, d : WheelIsThere(at, d) => WheelIsThere(at, d)'
  <2>1. CASE file = "wheel"
    BY <1>2, <1>3, <2>1 DEF WheelIsThere
  <2>2. CASE file # "wheel"
    <3>1. b.at = "sdist"
      BY <1>1, <1>3, <2>2
    <3>2. WheelIsThere(here, dist)
      BY <1>1, <1>4, <3>1 DEF RunInv
    <3> QED BY <1>3, <3>2 DEF WheelIsThere
  <2> QED BY <2>1, <2>2
<1>9. RunInv(c, r)'
  <2>1. AdmittedInv(c, r)'
    BY <1>1, <1>3, <1>4, <1>7 DEF AdmittedInv
  <2>2. c.at = "sdist" => WheelIsThere(ReleaseDestination(c.ref), c.bundle.dist)'
    BY <1>1, <1>7, <1>8
  <2> QED BY <1>3, <1>4, <1>7, <2>1, <2>2
          DEF RunInv, RunShape, InOrder, OfTheRun, SmokedInv, InstalledInv
<1>10. /\ run' = [q \in Runs |-> run'[q]] /\ run'[r] = c
       /\ \A q \in Runs \ {r} : run'[q] = run[q]
  BY <1>6 DEF ReleaseInv
<1>11. ASSUME NEW q \in Runs PROVE RunInv(run[q], q)'
  <2>1. CASE q = r
    BY <1>9, <1>10, <2>1
  <2>2. CASE q # r
    BY <1>3, <1>10, <2>2, OtherRunsKeep DEF ReleaseInv
  <2> QED BY <2>1, <2>2
<1>12. ASSUME NEW e \in index
       PROVE  /\ e.run \in Runs /\ run'[e.run].attempt # 0 /\ WheelIsThere(e.at, e.dist)'
              /\ run'[e.run].sha = run[e.run].sha /\ run'[e.run].ref = run[e.run].ref
  <2>1. e.run \in Runs /\ run[e.run].attempt # 0 /\ WheelIsThere(e.at, e.dist)
    BY DEF ReleaseInv, IndexInv
  <2> QED BY <1>7, <1>8, <1>10, <2>1
<1>13. /\ new.run = r /\ new.attempt = b.attempt /\ new.at = here /\ new.dist = dist
       /\ new.file = file
  BY <1>2
<1>14. ASSUME NEW e \in index', NEW f \in index', e.file = "wheel", f.file = "wheel",
              e.at = f.at, e.dist.version = f.dist.version
       PROVE  e.dist = f.dist
  BY <1>3, <1>13, <1>14 DEF ReleaseInv, IndexInv
<1>15. ASSUME NEW e \in index'
       PROVE  e.run \in Runs /\ run'[e.run].attempt # 0 /\ WheelIsThere(e.at, e.dist)'
  <2>1. CASE e \in index
    BY <1>12, <2>1
  <2>2. CASE e = new
    BY <1>4, <1>7, <1>8, <1>10, <1>13, <2>2
  <2> QED BY <1>3, <2>1, <2>2
<1>16. IndexInv'
  BY <1>14, <1>15 DEF IndexInv
<1>17. ASSUME NEW e \in index', NEW f \in index', e.at = f.at, e.dist.version = f.dist.version
       PROVE  e.dist = f.dist
  <2>1. PICK x \in index' : x.at = e.at /\ x.file = "wheel" /\ x.dist = e.dist
    BY <1>15 DEF WheelIsThere
  <2>2. PICK y \in index' : y.at = f.at /\ y.file = "wheel" /\ y.dist = f.dist
    BY <1>15 DEF WheelIsThere
  <2> QED BY <1>14, <1>17, <2>1, <2>2
<1>18. ASSUME NEW e \in index'
       PROVE  LET source == Identity(e.run)' IN
              /\ source.ref \in Tags /\ e.dist.commit = source.sha
              /\ e.dist.version = NormalizedVersion(source.ref)
              /\ e.at = ReleaseDestination(source.ref)
              /\ e.dist.by = <<e.run, e.attempt>>
              /\ <<e.run, e.attempt, e.dist>> \in smoked'
  <2>1. CASE e \in index
    BY <1>3, <1>12, <2>1 DEF ReleaseInv, ReleasesAreQualified, Identity
  <2>2. CASE e = new
    BY <1>1, <1>3, <1>4, <1>7, <1>10, <1>13, <2>2 DEF Identity
  <2> QED BY <1>3, <2>1, <2>2
<1>19. ReleasesAreQualified'
  BY <1>17, <1>18 DEF ReleasesAreQualified
<1> QED BY <1>10, <1>11, <1>16, <1>19 DEF ReleaseInv

LEMMA ReleaseStep == ReleaseInv /\ [ReleaseNext]_releaseVars => ReleaseInv'
<1>1. ASSUME ReleaseInv, NEW r \in Runs,
             \/ Trigger(r) \/ Checkout(r) \/ Fail(r) \/ Rerun(r) \/ Test(r) \/ Build(r)
             \/ Download(r) \/ Install(r) \/ Smoke(r)
             \/ (\E d \in {"pypi", "testpypi"} : Publish(r, d)) \/ Upload(r)
      PROVE  ReleaseInv'
  BY <1>1, TriggerStep, FailStep, LoadStep, RerunStep, TestStep, BuildStep, SmokeStep,
     PublishStep, UploadStep
<1>2. ASSUME ReleaseInv, UNCHANGED releaseVars PROVE ReleaseInv'
  BY <1>2 DEF releaseVars, ReleaseInv, RunInv, SmokedInv, AdmittedInv, WheelIsThere, IndexInv,
              ReleasesAreQualified, Identity, RunShape, InOrder, OfTheRun, InstalledInv
<1> QED BY <1>1, <1>2 DEF ReleaseNext

(* What the workflows remember from job to job is enough: a manifest whose *)
(* attempt is that of the run was built, and if its smoke has passed,      *)
(* smoked, in this attempt.  (scripts/release_artifacts.py, verify_bundle.)*)
THEOREM ReleaseInvariant == ReleaseSpec => []ReleaseInv
BY ReleaseInitInv, ReleaseStep, PTL DEF ReleaseSpec

(* However runs are repeated, refs moved and downloads mixed up, what an   *)
(* index holds was built of the commit of its tag, by the attempt that has *)
(* tested and installed these very bytes, and published them where the tag *)
(* says; and the files of a version are of one build.                      *)
(* (publish_check of scripts/release_artifacts.py, publish.yml.)           *)
THEOREM ReleasesQualify == ReleaseSpec => []ReleasesAreQualified
<1>1. ReleaseInv => ReleasesAreQualified
  BY DEF ReleaseInv
<1> QED BY <1>1, ReleaseInvariant, PTL
=============================================================================
