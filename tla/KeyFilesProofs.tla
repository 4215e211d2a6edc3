---------------------------- MODULE KeyFilesProofs ----------------------------
(***************************************************************************)
(* Proofs about KeyFiles, for any runs, keys and passphrases: where one    *)
(* machine makes no two first runs, and no two seals, at the same time, no *)
(* key that may hold money is ever lost.  The invariant says what each run *)
(* may count on of the two files, given the step it is at.                 *)
(***************************************************************************)
EXTENDS KeyFiles, FiniteSetTheorems, TLAPS

Creating == {"create", "write"}
Sealing == {"seal", "write seal", "verify", "rename"}
Opened == Sealing \cup {"using"}

\* There is a key in the key file.
Settled == Exists("key") /\ File("key").kind # "torn"

\* What a run at its step may count on.
CountsOn(r) ==
    /\ r.pc = "create" => ~Exists("key")
    /\ r.pc = "write" => Exists("key") /\ r.inode = at["key"] /\ File("key").kind = "torn"
    /\ r.pc \in Opened => Settled /\ File("key").key = r.key
    /\ r.pc \in Sealing => File("key").kind = "plain" /\ r.pass \in Passphrases
    /\ r.pc = "write seal" => Exists("sealing") /\ r.inode = at["sealing"]
    /\ r.pc \in {"verify", "rename"} => Exists("sealing") /\ File("sealing") = seal(r)

\* What the files, and those who were told of them, may count on.
FilesKeep ==
    /\ Exists("sealing") => at["sealing"] # at["key"] /\ File("sealing").kind # "plain"
    /\ relied # {} => Settled /\ relied = {File("key").key}
    /\ told # "none" => Settled /\ File("key").kind = "sealed"
    /\ Settled /\ File("key").kind = "sealed" => File("key").pass = told

OneAtATime ==
    \A p, q \in Processes :
        \/ runs[p].pc \in Creating /\ runs[q].pc \in Creating
        \/ runs[p].pc \in Sealing /\ runs[q].pc \in Sealing
        => p = q

IInv ==
    /\ TypeOK
    /\ FilesKeep
    /\ OneAtATime
    /\ \A p \in Processes : CountsOn(runs[p])

-------------------------------------------------------------------------------
\* Records

\* What a file may hold, by its kind.
LEMMA ContentFacts ==
    ASSUME NEW c \in Contents
    PROVE  /\ c.kind \in {"torn", "plain", "sealed"}
           /\ c.kind # "torn" => c.key \in Keys
           /\ c.kind = "plain" => c = Plain(c.key)
           /\ c.kind = "sealed" => c.pass \in Passphrases /\ c = Sealed(c.key, c.pass)
  <1>1. CASE c = Torn
    BY <1>1 DEF Torn
  <1>2. ASSUME NEW k \in Keys, c = Plain(k) PROVE c.kind = "plain" /\ c.key \in Keys /\ c = Plain(c.key)
    BY <1>2 DEF Plain
  <1>3. ASSUME NEW k \in Keys, NEW w \in Passphrases, c = Sealed(k, w)
        PROVE  /\ c.kind = "sealed" /\ c.key \in Keys /\ c.pass \in Passphrases
               /\ c = Sealed(c.key, c.pass)
    BY <1>3 DEF Sealed
  <1>4. c = Torn \/ (\E k \in Keys : c = Plain(k)) \/ \E k \in Keys, w \in Passphrases : c = Sealed(k, w)
    BY DEF Contents
  <1>5. QED
    BY <1>1, <1>2, <1>3, <1>4

\* Each content is of its kind.
LEMMA KindFacts ==
    /\ Torn \in Contents /\ Torn.kind = "torn"
    /\ \A k \in Keys : Plain(k) \in Contents /\ Plain(k).kind = "plain" /\ Plain(k).key = k
    /\ \A k \in Keys, w \in Passphrases :
          /\ Sealed(k, w) \in Contents /\ Sealed(k, w).kind = "sealed"
          /\ Sealed(k, w).key = k /\ Sealed(k, w).pass = w
  <1>1. Torn.kind = "torn"
    BY DEF Torn
  <1>2. \A k \in Keys : Plain(k).kind = "plain" /\ Plain(k).key = k
    BY DEF Plain
  <1>3. \A k \in Keys, w \in Passphrases :
            Sealed(k, w).kind = "sealed" /\ Sealed(k, w).key = k /\ Sealed(k, w).pass = w
    BY DEF Sealed
  <1>4. /\ Torn \in Contents /\ \A k \in Keys : Plain(k) \in Contents
        /\ \A k \in Keys, w \in Passphrases : Sealed(k, w) \in Contents
    BY DEF Contents
  <1>5. QED
    BY <1>1, <1>2, <1>3, <1>4

\* A run that is at a step has a key; nobody is at none.
LEMMA RunFacts ==
    ASSUME NEW r \in Run
    PROVE  /\ r.pc \in Steps \/ r = Nobody
           /\ r.pc \in Steps => r \in [pc : Steps, key : Keys, pass : Passphrases \cup {"none"},
                                       inode : Inodes \cup {NoFile}]
  <1> DEFINE Busily == [pc : Steps, key : Keys, pass : Passphrases \cup {"none"},
                        inode : Inodes \cup {NoFile}]
  <1>1. r = Nobody \/ r \in Busily
    BY DEF Run
  <1>2. CASE r = Nobody
    BY <1>2 DEF Nobody, Steps
  <1>3. CASE r \in Busily
    BY <1>3
  <1>4. QED
    BY <1>1, <1>2, <1>3

\* Nobody is a run that is at no step.
LEMMA NobodyFacts == Nobody \in Run /\ Nobody.pc = "idle"
  BY DEF Run, Nobody

\* The steps, told apart.
LEMMA StepFacts ==
    /\ Steps = Creating \cup Opened /\ Creating \cap Opened = {}
    /\ "idle" \notin Steps
  BY DEF Steps, Creating, Opened, Sealing

\* A run that goes on leaves the others where they are.
LEMMA GoFacts ==
    ASSUME TypeOK, NEW p \in Processes, NEW r \in Run, Go(p, r)
    PROVE  /\ runs' \in [Processes -> Run]
           /\ runs'[p] = r /\ \A q \in Processes \ {p} : runs'[q] = runs[q]
  BY DEF TypeOK, Go

\* One at a time, if the run that moves is the one, or there was none.
LEMMA OneAtATimeStep ==
    ASSUME TypeOK, OneAtATime, NEW p \in Processes, NEW r \in Run, Go(p, r),
           r.pc \in Creating =>
               runs[p].pc \in Creating \/ \A q \in Processes : runs[q].pc \notin Creating,
           r.pc \in Sealing =>
               runs[p].pc \in Sealing \/ \A q \in Processes : runs[q].pc \notin Sealing
    PROVE  OneAtATime'
  BY GoFacts DEF OneAtATime

\* What is counted on depends on the files alone.
LEMMA FilesAlone ==
    ASSUME UNCHANGED <<at, disk>>
    PROVE  /\ \A r : CountsOn(r)' <=> CountsOn(r)
           /\ UNCHANGED <<relied, told>> => (FilesKeep' <=> FilesKeep)
  BY DEF CountsOn, FilesKeep, Settled, Exists, File

\* The files on disk are of their type.
LEMMA FileType ==
    ASSUME TypeOK
    PROVE  \A name \in {"key", "sealing"} :
               Exists(name) => at[name] \in DOMAIN disk /\ File(name) \in Contents
  BY DEF TypeOK, File

\* A run that goes on, and leaves the files as they are.
LEMMA RunStep ==
    ASSUME IInv, NEW p \in Processes, NEW r \in Run, Go(p, r),
           UNCHANGED <<at, disk, told>>, relied' \subseteq Keys,
           CountsOn(r), relied' = relied \/ (Settled /\ relied' = {File("key").key}),
           r.pc \in Creating =>
               runs[p].pc \in Creating \/ \A q \in Processes : runs[q].pc \notin Creating,
           r.pc \in Sealing =>
               runs[p].pc \in Sealing \/ \A q \in Processes : runs[q].pc \notin Sealing
    PROVE  IInv'
  <1>1. TypeOK'
    <2>1. runs' \in [Processes -> Run]
      BY GoFacts DEF IInv
    <2>2. QED
      BY <2>1 DEF IInv, TypeOK, Exists
  <1>2. FilesKeep'
    BY DEF IInv, FilesKeep, Settled, Exists, File
  <1>3. OneAtATime'
    BY OneAtATimeStep DEF IInv
  <1>4. ASSUME NEW q \in Processes PROVE CountsOn(runs[q])'
    <2>1. CountsOn(runs'[q])
      BY GoFacts DEF IInv
    <2>2. QED
      BY <2>1, FilesAlone
  <1>5. QED
    BY <1>1, <1>2, <1>3, <1>4 DEF IInv

-------------------------------------------------------------------------------
\* Steps that leave the files as they are

\* The key a file opens to is the one that is in it.
LEMMA UnsealFacts ==
    ASSUME NEW c \in Contents, NEW w, NEW k \in unseal(c, w)
    PROVE  c.kind \in {"plain", "sealed"} /\ k = c.key /\ k \in Keys
  BY ContentFacts DEF unseal

\* A run that has read or made a key is at its step with it.
LEMMA WorkingFacts ==
    \A step \in Steps, k \in Keys, w \in Passphrases \cup {"none"} :
        /\ Working(step, k, w) \in Run
        /\ Working(step, k, w).pc = step /\ Working(step, k, w).key = k
        /\ Working(step, k, w).pass = w
  BY DEF Working, Run

\* The first run starts only while nobody else does.
LEMMA LoadStep ==
    ASSUME IInv, ~FirstRunsOverlap, NEW p \in Processes, load_or_create_key_at(p)
    PROVE  IInv'
  <1>1. UNCHANGED <<at, disk, relied, told>> /\ relied \subseteq Keys
    BY DEF load_or_create_key_at, IInv, TypeOK
  <1>2. ASSUME ~Exists("key"), ~Busy({"create", "write"}),
               NEW k \in Keys, Go(p, Working("create", k, "none"))
        PROVE  IInv'
    <2> DEFINE r == Working("create", k, "none")
    <2>1. r \in Run /\ r.pc = "create"
      <3>1. "create" \in Steps /\ "none" \in Passphrases \cup {"none"}
        BY DEF Steps
      <3>2. QED
        BY <3>1, WorkingFacts
    <2> HIDE DEF r
    <2>2. CountsOn(r) /\ r.pc \notin Sealing
      BY <1>2, <2>1 DEF CountsOn, Opened, Sealing
    <2>3. \A q \in Processes : runs[q].pc \notin Creating
      BY <1>2 DEF Busy, Creating
    <2>4. Go(p, r)
      BY <1>2 DEF r
    <2>5. QED
      BY <1>1, <2>1, <2>2, <2>3, <2>4, RunStep
  <1>3. ASSUME Exists("key"), NEW pass, NEW k \in unseal(File("key"), pass),
               Go(p, Working("using", k, "none"))
        PROVE  IInv'
    <2> DEFINE r == Working("using", k, "none")
    <2>1. File("key").kind \in {"plain", "sealed"} /\ k = File("key").key /\ k \in Keys
      BY <1>3, FileType, UnsealFacts DEF IInv
    <2>2. r \in Run /\ r.pc = "using" /\ r.key = k
      <3>1. "using" \in Steps /\ "none" \in Passphrases \cup {"none"}
        BY DEF Steps
      <3>2. QED
        BY <2>1, <3>1, WorkingFacts
    <2> HIDE DEF r
    <2>3. CountsOn(r) /\ r.pc \notin Sealing /\ r.pc \notin Creating
      BY <1>3, <2>1, <2>2 DEF CountsOn, Settled, Opened, Sealing, Creating
    <2>4. Go(p, r)
      BY <1>3 DEF r
    <2>5. QED
      BY <1>1, <2>2, <2>3, <2>4, RunStep
  <1>4. QED
    BY <1>2, <1>3 DEF load_or_create_key_at, FirstRun

\* What a run relies on is what is in the file.
LEMMA UseStep ==
    ASSUME IInv, NEW p \in Processes, Use(p)
    PROVE  IInv'
  <1>1. runs[p].pc = "using" /\ Go(p, Nobody) /\ UNCHANGED <<at, disk, told>>
        /\ relied' = relied \cup {runs[p].key}
    BY DEF Use, At
  <1>2. Settled /\ File("key").key = runs[p].key
    BY <1>1 DEF IInv, CountsOn, Opened
  <1>3. relied' = {File("key").key}
    BY <1>1, <1>2 DEF IInv, FilesKeep
  <1>4. relied' \subseteq Keys
    BY <1>2, <1>3, FileType, ContentFacts DEF IInv, Settled
  <1>5. CountsOn(Nobody) /\ Nobody.pc \notin Creating /\ Nobody.pc \notin Sealing
    BY NobodyFacts DEF CountsOn, Opened, Sealing, Creating
  <1>6. QED
    BY <1>1, <1>2, <1>3, <1>4, <1>5, NobodyFacts, RunStep

\* A seal starts only on a plaintext key, and only while no other does.
LEMMA StartSealStep ==
    ASSUME IInv, ~SealsOverlap, NEW p \in Processes, StartSeal(p)
    PROVE  IInv'
  <1>1. /\ UNCHANGED <<at, disk, relied, told>> /\ relied \subseteq Keys
        /\ Exists("key") /\ File("key").kind = "plain"
        /\ \A q \in Processes : runs[q].pc \notin Sealing
    BY DEF StartSeal, IInv, TypeOK, Busy, Sealing
  <1>2. PICK pass \in Passphrases : Go(p, Working("seal", File("key").key, pass))
    BY DEF StartSeal
  <1> DEFINE r == Working("seal", File("key").key, pass)
  <1>3. r \in Run /\ r.pc = "seal" /\ r.key = File("key").key /\ r.pass = pass
    <2>1. "seal" \in Steps
      BY DEF Steps
    <2>2. File("key").key \in Keys
      BY <1>1, FileType, ContentFacts DEF IInv
    <2>3. QED
      BY <2>1, <2>2, WorkingFacts
  <1>4. Go(p, r)
    BY <1>2
  <1> HIDE DEF r
  <1>5. CountsOn(r) /\ r.pc \notin Creating
    BY <1>1, <1>3 DEF CountsOn, Settled, Creating, Opened, Sealing
  <1>6. QED
    BY <1>1, <1>3, <1>4, <1>5, RunStep

\* The file beside the key opens to the key that was sealed.
LEMMA VerifyStep ==
    ASSUME IInv, NEW p \in Processes, Verify(p)
    PROVE  IInv'
  <1>1. runs[p] \in Run /\ runs[p].pc = "verify" /\ CountsOn(runs[p])
    BY DEF IInv, TypeOK, Verify, At
  <1>2. /\ Exists("sealing") /\ File("sealing") = seal(runs[p])
        /\ runs[p].key \in Keys /\ runs[p].pass \in Passphrases
    BY <1>1, RunFacts DEF CountsOn, Sealing, Steps
  <1>3. File("sealing").kind = "sealed" /\ unseal(File("sealing"), runs[p].pass) = {runs[p].key}
    BY <1>2, KindFacts DEF seal, unseal
  <1>4. UNCHANGED <<at, disk, relied, told>> /\ Step(p, "rename")
    BY <1>2, <1>3 DEF Verify, Beside
  <1> DEFINE r == [runs[p] EXCEPT !.pc = "rename"]
  <1>5. /\ r \in Run /\ r.pc = "rename" /\ r.key = runs[p].key
        /\ r.pass = runs[p].pass /\ r.inode = runs[p].inode
    BY <1>1, RunFacts DEF Run, Steps
  <1>6. Go(p, r)
    BY <1>4 DEF Step
  <1> HIDE DEF r
  <1>7. CountsOn(r) /\ r.pc \notin Creating
    BY <1>1, <1>5 DEF CountsOn, seal, Creating, Opened, Sealing
  <1>8. relied \subseteq Keys /\ runs[p].pc \in Sealing
    BY <1>1 DEF IInv, TypeOK, Sealing
  <1>9. QED
    BY <1>4, <1>5, <1>6, <1>7, <1>8, RunStep

\* A run that dies has nothing left to count on.
LEMMA DieStep ==
    ASSUME IInv, NEW p \in Processes, Die(p)
    PROVE  IInv'
  <1>1. UNCHANGED <<at, disk, relied, told>> /\ Go(p, Nobody) /\ relied \subseteq Keys
    BY DEF Die, IInv, TypeOK
  <1>2. CountsOn(Nobody) /\ Nobody.pc \notin Creating /\ Nobody.pc \notin Sealing
    BY NobodyFacts DEF CountsOn, Opened, Sealing, Creating
  <1>3. QED
    BY <1>1, <1>2, NobodyFacts, RunStep

-------------------------------------------------------------------------------
\* Steps that change a file

\* A name that is opened is empty, as what it was or as a new inode.
LEMMA OpenFacts ==
    ASSUME TypeOK, NEW name \in {"key", "sealing"}, NEW i \in Inodes, OpenEmpty(name, i)
    PROVE  /\ at' \in [{"key", "sealing"} -> Inodes \cup {NoFile}]
           /\ \E n \in 0..MaxInodes : disk' \in [1..n -> Contents]
           /\ at'[name] = i /\ i # NoFile /\ i \in DOMAIN disk' /\ disk'[i] = Torn
           /\ \A other \in {"key", "sealing"} \ {name} :
                 /\ at'[other] = at[other]
                 /\ at[other] \in DOMAIN disk /\ at[other] # i =>
                       at[other] \in DOMAIN disk' /\ disk'[at[other]] = disk[at[other]]
           /\ \A other \in {"key", "sealing"} : at[other] \in DOMAIN disk => at[other] \in DOMAIN disk'
           /\ IF Exists(name) THEN i = at[name] ELSE i \notin DOMAIN disk
  <1>1. PICK n \in 0..MaxInodes : disk \in [1..n -> Contents]
    BY DEF TypeOK
  <1>2. MaxInodes \in Nat /\ n \in Nat /\ DOMAIN disk = 1..n
    BY <1>1, InodesAreNumbers
  <1>3. Cardinality(DOMAIN disk) = n
    BY <1>2, FS_Interval, 1 \in Int, n \in Int
  <1>4. at' = [at EXCEPT ![name] = i]
        /\ disk' = [j \in DOMAIN disk \cup {i} |-> IF j = i THEN Torn ELSE disk[j]]
        /\ i = IF Exists(name) THEN at[name] ELSE n + 1
    BY <1>3 DEF OpenEmpty
  <1>5. at' \in [{"key", "sealing"} -> Inodes \cup {NoFile}]
    BY <1>4 DEF TypeOK
  <1>6. i # NoFile /\ i <= MaxInodes /\ i \in Nat
    BY <1>2 DEF Inodes, NoFile
  <1>7. IF Exists(name) THEN i \in 1..n ELSE i \notin 1..n /\ i = n + 1
    BY <1>2, <1>4 DEF TypeOK
  <1>8. \E m \in 0..MaxInodes : DOMAIN disk \cup {i} = 1..m
    <2>1. CASE Exists(name)
      BY <1>2, <1>7, <2>1
    <2>2. CASE ~Exists(name)
      <3>1. i = n + 1 /\ n + 1 \in 0..MaxInodes
        BY <1>2, <1>6, <1>7, <2>2
      <3>2. 1..n \cup {n + 1} = 1..(n + 1)
        BY <1>2
      <3>3. QED
        BY <1>2, <3>1, <3>2
    <2>3. QED
      BY <2>1, <2>2
  <1>9. \E m \in 0..MaxInodes : disk' \in [1..m -> Contents]
    BY <1>1, <1>4, <1>8, KindFacts
  <1>10. at'[name] = i /\ \A other \in {"key", "sealing"} \ {name} : at'[other] = at[other]
    BY <1>4 DEF TypeOK
  <1>11. /\ i \in DOMAIN disk' /\ disk'[i] = Torn
         /\ \A j \in DOMAIN disk : j \in DOMAIN disk' /\ (j # i => disk'[j] = disk[j])
    BY <1>4
  <1>12. IF Exists(name) THEN i = at[name] ELSE i \notin DOMAIN disk
    BY <1>2, <1>4, <1>7
  <1>13. QED
    BY <1>5, <1>6, <1>9, <1>10, <1>11, <1>12

\* What is written to an inode is all that changes.
LEMMA FillFacts ==
    ASSUME TypeOK, NEW i \in DOMAIN disk, NEW c \in Contents, Fill(i, c)
    PROVE  /\ \E n \in 0..MaxInodes : disk' \in [1..n -> Contents]
           /\ DOMAIN disk' = DOMAIN disk /\ disk'[i] = c
           /\ \A j \in DOMAIN disk \ {i} : disk'[j] = disk[j]
  BY DEF TypeOK, Fill

\* While a run creates the key file nobody has a key, and nobody was told of one.
LEMMA NothingYet ==
    ASSUME IInv, ~Settled
    PROVE  relied = {} /\ told = "none" /\ \A q \in Processes : runs[q].pc \notin Opened
  BY DEF IInv, FilesKeep, CountsOn

\* A run at a step that counts on nothing but its own file is not disturbed.
LEMMA StepFrame ==
    ASSUME TypeOK, NEW p \in Processes, NEW step \in Steps, Step(p, step), runs[p].pc \in Steps
    PROVE  LET r == [runs[p] EXCEPT !.pc = step]
           IN  /\ r \in Run /\ Go(p, r) /\ r.pc = step /\ r.key = runs[p].key
               /\ r.pass = runs[p].pass /\ r.inode = runs[p].inode
  <1>1. runs[p] \in Run
    BY DEF TypeOK
  <1>2. QED
    BY <1>1, RunFacts DEF Step, Run

\* The first half of creating the key file.
LEMMA CreateStep ==
    ASSUME IInv, NEW p \in Processes, CreateKeyFile(p)
    PROVE  IInv'
  <1>1. PICK i \in Inodes : OpenEmpty("key", i) /\ Go(p, [runs[p] EXCEPT !.pc = "write", !.inode = i])
    BY DEF CreateKeyFile
  <1>2. runs[p].pc = "create" /\ runs[p] \in Run /\ ~Exists("key") /\ UNCHANGED <<relied, told>>
    BY DEF CreateKeyFile, At, IInv, TypeOK, CountsOn
  <1> DEFINE r == [runs[p] EXCEPT !.pc = "write", !.inode = i]
  <1>3. r \in Run /\ r.pc = "write" /\ r.inode = i /\ Go(p, r)
    BY <1>1, <1>2, RunFacts DEF Run, Steps
  <1> HIDE DEF r
  <1>4. /\ at'["key"] = i /\ i # NoFile /\ disk'[i] = Torn /\ at'["sealing"] = at["sealing"]
        /\ Exists("sealing") => at["sealing"] # i /\ disk'[at["sealing"]] = disk[at["sealing"]]
    BY <1>1, <1>2, OpenFacts, FileType DEF IInv
  <1>5. ~Settled /\ relied = {} /\ told = "none" /\ \A q \in Processes : runs[q].pc \notin Opened
    BY <1>2, NothingYet DEF Settled
  <1>6. TypeOK'
    <2>1. runs' \in [Processes -> Run]
      BY <1>3, GoFacts DEF IInv
    <2>2. \A name \in {"key", "sealing"} : Exists(name)' => at'[name] \in DOMAIN disk'
      BY <1>1, <1>2, OpenFacts DEF IInv, TypeOK, Exists
    <2>3. at' \in [{"key", "sealing"} -> Inodes \cup {NoFile}]
          /\ \E n \in 0..MaxInodes : disk' \in [1..n -> Contents]
      BY <1>1, OpenFacts DEF IInv
    <2>4. QED
      BY <1>2, <2>1, <2>2, <2>3 DEF IInv, TypeOK
  <1>7. FilesKeep'
    BY <1>2, <1>4, <1>5, KindFacts DEF IInv, FilesKeep, Settled, Exists, File
  <1>8. OneAtATime'
    BY <1>2, <1>3, OneAtATimeStep DEF IInv, Creating, Sealing
  <1>9. ASSUME NEW q \in Processes PROVE CountsOn(runs[q])'
    <2>1. CASE q = p
      <3>1. runs'[q] = r
        BY <1>3, <2>1, GoFacts DEF IInv
      <3>2. QED
        BY <1>3, <1>4, <3>1, KindFacts DEF CountsOn, Opened, Sealing, Exists, File
    <2>2. CASE q # p
      <3>1. runs'[q] = runs[q]
        BY <1>3, <2>2, GoFacts DEF IInv
      <3>2. runs[q].pc \notin Creating
        BY <1>2, <2>2 DEF IInv, OneAtATime, Creating
      <3>3. QED
        BY <1>5, <3>1, <3>2 DEF CountsOn, Opened, Sealing, Creating
    <2>3. QED
      BY <2>1, <2>2
  <1>10. QED
    BY <1>6, <1>7, <1>8, <1>9 DEF IInv

\* The second half: from now on there is a key to open.
LEMMA WriteStep ==
    ASSUME IInv, NEW p \in Processes, WriteKeyFile(p)
    PROVE  IInv'
  <1>1. /\ runs[p].pc = "write" /\ runs[p] \in Run /\ UNCHANGED <<at, relied, told>>
        /\ Fill(runs[p].inode, Plain(runs[p].key)) /\ Step(p, "using")
    BY DEF WriteKeyFile, At, IInv, TypeOK
  <1>2. Exists("key") /\ runs[p].inode = at["key"] /\ ~Settled
    BY <1>1 DEF IInv, CountsOn, Settled
  <1> DEFINE r == [runs[p] EXCEPT !.pc = "using"]
  <1>3. r \in Run /\ r.pc = "using" /\ r.key = runs[p].key /\ Go(p, r)
    BY <1>1, StepFrame DEF IInv, Steps
  <1> HIDE DEF r
  <1>4. runs[p].key \in Keys /\ Plain(runs[p].key) \in Contents /\ at["key"] \in DOMAIN disk
    BY <1>1, <1>2, RunFacts, KindFacts, FileType DEF IInv, Steps
  <1>5. relied = {} /\ told = "none" /\ \A q \in Processes : runs[q].pc \notin Opened
    BY <1>2, NothingYet
  <1>6. /\ File("key")' = Plain(runs[p].key)
        /\ DOMAIN disk' = DOMAIN disk
        /\ Exists("sealing") => File("sealing")' = File("sealing")
    BY <1>1, <1>2, <1>4, FillFacts, FileType DEF IInv, FilesKeep, File
  <1>7. TypeOK'
    <2>1. runs' \in [Processes -> Run]
      BY <1>3, GoFacts DEF IInv
    <2>2. \E n \in 0..MaxInodes : disk' \in [1..n -> Contents]
      BY <1>1, <1>2, <1>4, FillFacts DEF IInv
    <2>3. QED
      BY <1>1, <1>6, <2>1, <2>2 DEF IInv, TypeOK, Exists
  <1>8. FilesKeep'
    BY <1>1, <1>4, <1>5, <1>6, KindFacts DEF IInv, FilesKeep, Settled, Exists
  <1>9. OneAtATime'
    BY <1>1, <1>3, OneAtATimeStep DEF IInv, Creating, Sealing
  <1>10. ASSUME NEW q \in Processes PROVE CountsOn(runs[q])'
    <2>1. CASE q = p
      <3>1. runs'[q] = r
        BY <1>3, <2>1, GoFacts DEF IInv
      <3>2. Settled' /\ File("key")'.key = r.key
        BY <1>1, <1>2, <1>3, <1>4, <1>6, KindFacts DEF Exists, Settled
      <3>3. QED
        BY <1>3, <3>1, <3>2 DEF CountsOn, Sealing
    <2>2. CASE q # p
      <3>1. runs'[q] = runs[q]
        BY <1>3, <2>2, GoFacts DEF IInv
      <3>2. runs[q].pc \notin Creating
        BY <1>1, <2>2 DEF IInv, OneAtATime, Creating
      <3>3. QED
        BY <1>5, <3>1, <3>2 DEF CountsOn, Opened, Sealing, Creating
    <2>3. QED
      BY <2>1, <2>2
  <1>11. QED
    BY <1>7, <1>8, <1>9, <1>10 DEF IInv

\* A run that seals is the only one, and nobody creates the file meanwhile.
LEMMA SealsAlone ==
    ASSUME IInv, NEW p \in Processes, runs[p].pc \in Sealing
    PROVE  /\ runs[p] \in Run /\ runs[p].pc \in Steps
           /\ runs[p].key \in Keys /\ runs[p].pass \in Passphrases
           /\ Settled /\ File("key").kind = "plain" /\ File("key").key = runs[p].key
           /\ told = "none"
           /\ \A q \in Processes : runs[q].pc \notin Creating
           /\ \A q \in Processes \ {p} : runs[q].pc \notin Sealing
  <1>1. runs[p] \in Run /\ runs[p].pc \in Steps
    BY DEF IInv, TypeOK, Sealing, Steps
  <1>2. runs[p].key \in Keys /\ runs[p].pass \in Passphrases
    BY <1>1, RunFacts DEF IInv, CountsOn
  <1>3. Settled /\ File("key").kind = "plain" /\ File("key").key = runs[p].key
    BY DEF IInv, CountsOn, Opened
  <1>4. told = "none"
    BY <1>3 DEF IInv, FilesKeep
  <1>5. \A q \in Processes : runs[q].pc \notin Creating
    BY <1>3 DEF IInv, CountsOn, Settled, Creating
  <1>6. \A q \in Processes \ {p} : runs[q].pc \notin Sealing
    BY DEF IInv, OneAtATime
  <1>7. QED
    BY <1>1, <1>2, <1>3, <1>4, <1>5, <1>6

\* A step of the one run that seals, which leaves the key file as it is and
\* the file beside it a sealed or a torn one.
LEMMA SealingStep ==
    ASSUME IInv, NEW p \in Processes, runs[p].pc \in Sealing,
           NEW r \in Run, Go(p, r), r.pc \in {"write seal", "verify"},
           r.key = runs[p].key, r.pass = runs[p].pass,
           UNCHANGED <<relied, told>>,
           at' \in [{"key", "sealing"} -> Inodes \cup {NoFile}],
           \E n \in 0..MaxInodes : disk' \in [1..n -> Contents],
           \A name \in {"key", "sealing"} : Exists(name)' => at'[name] \in DOMAIN disk',
           at'["key"] = at["key"], File("key")' = File("key"),
           Exists("sealing")', at'["sealing"] # at["key"], File("sealing")'.kind # "plain",
           r.pc = "write seal" => r.inode = at'["sealing"],
           r.pc = "verify" => File("sealing")' = seal(r)
    PROVE  IInv'
  <1>1. TypeOK'
    <2>1. runs' \in [Processes -> Run]
      BY GoFacts DEF IInv
    <2>2. \A name \in DOMAIN at' : Exists(name)' => at'[name] \in DOMAIN disk'
      OBVIOUS
    <2>3. QED
      BY <2>1, <2>2 DEF IInv, TypeOK
  <1>2. Settled' <=> Settled
    BY DEF Settled, Exists
  <1>3. FilesKeep'
    BY <1>2 DEF IInv, FilesKeep
  <1>4. OneAtATime'
    BY OneAtATimeStep DEF IInv, Creating
  <1>5. ASSUME NEW q \in Processes PROVE CountsOn(runs[q])'
    <2>1. CASE q = p
      <3>1. runs'[q] = r
        BY <2>1, GoFacts DEF IInv
      <3>2. Settled' /\ File("key")'.kind = "plain" /\ File("key")'.key = r.key /\ r.pass \in Passphrases
        BY <1>2, SealsAlone
      <3>3. r.pc # "create" /\ r.pc # "write" /\ r.pc # "rename"
        OBVIOUS
      <3>4. QED
        BY <3>1, <3>2, <3>3 DEF CountsOn, seal
    <2>2. CASE q # p
      <3>1. runs'[q] = runs[q] /\ runs[q].pc \notin Creating /\ runs[q].pc \notin Sealing
        BY <2>2, GoFacts, SealsAlone DEF IInv
      <3>2. runs[q].pc \in Opened => Settled /\ File("key").key = runs[q].key
        BY DEF IInv, CountsOn
      <3>3. QED
        BY <1>2, <3>1, <3>2 DEF CountsOn, Creating, Sealing
    <2>3. QED
      BY <2>1, <2>2
  <1>6. QED
    BY <1>1, <1>3, <1>4, <1>5 DEF IInv

\* What a seal that died has left beside the key is emptied, never the key.
LEMMA OpenSealingStep ==
    ASSUME IInv, NEW p \in Processes, OpenSealing(p)
    PROVE  IInv'
  <1>1. PICK i \in Inodes :
            OpenEmpty("sealing", i) /\ Go(p, [runs[p] EXCEPT !.pc = "write seal", !.inode = i])
    BY DEF OpenSealing, Beside
  <1>2. runs[p].pc = "seal" /\ runs[p].pc \in Sealing /\ UNCHANGED <<relied, told>>
    BY DEF OpenSealing, At, Sealing
  <1>3. runs[p] \in Run /\ runs[p].pc \in Steps /\ Settled
    BY <1>2, SealsAlone
  <1> DEFINE r == [runs[p] EXCEPT !.pc = "write seal", !.inode = i]
  <1>4. /\ r \in Run /\ r.pc = "write seal" /\ r.inode = i /\ Go(p, r)
        /\ r.key = runs[p].key /\ r.pass = runs[p].pass
    BY <1>1, <1>3, RunFacts DEF Run, Steps
  <1> HIDE DEF r
  <1>5. at["key"] # i /\ at["key"] \in DOMAIN disk
    BY <1>1, <1>3, OpenFacts, FileType DEF IInv, FilesKeep, Settled
  <1>6. /\ at' \in [{"key", "sealing"} -> Inodes \cup {NoFile}]
        /\ \E n \in 0..MaxInodes : disk' \in [1..n -> Contents]
        /\ at'["sealing"] = i /\ i # NoFile /\ i \in DOMAIN disk' /\ disk'[i] = Torn
        /\ at'["key"] = at["key"] /\ at["key"] \in DOMAIN disk' /\ disk'[at["key"]] = disk[at["key"]]
    BY <1>1, <1>5, OpenFacts DEF IInv
  <1>7. /\ File("key")' = File("key") /\ Exists("sealing")' /\ File("sealing")'.kind # "plain"
        /\ \A name \in {"key", "sealing"} : at'[name] \in DOMAIN disk'
    BY <1>6, KindFacts DEF File, Exists
  <1>8. QED
    BY <1>2, <1>4, <1>5, <1>6, <1>7, SealingStep

\* The sealed key is written beside the plain one.
LEMMA WriteSealingStep ==
    ASSUME IInv, NEW p \in Processes, WriteSealing(p)
    PROVE  IInv'
  <1>1. /\ runs[p].pc = "write seal" /\ runs[p].pc \in Sealing /\ UNCHANGED <<at, relied, told>>
        /\ Fill(runs[p].inode, seal(runs[p])) /\ Step(p, "verify")
    BY DEF WriteSealing, At, Sealing
  <1>2. /\ runs[p] \in Run /\ runs[p].pc \in Steps /\ Settled
        /\ runs[p].key \in Keys /\ runs[p].pass \in Passphrases
    BY <1>1, SealsAlone
  <1>3. Exists("sealing") /\ runs[p].inode = at["sealing"] /\ at["sealing"] # at["key"]
    BY <1>1 DEF IInv, CountsOn, FilesKeep
  <1> DEFINE r == [runs[p] EXCEPT !.pc = "verify"]
  <1>4. r \in Run /\ r.pc = "verify" /\ r.key = runs[p].key /\ r.pass = runs[p].pass /\ Go(p, r)
    BY <1>1, <1>2, StepFrame DEF IInv, Steps
  <1> HIDE DEF r
  <1>5. /\ seal(runs[p]) \in Contents /\ seal(runs[p]).kind = "sealed"
        /\ seal(r) = seal(runs[p])
    BY <1>2, <1>4, KindFacts DEF seal
  <1>6. at["sealing"] \in DOMAIN disk /\ at["key"] \in DOMAIN disk
    BY <1>2, <1>3, FileType DEF IInv, Settled
  <1>7. /\ \E n \in 0..MaxInodes : disk' \in [1..n -> Contents]
        /\ DOMAIN disk' = DOMAIN disk
        /\ disk'[at["sealing"]] = seal(runs[p]) /\ disk'[at["key"]] = disk[at["key"]]
    BY <1>1, <1>3, <1>5, <1>6, FillFacts DEF IInv
  <1>8. /\ at' \in [{"key", "sealing"} -> Inodes \cup {NoFile}] /\ at' = at
        /\ \A name \in {"key", "sealing"} : Exists(name)' => at'[name] \in DOMAIN disk'
    BY <1>1, <1>6, <1>7 DEF IInv, TypeOK
  <1>9. File("key")' = File("key") /\ Exists("sealing")' /\ File("sealing")' = seal(r)
    BY <1>3, <1>5, <1>7, <1>8 DEF File, Exists
  <1>10. QED
    BY <1>1, <1>3, <1>4, <1>5, <1>7, <1>8, <1>9, SealingStep

\* The sealed key takes the plain one's name, and is the same key.
LEMMA RenameStep ==
    ASSUME IInv, NEW p \in Processes, Rename(p)
    PROVE  IInv'
  <1>1. runs[p].pc = "rename" /\ runs[p].pc \in Sealing /\ UNCHANGED <<disk, relied>> /\ Go(p, Nobody)
    BY DEF Rename, At, Sealing
  <1>2. /\ runs[p].key \in Keys /\ runs[p].pass \in Passphrases
        /\ Settled /\ File("key").key = runs[p].key
        /\ \A q \in Processes : runs[q].pc \notin Creating
        /\ \A q \in Processes \ {p} : runs[q].pc \notin Sealing
    BY <1>1, SealsAlone
  <1>3. Exists("sealing") /\ File("sealing") = seal(runs[p])
    BY <1>1 DEF IInv, CountsOn
  <1>4. /\ at' = [at EXCEPT !["key"] = at["sealing"], !["sealing"] = NoFile]
        /\ told' = runs[p].pass
    BY <1>3 DEF Rename, Beside
  <1>5. /\ at' \in [{"key", "sealing"} -> Inodes \cup {NoFile}]
        /\ at'["key"] = at["sealing"] /\ at'["sealing"] = NoFile
    BY <1>4 DEF IInv, TypeOK
  <1>6. /\ File("key")' = seal(runs[p]) /\ Exists("key")' /\ ~Exists("sealing")'
        /\ at["sealing"] \in DOMAIN disk
    BY <1>1, <1>3, <1>5, FileType DEF IInv, File, Exists
  <1>7. /\ File("key")'.kind = "sealed" /\ File("key")'.key = runs[p].key
        /\ File("key")'.pass = runs[p].pass
    BY <1>2, <1>6, KindFacts DEF seal
  <1>8. TypeOK'
    <2>1. runs' \in [Processes -> Run]
      BY <1>1, NobodyFacts, GoFacts DEF IInv
    <2>2. \A name \in DOMAIN at' : Exists(name)' => at'[name] \in DOMAIN disk'
      BY <1>1, <1>5, <1>6 DEF Exists
    <2>3. QED
      BY <1>1, <1>2, <1>4, <1>5, <2>1, <2>2 DEF IInv, TypeOK
  <1>9. FilesKeep'
    BY <1>1, <1>2, <1>4, <1>6, <1>7 DEF IInv, FilesKeep, Settled
  <1>10. OneAtATime'
    BY <1>1, NobodyFacts, OneAtATimeStep DEF IInv, Creating, Sealing
  <1>11. ASSUME NEW q \in Processes PROVE CountsOn(runs[q])'
    <2>1. CASE q = p
      <3>1. runs'[q].pc = "idle"
        BY <1>1, <2>1, NobodyFacts, GoFacts DEF IInv
      <3>2. QED
        BY <3>1 DEF CountsOn, Opened, Sealing
    <2>2. CASE q # p
      <3>1. runs'[q] = runs[q] /\ runs[q].pc \notin Creating /\ runs[q].pc \notin Sealing
        BY <1>1, <1>2, <2>2, NobodyFacts, GoFacts DEF IInv
      <3>2. runs[q].pc \in Opened => File("key").key = runs[q].key
        BY DEF IInv, CountsOn
      <3>3. QED
        BY <1>2, <1>6, <1>7, <3>1, <3>2 DEF CountsOn, Creating, Sealing, Settled
    <2>3. QED
      BY <2>1, <2>2
  <1>12. QED
    BY <1>8, <1>9, <1>10, <1>11 DEF IInv

-------------------------------------------------------------------------------
\* The invariant and what follows from it

\* There is no file, and nobody, at first.
LEMMA InitStep == Init => IInv
  <1> SUFFICES ASSUME Init PROVE IInv
    OBVIOUS
  <1>1. \A name \in {"key", "sealing"} : ~Exists(name)
    BY DEF Init, Exists
  <1>2. disk \in [1..0 -> Contents] /\ 0 \in 0..MaxInodes
    BY InodesAreNumbers DEF Init
  <1>3. at \in [{"key", "sealing"} -> Inodes \cup {NoFile}] /\ runs \in [Processes -> Run]
    BY NobodyFacts DEF Init
  <1>4. relied = {} /\ told = "none"
    BY DEF Init
  <1>5. TypeOK
    BY <1>1, <1>2, <1>3, <1>4 DEF TypeOK
  <1>6. \A p \in Processes : runs[p].pc = "idle"
    BY NobodyFacts DEF Init
  <1>7. OneAtATime /\ \A p \in Processes : CountsOn(runs[p])
    BY <1>6 DEF OneAtATime, CountsOn, Creating, Sealing, Opened
  <1>8. FilesKeep
    BY <1>1, <1>4 DEF FilesKeep, Settled
  <1>9. QED
    BY <1>5, <1>7, <1>8 DEF IInv

\* Every step keeps the invariant, where first runs and seals do not overlap.
LEMMA NextStep ==
    ASSUME ~FirstRunsOverlap, ~SealsOverlap
    PROVE  IInv /\ [Next]_vars => IInv'
  <1> SUFFICES ASSUME IInv, [Next]_vars PROVE IInv'
    OBVIOUS
  <1>1. CASE UNCHANGED vars
    <2>1. TypeOK' /\ OneAtATime'
      BY <1>1 DEF vars, IInv, TypeOK, Exists, OneAtATime
    <2>2. FilesKeep' /\ \A p \in Processes : CountsOn(runs[p])'
      BY <1>1, FilesAlone DEF vars, IInv
    <2>3. QED
      BY <2>1, <2>2 DEF IInv
  <1>2. ASSUME NEW p \in Processes,
               load_or_create_key_at(p) \/ CreateKeyFile(p) \/ WriteKeyFile(p) \/ Use(p)
        PROVE  IInv'
    BY <1>2, LoadStep, CreateStep, WriteStep, UseStep
  <1>3. ASSUME NEW p \in Processes,
               \/ StartSeal(p) \/ OpenSealing(p) \/ WriteSealing(p) \/ Verify(p) \/ Rename(p)
               \/ Die(p)
        PROVE  IInv'
    BY <1>3, StartSealStep, OpenSealingStep, WriteSealingStep, VerifyStep, RenameStep, DieStep
  <1>4. QED
    BY <1>1, <1>2, <1>3 DEF Next

\* Where first runs and seals do not overlap, and wherever any of them dies, the
\* key that some run has used is in the file, and opens with the passphrase the
\* operator was told it would: load_or_create_key_at and key seal lose no money.
THEOREM NoReliedKeyIsLost ==
    ASSUME ~FirstRunsOverlap, ~SealsOverlap
    PROVE  Spec => []ReliedKeysOpen
  <1>1. ASSUME IInv PROVE ReliedKeysOpen
    <2>1. SUFFICES ASSUME NEW k \in relied
                   PROVE  Exists("key") /\ unseal(File("key"), told) = {k}
      BY DEF ReliedKeysOpen
    <2>2. Settled /\ File("key").key = k
      BY <1>1 DEF IInv, FilesKeep
    <2>3. \/ File("key").kind = "plain"
          \/ File("key").kind = "sealed" /\ File("key").pass = told
      BY <1>1, <2>2, FileType, ContentFacts DEF IInv, FilesKeep, Settled
    <2>4. QED
      BY <2>2, <2>3 DEF Settled, unseal
  <1>2. QED
    BY <1>1, InitStep, NextStep, PTL DEF Spec

\* Under the same assumption, every run past opening the file works for the
\* account that is in it.
THEOREM RunsAgreeOnTheAccount ==
    ASSUME ~FirstRunsOverlap, ~SealsOverlap
    PROVE  Spec => []OneAccount
  <1>1. ASSUME IInv PROVE OneAccount
    <2>1. SUFFICES ASSUME NEW p \in Processes, NEW q \in Processes,
                          runs[p].pc \in Steps \ {"create", "write"}, runs[q].pc \in Steps
                   PROVE  runs[p].key = runs[q].key
      BY DEF OneAccount
    <2>2. runs[p].pc \in Opened
      BY <2>1, StepFacts DEF Creating
    <2>3. Settled
      BY <1>1, <2>2 DEF IInv, CountsOn
    <2>4. runs[q].pc \notin Creating
      BY <1>1, <2>3 DEF IInv, CountsOn, Settled, Creating
    <2>5. runs[q].pc \in Opened
      BY <2>1, <2>4, StepFacts
    <2>6. QED
      BY <1>1, <2>2, <2>5 DEF IInv, CountsOn
  <1>2. QED
    BY <1>1, InitStep, NextStep, PTL DEF Spec

\* Under the same assumption, no plaintext key is under either name once a seal
\* has gone through, whatever later runs do and wherever they die.
THEOREM SealedForGood ==
    ASSUME ~FirstRunsOverlap, ~SealsOverlap
    PROVE  Spec => []StaysSealed
  <1>1. ASSUME IInv PROVE StaysSealed
    <2>1. SUFFICES ASSUME told # "none", NEW name \in DOMAIN at, Exists(name)
                   PROVE  File(name).kind # "plain"
      BY DEF StaysSealed
    <2>2. name = "key" \/ name = "sealing"
      BY <1>1 DEF IInv, TypeOK
    <2>3. QED
      BY <1>1, <2>1, <2>2 DEF IInv, FilesKeep
  <1>2. QED
    BY <1>1, InitStep, NextStep, PTL DEF Spec
===============================================================================
