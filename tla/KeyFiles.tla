------------------------------- MODULE KeyFiles -------------------------------
(***************************************************************************)
(* The key file of the Ootle toolkit (payer/ootle/toolkit/src/main.rs):    *)
(* every run of the toolkit opens it, or creates it on the first run, and  *)
(* `key seal' replaces the plaintext by a file only a passphrase opens.    *)
(* The till's file is modelled; the dev bench's is the same, the recovery  *)
(* key's is the same without `key seal'.                                   *)
(*                                                                         *)
(* A file is a name for an inode.  fs::write opens a name, which truncates *)
(* what is there or makes a new inode, and then writes to what it opened,  *)
(* wherever that has been renamed to since.  A process may die at any      *)
(* step.  Sealing is ideal: only its passphrase opens it, and to its key.  *)
(***************************************************************************)
EXTENDS Naturals, FiniteSets

CONSTANTS
    Processes,        \* runs of the toolkit on one machine
    Keys,             \* what OotleSecretKey::random may return
    Passphrases,      \* what an operator may type or export
    MaxInodes,        \* bound on the inodes ever made
    FirstRunsOverlap, \* may a process create the key file while another does?
    SealsOverlap      \* may a process seal it while another does?

ASSUME OverlapsAreFlags == {FirstRunsOverlap, SealsOverlap} \subseteq BOOLEAN
ASSUME InodesAreNumbers == MaxInodes \in Nat

Torn == [kind |-> "torn"]
Plain(k) == [kind |-> "plain", key |-> k]
Sealed(k, pass) == [kind |-> "sealed", key |-> k, pass |-> pass]

Contents ==
    {Torn} \cup {Plain(k) : k \in Keys} \cup {Sealed(k, w) : k \in Keys, w \in Passphrases}

Inodes == 1..MaxInodes
NoFile == 0
Nobody == [pc |-> "idle"]

VARIABLES
    at,       \* the inode the names "key" and "sealing" stand for, if any
    disk,     \* what is in each inode
    runs,     \* each process, its step and what it has read
    relied,   \* history: the keys a run has used, which may hold money by now
    told      \* history: the passphrase typed by the last seal that went through

vars == <<at, disk, runs, relied, told>>

Steps == {"create", "write", "using", "seal", "write seal", "verify", "rename"}

Run == {Nobody}
    \cup [pc : Steps, key : Keys, pass : Passphrases \cup {"none"}, inode : Inodes \cup {NoFile}]

Init ==
    /\ at = [name \in {"key", "sealing"} |-> NoFile]
    /\ disk = [i \in {} |-> Torn]
    /\ runs = [p \in Processes |-> Nobody]
    /\ relied = {}
    /\ told = "none"

-------------------------------------------------------------------------------
\* The file system

Exists(name) == at[name] # NoFile
File(name) == disk[at[name]]

\* The first half of fs::write: name is open and empty, as inode i.
OpenEmpty(name, i) ==
    /\ i = IF Exists(name) THEN at[name] ELSE Cardinality(DOMAIN disk) + 1
    /\ i \in Inodes
    /\ at' = [at EXCEPT ![name] = i]
    /\ disk' = [j \in DOMAIN disk \cup {i} |-> IF j = i THEN Torn ELSE disk[j]]

\* The second half.
Fill(i, content) == disk' = [disk EXCEPT ![i] = content]

-------------------------------------------------------------------------------
\* Opening or creating the key

At(p, step) == runs[p].pc = step
Go(p, run) == runs' = [runs EXCEPT ![p] = run]
Step(p, step) == Go(p, [runs[p] EXCEPT !.pc = step])
Busy(steps) == \E p \in Processes : runs[p].pc \in steps

Working(step, k, pass) == [pc |-> step, key |-> k, pass |-> pass, inode |-> NoFile]

\* The keys made so far: a random one is none of them.
Known ==
    relied \cup {run.key : run \in {runs[p] : p \in Processes} \ {Nobody}}
        \cup {content.key : content \in {disk[i] : i \in DOMAIN disk} \ {Torn}}

\* The key that content opens to, given what the operator typed.
unseal(content, pass) ==
    IF content.kind = "plain" \/ (content.kind = "sealed" /\ content.pass = pass)
    THEN {content.key} ELSE {}

\* Mutant: a file that does not open is taken for no file.
NoFileOpens(pass) == Exists("key") => unseal(File("key"), pass) = {}

\* path.exists
FirstRun(pass) == ~Exists("key")

load_or_create_key_at(p) ==
    /\ At(p, "idle")
    /\ \E pass \in Passphrases \cup {"none"} :
        \/ /\ FirstRun(pass)
           /\ FirstRunsOverlap \/ ~Busy({"create", "write"})
           /\ \E k \in Keys \ Known : Go(p, Working("create", k, "none"))
        \/ /\ ~FirstRun(pass)
           /\ \E k \in unseal(File("key"), pass) : Go(p, Working("using", k, "none"))
    /\ UNCHANGED <<at, disk, relied, told>>

CreateKeyFile(p) ==
    /\ At(p, "create")
    /\ \E i \in Inodes :
        /\ OpenEmpty("key", i)
        /\ Go(p, [runs[p] EXCEPT !.pc = "write", !.inode = i])
    /\ UNCHANGED <<relied, told>>

WriteKeyFile(p) ==
    /\ At(p, "write")
    /\ Fill(runs[p].inode, Plain(runs[p].key))
    /\ Step(p, "using")
    /\ UNCHANGED <<at, relied, told>>

\* The run shows the address, or signs with it, and ends.
Use(p) ==
    /\ At(p, "using")
    /\ relied' = relied \cup {runs[p].key}
    /\ Go(p, Nobody)
    /\ UNCHANGED <<at, disk, told>>

-------------------------------------------------------------------------------
\* key seal

\* Mutant: the sealed key is written over the plaintext.
InPlace == "key"

Beside == "sealing"

\* Refused unless the file is a plaintext key.  Passphrases holds only ones
\* that are long enough, and typing two different ones changes nothing.
StartSeal(p) ==
    /\ At(p, "idle")
    /\ SealsOverlap \/ ~Busy({"seal", "write seal", "verify", "rename"})
    /\ Exists("key")
    /\ File("key").kind = "plain"
    /\ \E pass \in Passphrases : Go(p, Working("seal", File("key").key, pass))
    /\ UNCHANGED <<at, disk, relied, told>>

OpenSealing(p) ==
    /\ At(p, "seal")
    /\ \E i \in Inodes :
        /\ OpenEmpty(Beside, i)
        /\ Go(p, [runs[p] EXCEPT !.pc = "write seal", !.inode = i])
    /\ UNCHANGED <<relied, told>>

seal(run) == Sealed(run.key, run.pass)

WriteSealing(p) ==
    /\ At(p, "write seal")
    /\ Fill(runs[p].inode, seal(runs[p]))
    /\ Step(p, "verify")
    /\ UNCHANGED <<at, relied, told>>

\* Read back through the name, which another seal may have taken meanwhile.
\* A file that opens to another key is removed; any other failure leaves it.
Verify(p) ==
    LET opened == IF Exists(Beside) /\ File(Beside).kind = "sealed"
                  THEN unseal(File(Beside), runs[p].pass) ELSE {}
    IN  /\ At(p, "verify")
        /\ IF runs[p].key \in opened THEN Step(p, "rename") ELSE Go(p, Nobody)
        /\ at' = IF opened \subseteq {runs[p].key} THEN at ELSE [at EXCEPT ![Beside] = NoFile]
        /\ UNCHANGED <<disk, relied, told>>

Rename(p) ==
    /\ At(p, "rename")
    /\ at' = IF Exists(Beside) THEN [at EXCEPT !["key"] = at[Beside], ![Beside] = NoFile] ELSE at
    /\ told' = IF Exists(Beside) THEN runs[p].pass ELSE told
    /\ Go(p, Nobody)
    /\ UNCHANGED <<disk, relied>>

Die(p) ==
    /\ ~At(p, "idle")
    /\ Go(p, Nobody)
    /\ UNCHANGED <<at, disk, relied, told>>

Next == \E p \in Processes :
    \/ load_or_create_key_at(p) \/ CreateKeyFile(p) \/ WriteKeyFile(p) \/ Use(p)
    \/ StartSeal(p) \/ OpenSealing(p) \/ WriteSealing(p) \/ Verify(p) \/ Rename(p)
    \/ Die(p)

Spec == Init /\ [][Next]_vars

-------------------------------------------------------------------------------
\* Properties

TypeOK ==
    /\ at \in [{"key", "sealing"} -> Inodes \cup {NoFile}]
    /\ \E n \in 0..MaxInodes : disk \in [1..n -> Contents]
    /\ \A name \in DOMAIN at : Exists(name) => at[name] \in DOMAIN disk
    /\ runs \in [Processes -> Run]
    /\ relied \subseteq Keys
    /\ told \in Passphrases \cup {"none"}

\* "Refuses rather than overwrites" (main.rs:357): a key that some run has
\* used, and that may hold this workstation's only balance, is the one in the
\* file, and it opens with the passphrase its operator was told it would,
\* wherever a run or a seal has died.
ReliedKeysOpen ==
    \A k \in relied : Exists("key") /\ unseal(File("key"), told) = {k}

\* Every run that has got past opening the file works for the same account.
OneAccount ==
    \A p, q \in Processes :
        runs[p].pc \in Steps \ {"create", "write"} /\ runs[q].pc \in Steps => runs[p].key = runs[q].key

\* After the first seal that went through, no plaintext is under either name,
\* whatever later runs, refused ones and seals that die included, do.
StaysSealed ==
    told # "none" => \A name \in DOMAIN at : Exists(name) => File(name).kind # "plain"
===============================================================================
