------------------------ MODULE CredentialRotation ------------------------
(***************************************************************************)
(* The journaled rotation of the gateway's credentials                     *)
(* (scripts/rotate_codex_gateway_credentials.py): two database passwords   *)
(* changed in one transaction, five environment files replaced one by one, *)
(* and a journal that holds both generations until an operator finalises   *)
(* or rolls back.  The script may be killed anywhere, and any call may     *)
(* raise before or after its effect; --resume and --rollback start from    *)
(* the journal alone.                                                      *)
(*                                                                         *)
(* A credential is its generation: a file is replaced whole, so what it    *)
(* holds is one number.                                                    *)
(*                                                                         *)
(* The last file is root's.  The script stages its content and starts a    *)
(* helper through sudo (deploy/brain-shrik-env-control), a process of its  *)
(* own that takes no lock: it outlives a script that is killed or waits    *)
(* no longer, and may replace the file after later calls wrote it.         *)
(***************************************************************************)
EXTENDS Integers, Sequences

CONSTANTS
    Procs,          \* invocations that may overlap
    Helpers,        \* helper processes, those left behind included
    MaxGen          \* bound on the generations ever drawn

Nobody == "none"

\* Generations are numbered, and no invocation is called Nobody.
ASSUME RotationAssumption == MaxGen \in Nat \ {0} /\ Nobody \notin Procs

Absent == 0                         \* a file that does not exist
NoJournal == [new |-> Absent, snap |-> << >>]

\* In the order they are installed and restored.
Order == <<"brain", "red_data", "red_codex", "gateway", "shrik">>
Files == {Order[i] : i \in DOMAIN Order}
Commands == {"apply", "resume", "finalize", "rollback"}

VARIABLES
    db,             \* [role -> generation PostgreSQL accepts]
    file,           \* [Files -> generation, or Absent]
    mode,           \* of the file only root may write, set by its owner
    journal,        \* what the journal holds, or NoJournal
    gateway,        \* whether the running gateway answers to the last generation
    fresh,          \* last generation drawn (token_hex)
    lock,           \* invocation holding the file lock, or Nobody
    proc,           \* [Procs -> place, command, state, next file]
    helper,         \* [Helpers -> place, the invocation waiting for it, what it reads]
    stray           \* a helper left behind wrote what root's file holds

publication == <<helper, stray>>
rotationVars == <<db, file, mode, journal, gateway, fresh, lock, proc, publication>>

Gens == 0 .. MaxGen
States == [new : Gens, snap : [Files -> Gens]] \cup {NoJournal}
Cutover == {"measure", "rotate", "install", "prove"}
Undo == {"undo", "unrotate", "restore", "unprove"}
Places == {"idle", "preflight", "prepare", "write", "probe", "compare", "remove"} \cup Cutover \cup Undo
NoHelper == [at |-> "off", by |-> Nobody, gen |-> Absent]
NotRunning == [pc |-> "idle", cmd |-> "apply", st |-> NoJournal, k |-> 1]

\* Credentials, journal, lock and invocations keep their shapes.
RotationTypeOK ==
    /\ db \in [{"brain", "codex_ro"} -> Gens]
    /\ file \in [Files -> Gens]
    /\ mode \in {"0640", "0600"}
    /\ journal \in States
    /\ gateway \in BOOLEAN /\ fresh \in Gens
    /\ lock \in Procs \cup {Nobody}
    /\ proc \in [Procs -> [pc : Places, cmd : Commands, st : States, k : 1 .. Len(Order)]]
    /\ stray \in BOOLEAN
    /\ helper \in [Helpers -> [at : {"off", "begun", "ready", "ok", "failed"},
                               by : Procs \cup {Nobody}, gen : Gens]]

\* The gateway's own file may not exist yet.
RotationInit ==
    /\ db = [r \in {"brain", "codex_ro"} |-> 1]
    /\ \E g \in {Absent, 1} : file = [[f \in Files |-> 1] EXCEPT !["gateway"] = g]
    /\ gateway = FALSE
    /\ mode \in {"0640", "0600"}
    /\ journal = NoJournal /\ fresh = 1
    /\ lock = Nobody
    /\ proc = [p \in Procs |-> NotRunning]
    /\ helper = [h \in Helpers |-> NoHelper] /\ stray = FALSE

(***************************************************************************)
(* How a call ends                                                         *)
(***************************************************************************)
\* Inside the cutover an exception starts the automatic rollback; anywhere
\* else it ends the invocation, and the journal stays as it is.
Caught(p) == IF proc[p].cmd # "finalize" /\ proc[p].pc \in Cutover THEN "undo" ELSE "idle"

Goto(p, pc) ==
    /\ proc' = [proc EXCEPT ![p] = IF pc = "idle" THEN NotRunning ELSE [@ EXCEPT !.pc = pc, !.k = 1]]
    /\ lock' = IF pc = "idle" /\ lock = p THEN Nobody ELSE lock

\* The next place, or an exception after the effect: a lost answer to a
\* commit, a directory that could not be synced.
Continue(p, pc) == \E to \in {pc, Caught(p)} : Goto(p, to)

\* One file of several, in order.
Advance(p, pc) ==
    IF proc[p].k = Len(Order)
    THEN Continue(p, pc)
    ELSE \/ /\ proc' = [proc EXCEPT ![p].k = @ + 1]
            /\ UNCHANGED lock
         \/ Goto(p, Caught(p))

At(p, pc) == proc[p].pc = pc
State(p) == proc[p].st
Target(p) == Order[proc[p].k]

\* A call to the helper ends when the helper does, or after a minute.
Waiting(p) == \E h \in Helpers : helper[h].by = p

\* An exception before the effect.
Raise(p) ==
    /\ ~At(p, "idle") /\ ~Waiting(p)
    /\ Goto(p, Caught(p))
    /\ UNCHANGED <<db, file, mode, journal, gateway, fresh, publication>>

\* The stage is a file at a fixed path, which matters to a helper until it has
\* read it: whoever writes or removes it changes what such helpers will read.
Restaged(g) == [h \in Helpers |-> IF helper[h].at = "begun" THEN [helper[h] EXCEPT !.gen = g] ELSE helper[h]]

LeftBy(p, hs) == [h \in Helpers |-> IF hs[h].by # p THEN hs[h]
                                   ELSE IF hs[h].at \in {"ok", "failed"} THEN NoHelper
                                   ELSE [hs[h] EXCEPT !.by = Nobody]]

\* The end of the process, which a helper does not share.  An interrupt still
\* removes the stage, a kill does not.
Crash(p) ==
    /\ ~At(p, "idle")
    /\ Goto(p, "idle")
    /\ \/ helper' = LeftBy(p, helper)
       \/ Waiting(p) /\ helper' = LeftBy(p, Restaged(Absent))
    /\ UNCHANGED <<db, file, mode, journal, gateway, fresh, stray>>

\* The minute is over.  sudo may be killed and the helper under it live on.
GiveUp(p) ==
    /\ Waiting(p)
    /\ Goto(p, Caught(p))
    /\ helper' = LeftBy(p, Restaged(Absent))
    /\ UNCHANGED <<db, file, mode, journal, gateway, fresh, stray>>

(***************************************************************************)
(* An invocation                                                           *)
(***************************************************************************)
IgnoreLock == TRUE
LockFree == lock = Nobody

Entry == [apply |-> "preflight", resume |-> "measure", finalize |-> "prove", rollback |-> "undo"]

\* A held lock and a missing journal refuse.
Invoke(p, cmd) ==
    /\ At(p, "idle") /\ LockFree
    /\ cmd # "apply" => journal # NoJournal
    /\ lock' = p
    /\ proc' = [proc EXCEPT ![p] = [pc |-> Entry[cmd], cmd |-> cmd, k |-> 1,
                                    st |-> IF cmd = "apply" THEN NoJournal ELSE journal]]
    /\ UNCHANGED <<db, file, mode, journal, gateway, fresh, publication>>

\* The consumers of one credential hold the same one.
Consistent ==
    /\ file["brain"] = file["red_data"] /\ file["brain"] = file["shrik"]
    /\ file["gateway"] \in {Absent, file["red_codex"]}

\* The helper's own check accepts its file in one mode only.
Writable == mode = "0640"

Preflight(p) ==
    /\ At(p, "preflight") /\ Consistent /\ Writable
    /\ db["brain"] = file["brain"] /\ db["codex_ro"] = file["red_codex"]
    /\ Continue(p, "prepare")
    /\ UNCHANGED <<db, file, mode, journal, gateway, fresh, publication>>

\* The snapshots and the new credentials.
Prepare(p) ==
    /\ At(p, "prepare") /\ Consistent
    /\ journal = NoJournal /\ fresh < MaxGen
    /\ fresh' = fresh + 1 /\ gateway' = FALSE
    /\ proc' = [proc EXCEPT ![p].pc = "write", ![p].st = [new |-> fresh + 1, snap |-> file]]
    /\ UNCHANGED <<db, file, mode, journal, lock, publication>>

WriteJournal(p) ==
    /\ At(p, "write")
    /\ journal' = State(p)
    /\ Continue(p, "measure")
    /\ UNCHANGED <<db, file, mode, gateway, fresh, publication>>

(***************************************************************************)
(* The cutover                                                             *)
(***************************************************************************)
OldRoles(st) == [brain |-> st.snap["brain"], codex_ro |-> st.snap["red_codex"]]
NewRoles(st) == [brain |-> st.new, codex_ro |-> st.new]

\* Decides by logging in with all four passwords; a mix raises.
Measure(p) ==
    /\ At(p, "measure")
    /\ \/ db = OldRoles(State(p)) /\ Continue(p, "rotate")
       \/ db = NewRoles(State(p)) /\ Continue(p, "install")
    /\ UNCHANGED <<db, file, mode, journal, gateway, fresh, publication>>

\* Both roles in one transaction.
Rotate(p) ==
    /\ At(p, "rotate")
    /\ db = OldRoles(State(p))
    /\ db' = NewRoles(State(p))
    /\ Continue(p, "install")
    /\ UNCHANGED <<file, mode, journal, gateway, fresh, publication>>

InstallFile(p) ==
    /\ At(p, "install") /\ Target(p) # "shrik"
    /\ file' = [file EXCEPT ![Target(p)] = State(p).new]
    /\ Advance(p, "prove")
    /\ UNCHANGED <<db, mode, journal, gateway, fresh, publication>>

\* The end of --apply and of --resume, the journal kept; the beginning of
\* the finalisation.
ProveNew(p) ==
    /\ At(p, "prove") /\ db = NewRoles(State(p))
    /\ Continue(p, IF proc[p].cmd = "finalize" THEN "probe" ELSE "idle")
    /\ UNCHANGED <<db, file, mode, journal, gateway, fresh, publication>>

(***************************************************************************)
(* The rollback, automatic or asked for                                    *)
(***************************************************************************)
MeasureUndo(p) ==
    /\ At(p, "undo")
    /\ \/ db = NewRoles(State(p)) /\ Continue(p, "unrotate")
       \/ db = OldRoles(State(p)) /\ Continue(p, "restore")
    /\ UNCHANGED <<db, file, mode, journal, gateway, fresh, publication>>

Unrotate(p) ==
    /\ At(p, "unrotate") /\ db = NewRoles(State(p))
    /\ db' = OldRoles(State(p))
    /\ Continue(p, "restore")
    /\ UNCHANGED <<file, mode, journal, gateway, fresh, publication>>

RestoreFile(p) ==
    /\ At(p, "restore") /\ Target(p) # "shrik"
    /\ file' = [file EXCEPT ![Target(p)] = State(p).snap[Target(p)]]
    /\ Advance(p, "unprove")
    /\ UNCHANGED <<db, mode, journal, gateway, fresh, publication>>

(***************************************************************************)
(* Root's file, in the cutover and in the rollback                         *)
(***************************************************************************)
Payload(p) == IF At(p, "install") THEN State(p).new ELSE State(p).snap["shrik"]

\* SudoShrikInstaller.install stages the payload and starts the helper.
Publish(p) ==
    /\ At(p, "install") \/ At(p, "restore")
    /\ Target(p) = "shrik" /\ Writable /\ ~Waiting(p)
    /\ \E h \in Helpers :
          /\ helper[h] = NoHelper
          /\ helper' = [Restaged(Payload(p)) EXCEPT ![h] = [at |-> "begun", by |-> p, gen |-> Payload(p)]]
    /\ UNCHANGED <<db, file, mode, journal, gateway, fresh, lock, proc, stray>>

ReadStage(h) ==
    /\ helper[h].at = "begun" /\ Writable /\ helper[h].gen # Absent
    /\ helper' = [helper EXCEPT ![h].at = "ready"]
    /\ UNCHANGED <<db, file, mode, journal, gateway, fresh, lock, proc, stray>>

\* Somebody may wait for the result, or nobody any more.
Result(h, how) == IF helper[h].by = Nobody THEN NoHelper ELSE [helper[h] EXCEPT !.at = how]

\* os.replace; then the file is read back and the stage removed.  What others
\* do in between can only make the helper fail.
ReplaceTarget(h) ==
    /\ helper[h].at = "ready"
    /\ file' = [file EXCEPT !["shrik"] = helper[h].gen]
    /\ stray' = (helper[h].by = Nobody)
    /\ \/ helper' = [Restaged(Absent) EXCEPT ![h] = Result(h, "ok")]
       \/ helper' = [helper EXCEPT ![h] = Result(h, "failed")]
    /\ UNCHANGED <<db, mode, journal, gateway, fresh, lock, proc>>

\* No stage to read, or any error before the file is replaced.
HelperFails(h) ==
    /\ helper[h].at \in {"begun", "ready"}
    /\ helper' = [helper EXCEPT ![h] = Result(h, "failed")]
    /\ UNCHANGED <<db, file, mode, journal, gateway, fresh, lock, proc, stray>>

\* install removes the stage and judges the helper's exit status.
Published(p) ==
    \E h \in Helpers :
        /\ helper[h].by = p /\ helper[h].at \in {"ok", "failed"}
        /\ helper' = [Restaged(Absent) EXCEPT ![h] = NoHelper]
        /\ IF helper[h].at = "ok"
           THEN Advance(p, IF At(p, "install") THEN "prove" ELSE "unprove")
           ELSE Goto(p, Caught(p))
        /\ UNCHANGED <<db, file, mode, journal, gateway, fresh, stray>>

\* Only the rollback an operator asked for removes the journal.
ProveOld(p) ==
    /\ At(p, "unprove") /\ db = OldRoles(State(p))
    /\ Continue(p, IF proc[p].cmd = "rollback" THEN "remove" ELSE "idle")
    /\ UNCHANGED <<db, file, mode, journal, gateway, fresh, publication>>

(***************************************************************************)
(* The finalisation                                                        *)
(***************************************************************************)
\* The consumers are started again and read their files.
Recreate ==
    /\ gateway' = (file["gateway"] = fresh)
    /\ UNCHANGED <<db, file, mode, journal, fresh, lock, proc, publication>>

ProveGateway(p) ==
    /\ At(p, "probe") /\ gateway
    /\ Continue(p, "compare")
    /\ UNCHANGED <<db, file, mode, journal, gateway, fresh, publication>>

InstalledUnread(p) == TRUE
Installed(p) == \A f \in Files : file[f] = State(p).new

ProveInstalled(p) ==
    /\ At(p, "compare") /\ Installed(p)
    /\ Continue(p, "remove")
    /\ UNCHANGED <<db, file, mode, journal, gateway, fresh, publication>>

RemoveJournal(p) ==
    /\ At(p, "remove")
    /\ journal' = NoJournal
    /\ Goto(p, "idle")
    /\ UNCHANGED <<db, file, mode, gateway, fresh, publication>>

RotationNext ==
    \/ Recreate
    \/ \E p \in Procs :
        \/ \E cmd \in Commands : Invoke(p, cmd)
        \/ Preflight(p) \/ Prepare(p) \/ WriteJournal(p)
        \/ Measure(p) \/ Rotate(p) \/ InstallFile(p) \/ ProveNew(p)
        \/ MeasureUndo(p) \/ Unrotate(p) \/ RestoreFile(p) \/ ProveOld(p)
        \/ Publish(p) \/ Published(p) \/ GiveUp(p)
        \/ ProveGateway(p) \/ ProveInstalled(p) \/ RemoveJournal(p)
        \/ Raise(p) \/ Crash(p)
    \/ \E h \in Helpers : ReadStage(h) \/ ReplaceTarget(h) \/ HelperFails(h)

RotationSpec == RotationInit /\ [][RotationNext]_rotationVars

(***************************************************************************)
(* Properties                                                              *)
(***************************************************************************)
\* Root's file holds what a helper wrote that nobody waited for any more.
Strayed(f) == f = "shrik" /\ stray

\* Without a journal the database and every consumer's file hold the same
\* generation, whatever was killed, failed half-way or answered late before:
\* the journal goes only when nothing needs it (_remove_journal).  The one
\* exception is root's file, when a helper that outlived its script was the
\* last to replace it.
NoMixWithoutJournal ==
    journal = NoJournal =>
        \E g \in Gens \ {Absent} :
            /\ \A r \in DOMAIN db : db[r] = g
            /\ \A f \in Files : file[f] \in (IF f = "gateway" THEN {Absent, g} ELSE {g}) \/ Strayed(f)

\* The journal on disk holds every credential in use: both roles at once on
\* one of its two generations, and each file on either, so that --resume and
\* --rollback can always tell where they are (_credential_generation), also
\* after overlapping invocations (_exclusive_lock, _prepare_state).  A helper
\* left behind may have put an older generation into root's file, which the
\* next publication replaces.
JournalCoversAll ==
    journal # NoJournal =>
        /\ db \in {OldRoles(journal), NewRoles(journal)}
        /\ \A f \in Files : file[f] \in {journal.snap[f], journal.new} \/ Strayed(f)
=============================================================================
