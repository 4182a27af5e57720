--------------------------- MODULE ProgramWrites ---------------------------
(***************************************************************************)
(* How a tool call changes a program: the write boundary, headless and in  *)
(* the Ghidra GUI, the transactions of one command, batch edits, history   *)
(* steps and writes outside the program, and what a failed call reports as *)
(* details.output_state (session/write_boundary.py, session/transactions.py*)
(* gui/write_boundary.py, handlers, runtime/core_execution.py).            *)
(*                                                                         *)
(* In the GUI the program is shared: a human edits and undoes on Swing's   *)
(* event thread (EDT), and other threads (auto-analysis, what a command    *)
(* left behind) may open a transaction, join the open one or end theirs at *)
(* any moment.  An edit is a token <<author, number, item>>.               *)
(***************************************************************************)
EXTENDS Naturals, Sequences, SequencesExt

CONSTANTS
  Backends,      \* {"headless", "gui"} or one of them; one per process
  WriteKinds,    \* the kinds of commands that are called
  MaxItems,      \* items of a batch
  MaxCommands,   \* bound on the commands called
  MaxForeign     \* bound on what the human and other threads start or edit

VARIABLES
  backend,   \* the installed write boundary
  prog,      \* the program and its transaction manager
  cmd,       \* the command being run, or the last one with its reply
  rec,       \* the TransactionRecord of the command
  edt,       \* who runs on the EDT: "free" or "mecha"
  foreign    \* what the human and the other threads started so far

writesVars == <<backend, prog, cmd, rec, edt, foreign>>

Author(e) == e[1]
Mine(i) == <<"mecha", cmd.n, i>>
Written == {Mine(i) : i \in 1..MaxItems}

-----------------------------------------------------------------------------
\* Ghidra's transaction manager, as the code above it relies on it.  `own`
\* counts Mecha's entries in the open transaction, `other` says another
\* thread has one; `landed` collects every edit a transaction committed.

NewProgram == [own |-> 0, other |-> FALSE, aborted |-> FALSE, by |-> "none", pending |-> {},
               undo |-> <<>>, redo |-> <<>>, mod |-> 0, landed |-> {}]

Open(p) == p.own > 0 \/ p.other

\* startTransaction joins the open transaction, or opens one.
Started(p, who) ==
  LET q == IF who = "Mecha" THEN [p EXCEPT !.own = @ + 1] ELSE [p EXCEPT !.other = TRUE]
  IN  IF Open(p) THEN q ELSE [q EXCEPT !.by = who]

Changed(p, edits) == [p EXCEPT !.pending = @ \cup edits, !.mod = IF edits = {} THEN @ ELSE @ + 1]

\* The last entry ends the transaction: one entry that did not commit rolls
\* back what every entry did.
Finished(p) ==
  IF p.aborted
  THEN [p EXCEPT !.aborted = FALSE, !.pending = {}, !.by = "none", !.mod = IF p.pending = {} THEN @ ELSE @ + 1]
  ELSE IF p.pending = {} THEN [p EXCEPT !.by = "none"]
  ELSE [p EXCEPT !.undo = Append(@, [by |-> p.by, edits |-> p.pending]), !.redo = <<>>,
                 !.landed = @ \cup p.pending, !.pending = {}, !.by = "none"]

LeftBy(p, who, commit) ==
  LET q == [(IF who = "Mecha" THEN [p EXCEPT !.own = @ - 1] ELSE [p EXCEPT !.other = FALSE])
              EXCEPT !.aborted = @ \/ ~commit]
  IN  IF Open(q) THEN q ELSE Finished(q)

\* A transaction of the record that ends gets the status its TransactionInfo
\* answers afterwards.
InfoAfter(r, p, who, commit) ==
  IF r.open /\ ~Open(LeftBy(p, who, commit))
  THEN [r EXCEPT !.open = FALSE,
                 !.ended = @ \cup {<<IF p.aborted \/ ~commit THEN "ABORTED" ELSE "COMMITTED", p.pending # {}>>}]
  ELSE r

CanStep(p, kind) == ~Open(p) /\ (IF kind = "redo" THEN p.redo ELSE p.undo) # <<>>
StepToTake(p, kind) == IF kind = "redo" THEN Last(p.redo) ELSE Last(p.undo)
Stepped(p, kind) ==
  IF ~CanStep(p, kind) THEN p
  ELSE IF kind = "redo"
       THEN [p EXCEPT !.undo = Append(@, Last(p.redo)), !.redo = Front(@), !.mod = @ + 1]
       ELSE [p EXCEPT !.redo = Append(@, Last(p.undo)), !.undo = Front(@), !.mod = @ + 1]

\* What the program shows that is not about to be rolled back.
Contents(p) == (UNION {s.edits : s \in ToSet(p.undo)}) \cup (IF p.aborted THEN {} ELSE p.pending)
HumansEdits(p) == {e \in Contents(p) : Author(e) = "human"}

-----------------------------------------------------------------------------
\* The record of a command's transactions.

\* Headless, the listener sees the top-level transactions of its thread; in
\* the GUI it sees none, and the boundary notes its own.
NewRecord(listening) == [listening |-> listening, open |-> FALSE, ended |-> {}, history |-> FALSE, external |-> FALSE]

Noted(r) == backend = "gui" /\ (r.open \/ r.ended # {} \/ r.history)

\* Mutant: an external write is taken for one that transactions show.
OutcomeInProgramOnly(r) ==
  IF r.open \/ (~r.listening /\ ~Noted(r)) THEN "unknown"
  ELSE IF r.history \/ <<"COMMITTED", TRUE>> \in r.ended THEN "committed"
  ELSE IF \E wrote \in BOOLEAN : <<"ABORTED", wrote>> \in r.ended THEN "rolled_back"
  ELSE "unchanged"

Outcome(r) ==
  IF r.external \/ r.open \/ (~r.listening /\ ~Noted(r)) THEN "unknown"
  ELSE IF r.history \/ <<"COMMITTED", TRUE>> \in r.ended THEN "committed"
  ELSE IF \E wrote \in BOOLEAN : <<"ABORTED", wrote>> \in r.ended THEN "rolled_back"
  ELSE "unchanged"

OutputState(outcome) ==
  CASE outcome \in {"unchanged", "rolled_back"} -> "absent"
    [] outcome = "committed" -> "created"
    [] OTHER -> "uncertain"

-----------------------------------------------------------------------------
NoCommand == [n |-> 0, kind |-> "none", pc |-> "done", atomic |-> TRUE, dry |-> FALSE, size |-> 0,
              view |-> "none", seen |-> 0, shown |-> {}, outer |-> FALSE, results |-> <<>>, steps |-> 0,
              outside |-> FALSE, error |-> FALSE, late |-> FALSE, reply |-> "none"]

\* The program's history when the calls begin: a human's step, then Mecha's.
Before(by, n) == [by |-> by, edits |-> {<<IF by = "Mecha" THEN "mecha" ELSE "human", MaxForeign + n, 0>>}]
History(n) == <<Before("Other", n), Before("Mecha", n)>>

WritesInit ==
  /\ backend \in Backends
  /\ prog = [NewProgram EXCEPT !.undo = History(0), !.redo = History(1)]
  /\ cmd = NoCommand /\ rec = NewRecord(TRUE)
  /\ edt = "free" /\ foreign = 0

Goto(pc) == cmd' = [cmd EXCEPT !.pc = pc]
\* An exception on the way: it leaves the section, the EDT and the handler.
Fail(pc) == cmd' = [cmd EXCEPT !.pc = pc, !.error = TRUE]

GuiRefuses(dry) == backend = "gui" /\ dry

\* A write arrives.  Only a batch has a choice of atomic and dry_run.
CallWrite(kind, size, atomic, dry) ==
  /\ cmd.pc = "done" /\ cmd.n < MaxCommands
  /\ size = 1 \/ kind \in {"batch", "matches", "undo", "redo"}
  /\ kind = "batch" \/ (atomic /\ ~dry)
  /\ ~GuiRefuses(dry)
  /\ cmd' = [NoCommand EXCEPT !.n = cmd.n + 1, !.kind = kind, !.pc = "checks",
                              !.size = size, !.atomic = atomic, !.dry = dry]
  /\ UNCHANGED <<backend, prog, rec, edt, foreign>>

\* _run_checked_locked: a refused write never ran.
ChecksRefuse ==
  /\ cmd.pc = "checks"
  /\ cmd' = [cmd EXCEPT !.pc = "done", !.error = TRUE, !.reply = "absent"]
  /\ UNCHANGED <<backend, prog, rec, edt, foreign>>

\* core.execute: the command runs under a new record; adding the listener may fail.
Execute ==
  /\ cmd.pc = "checks"
  /\ \E listening \in BOOLEAN : rec' = NewRecord(listening)
  /\ \/ cmd.kind = "variable" /\ Goto("decompile")
     \/ cmd.kind = "update" /\ Goto("external")
     \/ cmd.kind = "register" /\ \E pc \in {"enter", "external"} : Goto(pc)
     \/ cmd.kind \notin {"variable", "update", "register"} /\ Goto("enter")
  /\ UNCHANGED <<backend, prog, edt, foreign>>

\* rename_variable, set_local_variable_type: read the modification number,
\* then decompile; without a decompiled view the database variables are used.
\* Of what the view shows, `shown` keeps the human's edits.
ReadModification ==
  /\ cmd.pc = "decompile"
  /\ cmd' = [cmd EXCEPT !.pc = "view", !.seen = prog.mod]
  /\ UNCHANGED <<backend, prog, rec, edt, foreign>>

Decompile ==
  /\ cmd.pc = "view"
  /\ \/ cmd' = [cmd EXCEPT !.pc = "enter", !.view = "decompiled", !.shown = HumansEdits(prog)]
     \/ cmd' = [cmd EXCEPT !.pc = "enter", !.view = "database"]
  /\ UNCHANGED <<backend, prog, rec, edt, foreign>>

\* A handler's own validation, before it asks the boundary for anything.
HandlerRefuses ==
  /\ cmd.pc = "enter" /\ Fail("finish")
  /\ UNCHANGED <<backend, prog, rec, edt, foreign>>

\* write / section / undo / redo of the boundary.
EnterBoundary ==
  /\ cmd.pc = "enter"
  /\ Goto(IF backend = "gui" THEN "wait" ELSE "section")
  /\ UNCHANGED <<backend, prog, rec, edt, foreign>>

-----------------------------------------------------------------------------
\* gui/write_boundary._on_edt_when_idle.

DeadlinePasses ==
  /\ cmd.pc \in {"wait", "queue"} /\ ~cmd.late
  /\ cmd' = [cmd EXCEPT !.late = TRUE]
  /\ UNCHANGED <<backend, prog, rec, edt, foreign>>

\* Rule 1: poll until no transaction is open, up to the lock timeout.
WaitUntilIdle ==
  /\ cmd.pc = "wait"
  /\ \/ ~Open(prog) /\ Goto("queue")
     \/ Open(prog) /\ cmd.late /\ Fail("finish")
  /\ UNCHANGED <<backend, prog, rec, edt, foreign>>

\* The EDT starts the attempt: it looks again, and a busy program sends the
\* call back to the poll, up to the deadline.
OnEdt ==
  /\ cmd.pc = "queue" /\ edt = "free"
  /\ \/ ~Open(prog) /\ Goto("section") /\ edt' = "mecha"
     \/ Open(prog) /\ cmd.late /\ Fail("finish") /\ UNCHANGED edt
     \/ Open(prog) /\ ~cmd.late /\ Goto("wait") /\ UNCHANGED edt
  /\ UNCHANGED <<backend, prog, rec, foreign>>

\* run_on_edt: the EDT does not start the work in time, and then never does.
EdtTooBusy ==
  /\ cmd.pc = "queue" /\ Fail("finish")
  /\ UNCHANGED <<backend, prog, rec, edt, foreign>>

-----------------------------------------------------------------------------
\* The section: a single write is one transaction around its edits; a batch
\* has an outer transaction (atomic or dry_run) or one per item.

ForeignOpen == backend = "gui" /\ prog.own = 0 /\ Open(prog)

\* A batch validates and compares the expected revision inside the section.
BatchRefuses ==
  /\ cmd.pc = "section" /\ cmd.kind = "batch" /\ Fail("leave")
  /\ UNCHANGED <<backend, prog, rec, edt, foreign>>

\* start(), first half: never join another thread's transaction.
StartOuter ==
  /\ cmd.pc = "section" /\ cmd.kind \notin {"undo", "redo"}
  /\ IF cmd.kind # "batch" \/ cmd.atomic \/ cmd.dry
     THEN IF ForeignOpen THEN Fail("leave")
          ELSE cmd' = [cmd EXCEPT !.pc = "start", !.outer = TRUE]
     ELSE Goto("item")
  /\ UNCHANGED <<backend, prog, rec, edt, foreign>>

MoreItems == Len(cmd.results) < cmd.size /\ ("failed" \notin ToSet(cmd.results) \/ ~cmd.atomic)

StartItem ==
  /\ cmd.pc = "item" /\ MoreItems /\ ~cmd.outer
  /\ IF ForeignOpen
     THEN cmd' = [cmd EXCEPT !.results = Append(@, "failed")]
     ELSE Goto("start")
  /\ UNCHANGED <<backend, prog, rec, edt, foreign>>

\* start(), second half: another thread may have opened one since the check.
StartTransaction ==
  /\ cmd.pc = "start"
  /\ prog' = Started(prog, "Mecha")
  /\ rec' = [rec EXCEPT !.open = TRUE]
  /\ Goto(IF cmd.outer THEN "item" ELSE "edit")
  /\ UNCHANGED <<backend, edt, foreign>>

\* Mutant: the modification number is not compared.
NeverStale == FALSE

Stale == prog.mod # cmd.seen

\* _ensure_unchanged_since, in the open transaction: what is written from the
\* view comes after it, and a background thread that joins may write between.
CheckView ==
  /\ cmd.pc = "item" /\ cmd.outer /\ MoreItems /\ cmd.view = "decompiled"
  /\ IF Stale THEN cmd' = [cmd EXCEPT !.results = Append(@, "failed")] ELSE Goto("write")
  /\ UNCHANGED <<backend, prog, rec, edt, foreign>>

\* What one edit does before its transaction ends: it may also fail halfway,
\* as between commitParamsToDatabase and updateDBVariable.
\* The nested transaction of a batch item's handler joins the open one and,
\* when the handler fails in it, aborts it.
EditResults ==
  {"applied", "same", "refused"}
    \cup (IF cmd.kind = "matches" THEN {} ELSE {"halfway"})
    \cup (IF cmd.kind = "batch" THEN {"aborted"} ELSE {})

Edited(p, i, result) ==
  LET q == Changed(p, IF result \in {"applied", "halfway"} THEN {Mine(i)} ELSE {})
  IN  IF result = "aborted" THEN [q EXCEPT !.aborted = TRUE] ELSE q

Edit ==
  /\ \/ cmd.pc = "item" /\ cmd.outer /\ MoreItems /\ cmd.view # "decompiled"
     \/ cmd.pc \in {"edit", "write"}
  /\ \E result \in EditResults :
       LET i == Len(cmd.results) + 1
           kept == IF result \in {"applied", "same"} THEN result
                   \* bsim_apply_matches lists a failed rename and goes on
                   ELSE IF cmd.kind = "matches" THEN "skipped" ELSE "failed"
       IN  /\ prog' = Edited(prog, i, result)
           /\ cmd' = IF cmd.outer THEN [cmd EXCEPT !.pc = "item", !.results = Append(@, kept)]
                     ELSE [cmd EXCEPT !.pc = "itemend", !.results = Append(@, kept)]
  /\ UNCHANGED <<backend, rec, edt, foreign>>

\* end(): in the GUI a commit that did not finish the transaction raises.
EndTransaction(commit, next) ==
  LET p == LeftBy(prog, "Mecha", commit)
      committed == commit /\ ~prog.aborted /\ ~Open(p)
  IN  /\ prog' = p
      /\ rec' = InfoAfter(rec, prog, "Mecha", commit)
      /\ cmd' = IF backend = "gui" /\ commit /\ p.own = 0 /\ ~committed
                THEN [next EXCEPT !.pc = "leave", !.error = TRUE] ELSE next
      /\ UNCHANGED <<backend, edt, foreign>>

EndItem ==
  /\ cmd.pc = "itemend"
  /\ EndTransaction(Last(cmd.results) # "failed", [cmd EXCEPT !.pc = "item"])

Completed == Len(cmd.results) = cmd.size /\ "failed" \notin ToSet(cmd.results)

\* The statuses a batch reports: what its outer transaction rolled back is
\* renamed, and the items after a failure were not attempted.
Reported ==
  LET named(r) == IF cmd.outer /\ (cmd.dry \/ ~Completed) /\ r \in {"applied", "same"}
                  THEN (IF cmd.dry THEN "simulated" ELSE "rolled_back") ELSE r
  IN  [i \in 1..cmd.size |-> IF i <= Len(cmd.results) THEN named(cmd.results[i]) ELSE "not_attempted"]

EndOuter ==
  /\ cmd.pc = "item" /\ cmd.outer /\ ~MoreItems
  /\ EndTransaction(Completed /\ ~cmd.dry,
       [cmd EXCEPT !.pc = "leave", !.results = IF cmd.kind = "batch" THEN Reported ELSE @,
                   !.error = cmd.kind # "batch" /\ ~Completed])

EndBatch ==
  /\ cmd.pc = "item" /\ ~cmd.outer /\ ~MoreItems
  /\ cmd' = [cmd EXCEPT !.pc = "leave", !.results = Reported]
  /\ UNCHANGED <<backend, prog, rec, edt, foreign>>

-----------------------------------------------------------------------------
\* undo and redo, up to `size` steps; the GUI boundary only takes its own.

HistoryCheck ==
  /\ cmd.pc = "section" /\ cmd.kind \in {"undo", "redo"}
  /\ IF cmd.steps = cmd.size \/ ~CanStep(prog, cmd.kind) THEN Goto("leave")
     ELSE IF backend = "gui" /\ StepToTake(prog, cmd.kind).by # "Mecha"
          THEN IF cmd.steps > 0 THEN Goto("leave") ELSE Fail("leave")
     ELSE Goto("history")
  /\ UNCHANGED <<backend, prog, rec, edt, foreign>>

HistoryStep ==
  /\ cmd.pc = "history"
  /\ prog' = Stepped(prog, cmd.kind)
  /\ rec' = [rec EXCEPT !.history = TRUE]
  /\ cmd' = [cmd EXCEPT !.pc = "section", !.steps = @ + 1]
  /\ UNCHANGED <<backend, edt, foreign>>

\* The next step's name could not be read, or Ghidra refused the step.
HistoryFails ==
  /\ cmd.pc = "history" /\ Fail("leave")
  /\ UNCHANGED <<backend, prog, rec, edt, foreign>>

LeaveSection ==
  /\ cmd.pc = "leave"
  /\ edt' = "free"
  /\ Goto(IF cmd.kind = "register" /\ ~cmd.error THEN "external" ELSE "finish")
  /\ UNCHANGED <<backend, prog, rec, foreign>>

\* bsim_register_target, bsim_update_target_signatures: the session, the scan
\* and the look-up may fail; the write is noted before it starts.
ExternalRefused ==
  /\ cmd.pc = "external" /\ Fail("finish")
  /\ UNCHANGED <<backend, prog, rec, edt, foreign>>

ExternalWrite ==
  /\ cmd.pc = "external"
  /\ rec' = [rec EXCEPT !.external = TRUE]
  /\ \E landed, fails \in BOOLEAN :
       /\ landed \/ fails
       /\ cmd' = [cmd EXCEPT !.pc = "finish", !.outside = landed, !.error = fails]
  /\ UNCHANGED <<backend, prog, edt, foreign>>

\* RuntimeCoreExecution.call: the result, or the error with its output_state.
FinishWrite ==
  /\ cmd.pc = "finish"
  /\ cmd' = [cmd EXCEPT !.pc = "done", !.reply = IF cmd.error THEN OutputState(Outcome(rec)) ELSE "ok"]
  /\ UNCHANGED <<backend, prog, rec, edt, foreign>>

-----------------------------------------------------------------------------
\* The GUI's other actors.

MayAct == backend = "gui" /\ foreign < MaxForeign

\* One event of the human on the EDT; a command may leave a background
\* transaction open behind it.
HumanEdits(leaves) ==
  /\ MayAct /\ edt = "free"
  /\ foreign' = foreign + 1
  /\ LET p == Changed(Started(prog, "Other"), {<<"human", foreign, 0>>})
     IN  prog' = IF prog.other \/ leaves THEN p ELSE LeftBy(p, "Other", TRUE)
  /\ UNCHANGED <<backend, cmd, rec, edt>>

HumanUndoes ==
  /\ MayAct /\ edt = "free" /\ CanStep(prog, "undo")
  /\ foreign' = foreign + 1
  /\ prog' = Stepped(prog, "undo")
  /\ UNCHANGED <<backend, cmd, rec, edt>>

ThreadStarts ==
  /\ MayAct /\ ~prog.other
  /\ foreign' = foreign + 1
  /\ \E writes \in BOOLEAN :
       prog' = Changed(Started(prog, "Other"), IF writes THEN {<<"thread", foreign, 0>>} ELSE {})
  /\ UNCHANGED <<backend, cmd, rec, edt>>

ThreadEnds(commit) ==
  /\ prog.other
  /\ prog' = LeftBy(prog, "Other", commit)
  /\ rec' = InfoAfter(rec, prog, "Other", commit)
  /\ UNCHANGED <<backend, cmd, edt, foreign>>

MechaNext ==
  \/ \E kind \in WriteKinds, size \in 1..MaxItems, atomic, dry \in BOOLEAN : CallWrite(kind, size, atomic, dry)
  \/ ChecksRefuse \/ Execute \/ ReadModification \/ Decompile \/ HandlerRefuses \/ EnterBoundary
  \/ DeadlinePasses \/ WaitUntilIdle \/ OnEdt \/ EdtTooBusy
  \/ BatchRefuses \/ StartOuter \/ StartItem \/ StartTransaction \/ CheckView \/ Edit
  \/ EndItem \/ EndOuter \/ EndBatch
  \/ HistoryCheck \/ HistoryStep \/ HistoryFails \/ LeaveSection
  \/ ExternalRefused \/ ExternalWrite \/ FinishWrite

OthersNext ==
  \/ \E leaves \in BOOLEAN : HumanEdits(leaves)
  \/ HumanUndoes \/ ThreadStarts
  \/ \E commit \in BOOLEAN : ThreadEnds(commit)

WritesNext == MechaNext \/ OthersNext

\* Every step of a running command takes place: polls and EDT waits have
\* deadlines, and nothing in the section waits.
WritesFairness == WF_writesVars(MechaNext /\ cmd.pc # "done") /\ WF_writesVars(DeadlinePasses)

WritesSpec == WritesInit /\ [][WritesNext]_writesVars /\ WritesFairness

-----------------------------------------------------------------------------
WritesTypeOK ==
  /\ backend \in Backends /\ edt \in {"free", "mecha"} /\ foreign \in 0..MaxForeign
  /\ prog.own \in 0..1 /\ prog.other \in BOOLEAN /\ prog.aborted \in BOOLEAN
  /\ cmd.n \in 0..MaxCommands /\ cmd.kind \in WriteKinds \cup {"none"}
  /\ cmd.reply \in {"none", "ok", "absent", "created", "uncertain"}

\* Mecha's transaction and the EDT are given back on every way out of the
\* section, and no transaction is open for nobody.
SectionIsLeft ==
  /\ cmd.pc \in {"done", "finish", "external", "checks", "decompile", "view", "enter", "wait", "queue"} =>
       edt = "free" /\ prog.own = 0
  /\ ~Open(prog) => prog.pending = {} /\ ~prog.aborted /\ ~rec.open

MayLand(e) == e \in prog.landed \/ (e \in prog.pending /\ ~prog.aborted)

\* output_state says what the failure left: absent means that nothing the
\* command did is or will be in the program or the database, created that
\* some of it was committed, or what another thread wrote in the transaction
\* it had joined (domain/output_state.py).
WriteFailuresAreTrue ==
  cmd.pc = "done" /\ cmd.error =>
    /\ cmd.reply = "absent" =>
         cmd.steps = 0 /\ ~cmd.outside /\ \A e \in Written : ~MayLand(e)
    /\ cmd.reply = "created" =>
         cmd.steps > 0 \/ \E e \in prog.landed : e \in Written \/ Author(e) # "mecha"

\* A result names as applied what was committed, and nothing else of it.
SuccessIsTrue ==
  cmd.pc = "done" /\ ~cmd.error =>
    \A i \in DOMAIN cmd.results :
      IF cmd.results[i] = "applied" THEN Mine(i) \in prog.landed ELSE ~MayLand(Mine(i))

\* A write is in its section only on the EDT, replies are true, and every way
\* out leaves nothing open.
WriteInvariant == WritesTypeOK /\ SectionIsLeft /\ WriteFailuresAreTrue /\ SuccessIsTrue

LosesHumansEdits == cmd.pc # "history" /\ ~(HumansEdits(prog) \subseteq HumansEdits(prog'))
WritesPastHumans ==
  cmd.view = "decompiled" /\ ~(prog'.pending \cap Written \subseteq prog.pending) /\ HumansEdits(prog) # cmd.shown

\* docs/gui-live.md: a human edit never joins the AI's transaction, so no
\* step of Mecha but an undo takes one away; and however the human edits and
\* undoes while a call decompiles and waits for its turn, a variable is never
\* written from a view that lacks, or still shows, what the human did since.
\* (A background thread that joins the transaction after the check may still
\* write before the variable is written.)
WriteSteps == [][LosesHumansEdits \/ WritesPastHumans => ~MechaNext]_writesVars

\* docs/gui-live.md:103: undo and redo step back only while the next step is
\* a `Mecha: ` one.
StepsOnlyItsOwn ==
  [][cmd.pc = "history" /\ backend = "gui" /\ CanStep(prog, cmd.kind) /\ prog' # prog /\ cmd' # cmd =>
       StepToTake(prog, cmd.kind).by = "Mecha"]_writesVars
=============================================================================
