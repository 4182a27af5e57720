------------------------------ MODULE GuiPrograms ------------------------------
(***************************************************************************)
(* Programs that calls share with the human in the GUI: loading, holding,  *)
(* showing, saving and unbinding them (gui/programs.py, gui/project_handle *)
(* .py, gui/navigation.py).  Work is posted to Swing's event thread        *)
(* (gui/edt.py), which runs one item at a time, except that an item that    *)
(* asks in a modal dialog lets the next ones run.  The human opens and      *)
(* closes tabs, edits, saves, answers dialogs and closes the project.       *)
(*                                                                         *)
(* Ghidra has one live object of a file; a file that was closed gets a new *)
(* one.  Time is left out: a wait may give up whenever its limits count.   *)
(***************************************************************************)
EXTENDS Naturals, Sequences, FiniteSets, SequencesExt

CONSTANTS
  Callers,      \* calls that run at a time, each for a target of its own
  Files,        \* files of the project
  MaxPrograms   \* bound: objects that Ghidra makes of one file

VARIABLES
  queue,      \* posted work that has not had its turn
  stack,      \* work the event thread is in, the innermost last
  work,       \* each item of work: the kinds a caller posts
  running,    \* whether a tool for programs runs in the project
  tabs,       \* files the human sees as tabs
  born,       \* objects made of a file; the last one is the live one
  alive,      \* files whose last object is open
  unsaved,    \* objects with unsaved changes
  busy,       \* files whose live object has a transaction of somebody else
  project,    \* whether the project the runtime was started for is open
  keys,       \* _open_programs
  bound,      \* _program_keys
  refcount,
  holders,    \* the consumers that calls added
  call,       \* each call: its step, its program, what it read, what it answered
  wrote,      \* history: calls whose program was saved since they began
  forced      \* history: Ghidra was made to offer a rollback of a transaction

guiVars == <<queue, stack, work, running, tabs, born, alive, unsaved, busy, project, keys, bound, refcount, holders,
             call, wrote, forced>>
ghidra == <<running, tabs, born, alive, unsaved, busy, project>>
books == <<keys, bound, refcount>>
edt == <<queue, stack, work>>
history == <<wrote, forced>>

Programs == Files \X (1..MaxPrograms)
Works == Callers \X {"tool", "tab", "save"}
Live(f) == <<f, born[f]>>
IsOpen(p) == p = Live(p[1]) /\ p[1] \in alive
InTab(p) == IsOpen(p) /\ p[1] \in tabs

GuiInit ==
  /\ queue = <<>> /\ stack = <<>> /\ work = [w \in Works |-> "none"]
  /\ running \in BOOLEAN /\ tabs = {} /\ born = [f \in Files |-> 0] /\ alive = {} /\ unsaved = {} /\ busy = {}
  /\ project = TRUE
  /\ keys = {} /\ bound = {} /\ refcount = 0 /\ holders = {}
  /\ call = [c \in Callers |-> [pc |-> "idle", op |-> "none", program |-> <<>>, done |-> FALSE, answer |-> "ok"]]
  /\ wrote = {} /\ forced = FALSE

-----------------------------------------------------------------------------
(* The event thread *)

\* It takes the next request: nothing runs, or what runs asks in a dialog.
EdtServes == IF stack = <<>> THEN TRUE ELSE work[Last(stack)] = "asks"
Dialog == \E w \in Works : work[w] = "asks"
Shut == {f \in alive : ~\E c \in Callers : <<c, Live(f)>> \in holders}

Post(w) == queue' = Append(queue, w) /\ work' = [work EXCEPT ![w] = "queued"] /\ UNCHANGED stack

\* A call that stops waiting gives up what has not begun.
Abandon(w) == work' = [work EXCEPT ![w] = IF @ = "queued" THEN "given_up" ELSE @] /\ UNCHANGED <<queue, stack>>

Begins(w) == work' = [work EXCEPT ![w] = "runs"] /\ stack' = Append(stack, w)

BeginsRegardless(w) ==
  \/ w[2] = "save" /\ Begins(w) /\ forced' = (forced \/ call[w[1]].program[1] \in busy)
  \/ w[2] # "save" /\ Begins(w) /\ UNCHANGED forced

\* What was given up does nothing, and a save looks for a transaction again.
Begin(w) ==
  IF work[w] = "given_up" THEN UNCHANGED <<work, stack, forced>>
  ELSE IF w[2] = "save" /\ call[w[1]].program[1] \in busy
       THEN work' = [work EXCEPT ![w] = "busy"] /\ UNCHANGED <<stack, forced>>
       ELSE BeginsRegardless(w)

EdtBegins ==
  /\ queue # <<>> /\ EdtServes /\ queue' = Tail(queue)
  /\ Begin(Head(queue))
  /\ UNCHANGED <<ghidra, books, holders, call, wrote>>

Innermost(w) == stack # <<>> /\ w = Last(stack)

Asks(w) ==
  /\ Innermost(w) /\ work[w] \in {"runs", "asks"}
  /\ work' = [work EXCEPT ![w] = IF @ = "asks" THEN "runs" ELSE "asks"]
  /\ UNCHANGED <<queue, stack, ghidra, books, holders, call, history>>

Savers(p) == {c \in Callers : call[c].op = "save" /\ call[c].pc # "idle" /\ call[c].program = p}

\* A file whose object was closed gets a new one.
Opens(f) ==
  /\ running /\ f \notin tabs /\ tabs' = tabs \cup {f}
  /\ IF f \in alive THEN UNCHANGED <<born, alive>>
     ELSE born[f] < MaxPrograms /\ born' = [born EXCEPT ![f] = @ + 1] /\ alive' = alive \cup {f}

\* launchTool, openProgram and saveProgram, which may also fail or be cancelled.
Acts(w) ==
  /\ Innermost(w) /\ work[w] = "runs"
  /\ LET p == call[w[1]].program
     IN CASE w[2] = "tool" -> project /\ ~running /\ running' = TRUE /\ UNCHANGED <<tabs, born, alive, unsaved, wrote>>
          [] w[2] = "tab" /\ call[w[1]].op = "show" ->
               /\ running /\ IsOpen(p) /\ tabs' = tabs \cup {p[1]} /\ UNCHANGED <<running, born, alive, unsaved, wrote>>
          [] w[2] = "tab" /\ call[w[1]].op # "show" -> Opens(p[1]) /\ UNCHANGED <<running, unsaved, wrote>>
          [] w[2] = "save" ->
               /\ IsOpen(p) /\ p \in unsaved /\ unsaved' = unsaved \ {p}
               /\ wrote' = wrote \cup Savers(p) /\ UNCHANGED <<running, tabs, born, alive>>
  /\ UNCHANGED <<edt, busy, project, books, holders, call, forced>>

Ends(w) ==
  /\ Innermost(w) /\ work[w] = "runs"
  /\ stack' = Front(stack) /\ work' = [work EXCEPT ![w] = "done"]
  /\ UNCHANGED <<queue, ghidra, books, holders, call, history>>

-----------------------------------------------------------------------------
(* Calls *)

Fresh(c) == call[c].pc = "idle" /\ \A w \in Works : w[1] = c => work[w] \notin {"queued", "runs", "asks"} /\ w \notin Range(queue)
Locked(p) == \E c \in Callers : call[c].pc # "idle" /\ call[c].op # "show" /\ call[c].program = p

Starts(c, op, p, pc) ==
  /\ call' = [call EXCEPT ![c] = [pc |-> pc, op |-> op, program |-> p, done |-> FALSE, answer |-> "ok"]]
  /\ work' = [w \in Works |-> IF w[1] = c THEN "none" ELSE work[w]]
  /\ wrote' = wrote \ {c}
GoesOn(c, pc) == call' = [call EXCEPT ![c].pc = pc]
Answers(c, answer) == call' = [call EXCEPT ![c].pc = "idle", ![c].done = FALSE, ![c].answer = answer]

(* Loading: the file is reserved, found or opened, and bound *)

LoadStarts(c, f) ==
  /\ Fresh(c) /\ project /\ f \notin keys /\ keys' = keys \cup {f}
  /\ Starts(c, "load", <<f, 0>>, "look")
  /\ UNCHANGED <<queue, stack, ghidra, bound, refcount, holders, forced>>

File(c) == call[c].program[1]
Loading(c, pc) == call[c].op = "load" /\ call[c].pc = pc

LoadFails(c, answer) == Answers(c, answer) /\ keys' = keys \ {File(c)} /\ UNCHANGED <<bound, refcount>>

LooksAt(c) == call' = [call EXCEPT ![c].pc = "bind", ![c].program = Live(File(c))]

LoadLooks(c) ==
  /\ Loading(c, "look")
  /\ \/ ~running /\ GoesOn(c, "post_tool") /\ UNCHANGED books
     \/ running /\ EdtServes /\ File(c) \in tabs /\ LooksAt(c) /\ UNCHANGED books
     \/ running /\ EdtServes /\ File(c) \notin tabs /\ GoesOn(c, "post_tab") /\ UNCHANGED books
     \/ running /\ ~EdtServes /\ LoadFails(c, "failed")
  /\ UNCHANGED <<edt, ghidra, holders, history>>

LoadPosts(c) ==
  /\ \/ Loading(c, "post_tool") /\ Post(<<c, "tool">>) /\ GoesOn(c, "tool")
     \/ Loading(c, "post_tab") /\ Post(<<c, "tab">>) /\ GoesOn(c, "tab")
  /\ UNCHANGED <<ghidra, books, holders, history>>

AwaitTool(c) ==
  /\ Loading(c, "tool")
  /\ IF running THEN GoesOn(c, "post_tab") /\ UNCHANGED books
     ELSE work[<<c, "tool">>] = "done" /\ LoadFails(c, "failed")
  /\ UNCHANGED <<edt, ghidra, holders, history>>

\* Whether the open has ended is read before the look at the tabs.
PollTab(c) ==
  /\ Loading(c, "tab")
  /\ call' = [call EXCEPT ![c].pc = "see", ![c].done = work[<<c, "tab">>] = "done"]
  /\ UNCHANGED <<edt, ghidra, books, holders, history>>

SeeTab(c) ==
  /\ Loading(c, "see")
  /\ CASE ~EdtServes -> GoesOn(c, "tab") /\ UNCHANGED books
       [] EdtServes /\ File(c) \in tabs -> LooksAt(c) /\ UNCHANGED books
       [] EdtServes /\ File(c) \notin tabs /\ call[c].done -> LoadFails(c, "failed")
       [] OTHER -> GoesOn(c, "tab") /\ UNCHANGED books
  /\ UNCHANGED <<edt, ghidra, holders, history>>

\* The limits stand still while a dialog is up.
LoadExpires(c) ==
  /\ call[c].pc \in {"tool", "tab"} /\ call[c].op = "load" /\ ~Dialog
  /\ LET w == <<c, call[c].pc>>
     IN /\ Abandon(w)
        /\ LoadFails(c, IF work[w] = "queued" THEN "never" ELSE "failed")
  /\ UNCHANGED <<ghidra, holders, history>>

\* FlatProgramAPI may fail.
LoadBinds(c) ==
  /\ Loading(c, "bind")
  /\ \/ LoadFails(c, "failed")
     \/ /\ bound' = bound \cup {call[c].program} /\ refcount' = refcount + 1 /\ UNCHANGED keys
        /\ Answers(c, "ok")
  /\ UNCHANGED <<edt, ghidra, holders, history>>

(* Commands and views hold the program *)

HoldStarts(c, p, op) ==
  /\ Fresh(c) /\ project /\ p \in bound /\ (op = "command" => ~Locked(p))
  /\ Starts(c, op, p, "check")
  /\ UNCHANGED <<queue, stack, ghidra, books, holders, forced>>

\* show_in_gui takes no lock of the target.
ShowStarts(c, p) == HoldStarts(c, p, "show")

HoldChecks(c) ==
  /\ call[c].op \in {"command", "show"} /\ call[c].pc = "check"
  /\ \/ EdtServes /\ InTab(call[c].program) /\ GoesOn(c, "hold")
     \/ (EdtServes \/ ~IsOpen(call[c].program)) /\ ~InTab(call[c].program) /\ Answers(c, "failed")
     \/ ~EdtServes /\ Answers(c, "failed")
  /\ UNCHANGED <<edt, ghidra, books, holders, history>>

\* addConsumer answers that a program that closed since the look is not held.
AddConsumer(c) ==
  /\ call[c].op \in {"command", "show"} /\ call[c].pc = "hold"
  /\ IF IsOpen(call[c].program) THEN holders' = holders \cup {<<c, call[c].program>>} /\ GoesOn(c, "work")
     ELSE Answers(c, "failed") /\ UNCHANGED holders
  /\ UNCHANGED <<edt, ghidra, books, history>>

Edits(c) ==
  /\ call[c].op = "command" /\ call[c].pc = "work" /\ unsaved' = unsaved \cup {call[c].program}
  /\ UNCHANGED <<edt, running, tabs, born, alive, busy, project, books, holders, call, history>>

\* A program no tool has is shown as a tab again; the view's confirmation is bounded.
ShowPosts(c) ==
  /\ call[c].op = "show" /\ call[c].pc = "work" /\ running /\ EdtServes /\ ~InTab(call[c].program)
  /\ work[<<c, "tab">>] = "none" /\ Post(<<c, "tab">>)
  /\ UNCHANGED <<ghidra, books, holders, call, history>>

ReleaseConsumer(c) ==
  /\ call[c].op \in {"command", "show"} /\ call[c].pc = "work" /\ Answers(c, "ok")
  /\ holders' = holders \ {<<c, call[c].program>>}
  /\ LET f == File(c)
         last == f \notin tabs /\ ~\E other \in Callers \ {c} : <<other, call[c].program>> \in holders
     IN alive' = (IF last THEN alive \ {f} ELSE alive) /\ busy' = (IF last THEN busy \ {f} ELSE busy)
  /\ UNCHANGED <<edt, running, tabs, born, unsaved, project, books, history>>

(* Unbinding *)

Unbinds(c, p) ==
  /\ Fresh(c) /\ p \in bound /\ ~Locked(p)
  /\ bound' = bound \ {p} /\ keys' = keys \ {p[1]} /\ refcount' = refcount - 1
  /\ Starts(c, "close", p, "idle")
  /\ UNCHANGED <<queue, stack, ghidra, holders, forced>>

(* Saving *)

SaveStarts(c, p) ==
  /\ Fresh(c) /\ project /\ p \in bound /\ p \in unsaved /\ ~Locked(p)
  /\ Starts(c, "save", p, "find")
  /\ UNCHANGED <<queue, stack, ghidra, books, holders, forced>>

Saving(c, pc) == call[c].op = "save" /\ call[c].pc = pc

FindsTool(c) ==
  /\ Saving(c, "find")
  /\ CASE running /\ ~EdtServes -> Answers(c, "failed")
       [] EdtServes /\ InTab(call[c].program) -> GoesOn(c, "await_idle")
       [] OTHER -> Answers(c, "failed")
  /\ UNCHANGED <<edt, ghidra, books, holders, history>>

AwaitsIdle(c) ==
  /\ Saving(c, "await_idle")
  /\ IF File(c) \in busy THEN Answers(c, "failed") ELSE GoesOn(c, "post_save")
  /\ UNCHANGED <<edt, ghidra, books, holders, history>>

PostsSave(c) ==
  /\ Saving(c, "post_save") /\ Post(<<c, "save">>) /\ GoesOn(c, "saving")
  /\ UNCHANGED <<ghidra, books, holders, history>>

AwaitsSave(c) ==
  /\ Saving(c, "saving")
  /\ CASE work[<<c, "save">>] = "busy" -> GoesOn(c, "await_idle") \/ Answers(c, "failed")
       [] work[<<c, "save">>] = "done" -> GoesOn(c, "confirm")
       [] OTHER -> Answers(c, "failed")
  /\ UNCHANGED <<edt, ghidra, books, holders, history>>

Confirms(c) ==
  /\ Saving(c, "confirm") /\ Answers(c, IF call[c].program \in unsaved THEN "failed" ELSE "saved")
  /\ UNCHANGED <<edt, ghidra, books, holders, history>>

CallSteps(c) ==
  \/ \E f \in Files : LoadStarts(c, f)
  \/ LoadLooks(c) \/ LoadPosts(c) \/ AwaitTool(c) \/ PollTab(c) \/ SeeTab(c) \/ LoadExpires(c) \/ LoadBinds(c)
  \/ \E p \in bound : HoldStarts(c, p, "command") \/ ShowStarts(c, p) \/ Unbinds(c, p) \/ SaveStarts(c, p)
  \/ HoldChecks(c) \/ AddConsumer(c) \/ Edits(c) \/ ShowPosts(c) \/ ReleaseConsumer(c)
  \/ FindsTool(c) \/ AwaitsIdle(c) \/ PostsSave(c) \/ AwaitsSave(c) \/ Confirms(c)

-----------------------------------------------------------------------------
(* The human and background threads *)

\* At the windows, which a modal dialog blocks.
HumanActs ==
  /\ stack = <<>>
  /\ \/ \E f \in Files : Opens(f) /\ UNCHANGED <<running, unsaved, busy, project, wrote>>
     \/ \E f \in tabs :
          /\ tabs' = tabs \ {f} /\ alive' = alive \ (Shut \cap {f}) /\ busy' = busy \ (Shut \cap {f})
          /\ UNCHANGED <<running, born, unsaved, project, wrote>>
     \/ \E f \in tabs : unsaved' = unsaved \cup {Live(f)} /\ UNCHANGED <<running, tabs, born, alive, busy, project, wrote>>
     \/ \E f \in tabs :
          /\ unsaved' = unsaved \ {Live(f)} /\ wrote' = wrote \cup Savers(Live(f))
          /\ UNCHANGED <<running, tabs, born, alive, busy, project>>
     \/ /\ project /\ project' = FALSE /\ running' = FALSE /\ tabs' = {} /\ alive' = alive \ Shut /\ busy' = busy \ Shut
        /\ UNCHANGED <<born, unsaved, wrote>>
  /\ UNCHANGED <<edt, books, holders, call, forced>>

\* Somebody else's transaction begins or ends.
Transacts ==
  /\ \E f \in alive : busy' = IF f \in busy THEN busy \ {f} ELSE busy \cup {f}
  /\ UNCHANGED <<edt, running, tabs, born, alive, unsaved, project, books, holders, call, history>>

GuiNext ==
  \/ EdtBegins \/ (\E w \in Works : Asks(w) \/ Acts(w) \/ Ends(w))
  \/ (\E c \in Callers : CallSteps(c))
  \/ HumanActs \/ Transacts

GuiSpec == GuiInit /\ [][GuiNext]_guiVars

-----------------------------------------------------------------------------
GuiTypeOK ==
  /\ Range(queue) \cup Range(stack) \subseteq Works
  /\ work \in [Works -> {"none", "queued", "given_up", "runs", "asks", "busy", "done"}]
  /\ running \in BOOLEAN /\ project \in BOOLEAN /\ tabs \subseteq alive /\ alive \subseteq Files /\ busy \subseteq alive
  /\ born \in [Files -> 0..MaxPrograms] /\ unsaved \subseteq Programs
  /\ keys \subseteq Files /\ bound \subseteq Programs /\ holders \subseteq Callers \X Programs

\* A load that says its work never began is right for good.
GivenUpStaysShut ==
  \A c \in Callers : call[c].answer = "never" => \E w \in Works : w[1] = c /\ work[w] = "given_up"

\* A file has one target: keys are the files that are bound and those a load has
\* reserved and not yet bound, and the count is that of the bindings.
BooksAgree ==
  /\ keys = {p[1] : p \in bound} \cup {File(c) : c \in {d \in Callers : call[d].op = "load" /\ call[d].pc # "idle"}}
  /\ \A p, q \in bound : p[1] = q[1] => p = q
  /\ refcount = Cardinality(bound)

\* A program an operation holds stays open, whatever tabs the human closes.
HeldIsOpen == \A h \in holders : IsOpen(h[2])

\* A save offers no rollback of another's transaction, and "saved" is true.
SavesAreTrue ==
  /\ ~forced
  /\ \A c \in Callers : call[c].op = "save" /\ call[c].answer = "saved" => c \in wrote

GuiProgramsInvariant == GuiTypeOK /\ GivenUpStaysShut /\ BooksAgree /\ HeldIsOpen /\ SavesAreTrue
=============================================================================
