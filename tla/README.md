# A TLA+ model of study-windows-kernel

The repository is a collection of small Windows programs, each written to study one part of
the Win32 API. They share no code but three vendored headers, and every program has its own
state and its own hazards. This directory models the programs that have a protocol of their
own: a persistent to-do list, the window over it and its reminders, a pipe shared by several processes,
a dialog that shares its state with monitor threads, the hooks that redirect a process's imports, DLLs
loaded into another process, a mouse hook that acts on the next click, and a clock that follows the window
in front. For each there is a TLA+ module, a TLC configuration that checks it on a small instance, and, for all but the list of limits of the dialog, proofs checked by TLAPS for every value
of the constants.

Paths below are relative to `src/`, the repository.

## 1. Inventory

### 1.1 todolist (`src/utilities/todolist`)

Two parts, one process, one thread.

**`core::TodoMgr`** (`core.cc`, `core.hpp`) keeps `todos`, a vector of items; `tick`, the next id;
and the file `todos.json`. A singleton loads the file when it is first used (`load`, 224-241).
Eight member functions change the list and then rewrite the whole file (`dump`, 208-222). An item
is found by its id with `std::equal_range` (`at`, 148-156), which is right only on a vector
ordered by id. Everything that fails is either asserted or ignored.

*Hard:* the order of the ids over any sequence of calls and restarts; a process killed in `dump`,
a full disk, a file another program holds open.
*Correct when:* a look-up finds the one item meant; an operation changes that item only; what is
in memory is in the file after every call; a restart brings back what was saved.

**The window** (`app.cc`) keeps a list view (one row per item, newest first, the id in `lParam`), a
form (title, remark, two dates), the selection, the `+`/delete buttons and the folded state of the
form. Win32 calls the window procedure *back* while a handler runs: `SetDlgItemText` on the title
sends `EN_CHANGE`, which stores the title in the selected item; `ListView_SetCheckState` sends
`LVN_ITEMCHANGED`, which updates the status of the item. The order in which a handler deselects,
clears the form and updates the list is therefore part of its meaning.

A timer of 60 s (`TimeToNotify`, 680-693) goes through the list and shows a balloon for each unfinished
item whose reminder is less than a period past, or still to come.

*Hard:* nested callbacks, the form of one item open over the selection of another, several dumps
in one gesture; a timer message that comes late.
*Correct when:* the rows mirror the list; the form shows the selected item; a gesture writes only
to the item it shows, and a kill in the middle leaves no other item changed; displaying the list changes
nothing; no reminder is missed while the program runs.

### 1.2 namepipesync (`src/ipc/namepipesync/app.cc`)

`main` starts two worker processes and becomes the server. The server reads lines from the
console and hands each over a single named-pipe instance to whichever worker is connected; the
worker echoes it. A system-wide mutex is to keep the workers apart. State: the server's position
and line, the pipe instance (listening, connected, closed by the client, disconnected) with the
messages in it, the mutex, and each worker's position and buffer.

*Hard:* two locks (the pipe instance, the mutex) taken by several processes; a worker that dies
with either; the start-up race between the workers and `CreateNamedPipe`; writes that block until
the other end reads; a 256-byte buffer on one side.
*Correct when:* the two locks never close a cycle; the server prints echoes of the line it just
sent; every line is answered while workers live; nobody waits for ever after the server has quit.

### 1.3 JobMon (`src/process/JobMon`)

A WTL dialog over one job object. State: the job handle and the completion port, the enabled
buttons, the vector of process ids and the item count of the owner-data list view over it, the log
list, the list of limits. `OnBindToIoCompletion` creates a port and a thread that runs
`DoMonitorJob` (440-486): it waits on `m_hCompletionPort`, a member the dialog closes and replaces
without a lock, and writes notifications to the log by sending messages to the dialog.

*Hard:* the monitor threads outlive the port they were made for; a log line is three messages
between which other lines are written and the log is emptied; message boxes run a message loop
inside a handler; the buttons have to match the handles the handlers assert.
*Correct when:* handlers run with the handles they assert; every notification is logged once, in
order, in a row of its own; the list view asks for existing processes only; monitors of a closed
port come back to work on the next one.

### 1.4 api_interception (`src/hook/api_interception`)

`CAPIHook` (`apihook.cpp`): a linked list of hooks. State: `sm_pHead`; in each hook the next one, the
original address (0 if the module of the function was not loaded) and the replacement; and the
import tables of all modules of the process. A constructor puts the hook at the head and replaces
the original address by the replacement in every table but that of its own module; the destructor
puts the address back and unlinks. Five built-in hooks catch `LoadLibrary*`, after which all tables
are patched again for every hook of the list (`FixupNewlyLoadedModule`, 339-367), and
`GetProcAddress`, which hands out the replacement for the original (428-449). Nothing is locked.

*Hard:* hooks destroyed in any order; construction and destruction while another thread walks the
list; a snapshot of the modules patched one by one while modules come and go; modules loaded after a
hook, hooks whose module is not loaded, two hooks on one function.
*Correct when:* the list is one at all times; no import leads to a replacement that is gone, and none
of the module of `CAPIHook` to any (it would call itself); an import and `GetProcAddress` give the same
answer; `LoadLibrary` returns.

### 1.5 screen_use_time (`src/hook/screen_use_time`, `src/hook/libscreenusetime`)

A shell hook in every process sends each window activation to the main window by `WM_COPYDATA` and waits;
`WndProc` adds the time since the last change of title to the title that was active before. State:
`usageData`, `lastWindowTitle`, `lastTimePoint`.

*Hard:* the title and the clock are read when the message is handled, not when it was sent, and the clock
again after the list view is drawn; windows without a title or without the hook; a title that changes
without an activation.
*Correct when:* no time is counted twice; what is credited to a title is time it was in front.

### 1.6 sticky (`src/utilities/sticky/app.cc`)

A button installs a low-level mouse hook; the next click makes the window under the cursor topmost, or
not. State: `currentWindow`, `action`, `g_hMouseHook`.

*Hard:* every `WM_COMMAND`, also a notification of the edit control (its focus, the wheel turned over it),
overwrites `action` (136); a second button press installs a second hook over the handle of the first (139),
which then stays installed, and nobody looks whether a hook was installed; the window acted upon is the one noted
at the last move (117), though another may have come under a still mouse since (Alt+Tab).
*Correct when:* one click is acted upon, as the last button said, on the window clicked; no hook is left.

### 1.7 inject_library and injection (`study_windows_kernel/inject_library`, `src/hook/injection`)

Dialogs that load a DLL into another process: `InjectLibW` (`InjLib.cpp` 92-147) opens the process, allocates
and writes the path there, has a remote thread call `LoadLibraryW`, waits for it without a limit and
cleans up in `__finally`; `EjectLibW` (170-228) finds the DLL and has a remote thread call `FreeLibrary`.
State: the handles and the block of the call that is running; in the target the count of the DLL, the
loader lock and the remote threads.

*Hard:* any call may fail, the target may exit or a dialog be killed at any point; several dialogs on one
target; the injected `DllMain` (`ImgWalk.cpp`) opens a message box under the loader lock; the exit code of
the remote thread is not looked at (131).
*Correct when:* the path is there while it may be read; nothing stays behind whichever call failed; a
DLL that was to stay stays; the button's handler returns.

### 1.8 The other programs

| Program | What it keeps and does | Correctness worth stating |
|---|---|---|
| `utilities/encryption` | hex and container codecs around OpenSSL, a window with modes | decoding inverts encoding; the fields shown match the mode |
| `gdi/imgconverter` | a loop over the chosen files, one list-view row each, inside a button's handler that a folder dialog re-enters | every file is converted once per press, into the folder shown |
| `utilities/asciitokml` | a table of lines converted to another text format | every accepted line is written once |
| `process/resource_limit` | one job object, start, wait, report | a subset of JobMon's |
| `sndmsg_death_lock` | two threads that send each other messages | deadlocks, on purpose |
| `socket/*`, `fs/recover`, `dll/*`, `hook/dll_hijacking_*`, `hook/keyboardhook`, `hook/imgwalk`, `hook/msgbox_hook` | straight-line samples | nothing beyond the calls themselves |
| `common_header` | vendored headers (`json.hpp` and two helpers) | third-party |

The programs interact with Windows only, never with each other, so each group of modules below is
closed: the modules that compose are `TodoApp` and `Reminder`, both over `TodoStore`.

## 2. Modules

| Module | Models | Composition |
|---|---|---|
| `TodoMap` | what `TodoMgr` promises its caller, without vector, ids or file format | abstract specification |
| `TodoStore` | `core.cc` | implements `TodoMap` (`Abs == INSTANCE TodoMap WITH ...`) |
| `TodoStore_proofs` | - | theorems about `TodoStore` |
| `TodoApp` | `app.cc`, every handler that reads or writes the list, the form or the selection | extends `TodoStore` |
| `Reminder` | `app.cc`, the timer, the reminders and the clock | extends `TodoStore` |
| `TodoApp_proofs` | - | theorems about `TodoApp` and `Reminder`, over those about `TodoStore` |
| `PipeSync` | `namepipesync/app.cc`, server, workers, pipe and mutex | - |
| `PipeSync_proofs` | - | theorems about `PipeSync` |
| `JobMon` | `MainDlg.cpp`: handles, buttons, monitors, log, process list | - |
| `JobMon_proofs` | - | theorems about `JobMon` |
| `JobLimits` | `MainDlg.cpp`: the limits offered, set, removed and shown | - |
| `ApiHook` | `apihook.cpp`: the list of hooks, the import tables, loading and freeing modules | - |
| `ApiHook_proofs` | - | theorems about `ApiHook` |
| `InjLib` | `InjLib.cpp`, `injection.cpp`: dialogs, remote threads, loader lock and the target | - |
| `InjLib_proofs` | - | theorems about `InjLib` |
| `Sticky` | `sticky/app.cc`: hook, action, focus and topmost windows | - |
| `Sticky_proofs` | - | theorems about `Sticky` |
| `ScreenTime` | `screen_use_time/app.cc`, `libscreenusetime/lib.cc`: senders, titles, clock, credit | - |
| `ScreenTime_proofs` | - | theorems about `ScreenTime` |
| `MCTodoStore`, `MCTodoApp`, `MCReminder`, `MCPipeSync`, `MCJobMon`, `MCApiHook` | - | values of the constants for TLC |

A definition whose comment begins with *Defect* is a deliberately wrong variant of the definition
that follows it. No specification uses one. Each was put in the place of the right definition to
see that the property it belongs to then fails: they document what the property would catch.

### 2.1 TodoMap and TodoStore

`TodoMap` is the promise: a map from handles to contents, and `kept`, what the next start begins with. It
says also what the promise does *not* cover, per member of `Failures`: an `unopened` file lets a start begin with
nothing and a change be kept by nobody, a `short` or `killed` dump leaves something broken that no
start accepts. `TodoStore` implements it under all of them at once.

`todos` and `tick` are the members of `Impl`; `file` is `todos.json` (absent, torn, or whole with its
items); `mode` tells whether the process runs, or died in `load`. One action is one public member
function with its `dump`.

* *The search.* `LowerBound` and `UpperBound` count the smaller ids and the ids not greater. That is
  what a binary search over an ordered vector returns; on an unordered one they would not find
  the item in its place either, so a broken order shows as a failed look-up.
* *The dump.* `Commit` changes the list in memory and writes the file. `Faults` names what
  the code does not look at: the stream is not opened, the file is cut short, the process is killed.
  A kill before the truncation leaves the old file and one after the last byte the new one; the
  first is a `Quit` before the call and the second a `Quit` after it.
* *The load.* An unopened file is an empty list; a torn one throws out of a static initialiser. An
  empty list is dumped as `null`, which loads as an empty list.
* *Encoding.* `Saved` omits id and `everyday`, as `dump` does; `Reencode` is what a trip through UTF-8
  does to a text. `wstrToUTF8` passes the converter a buffer one byte short of what it asked for and
  relies on the text being written nevertheless; the model relies on that too.
* `lastmodified` is taken from the saved item by `load`, and restamped for every item when the list
  view is filled at start if the control reports the check marks (see below).

### 2.2 TodoApp

A handler is a function from a working state (the controls, the list, the dumps so far) to another,
so that a callback is a function call inside it, exactly where the code causes it. `Return` ends the
handler: it assigns the result and leaves in the file what its dumps, of which none is looked at, may have left there
(`Left`: the last one, a torn file if it came out short, an earlier one or the old file if a later one could not open it); or,
with the fault `killed`, it ends the process inside or between any of the dumps made on the way. Filling the list
view at start (`FreshListView`) is one action per row.

Assumed about the common controls, because the source depends on it and does not contain it:

* `WM_SETTEXT` on a single-line edit sends `EN_CHANGE` before it returns; on a multi-line edit it
  sends none.
* `DTM_SETSYSTEMTIME` sends no `DTN_DATETIMECHANGE`.
* Inserting a row with a check mark may or may not report the change (`Reports`): all variants are
  allowed.
* A click on a check box sends `NM_CLICK` and `LVN_ITEMCHANGED`; which comes first is not known.
  Both are gestures (`check_then_click`, `click_then_check`).

Every gesture is always allowed. The history variable `odd` says that one has parted the form from the
selection: a Ctrl-click, an arrow key, a check box that reports the click first. The next gesture that
brings the two together again resets it. A click on the second column is none of them: it deselects everything and
then fills the form from the row it hit.

Left out: drawing, the tray icon, the hot key.

### 2.3 Reminder

The store again, with a clock, the timer and, as history, since when an item has had its reminder and when
its balloon was shown last. `TimeToNotify` is `WM_TIMER`; the timer keeps its rhythm, and its message is
handled at most `Slack` late, less than a period. A machine that is suspended for longer is outside this. Other
actions are those of the handlers that add and remove items or change a status or a reminder. The balloon
itself is external. Actions of the window's controls are left out: they do not touch the timer.

### 2.4 PipeSync

One action is one system call of the server or of a worker. `pipe` is the state of the instance,
`client` the worker at its other end, `toWorker` and `toServer` the messages in it. A write that
blocks is two actions: `SrvWrite` puts the message in the pipe, `SrvFlush` returns when it was read
or the client is gone (`WkWrite` and `WkFlush` alike). `Buffered` says whether writes block: `app.cc`
asks for buffers of size 0, and both answers are checked.

The kernel's part is external. It is taken to behave as the code's tests of its results imply: an
instance listens from `CreateNamedPipe` on; `ConnectNamedPipe` on an instance with a client returns
`ERROR_PIPE_CONNECTED`, on one whose client has gone `ERROR_NO_DATA`; a disconnected instance is busy
for `CreateFile`; `DisconnectNamedPipe` discards what was not read; the owner's death abandons the mutex
and the next wait succeeds, which the worker does not tell apart. The server reads in message mode,
the worker in the default byte mode, so that the rest of a long line stays in the pipe.

Left out: failures of `CreateNamedPipe` and `CreateMutex`, and the end of standard input (the loop
does not test `std::getline` and would repeat the last line).

### 2.5 JobMon and JobLimits

A command of the dialog is one action: messages from other threads are handled only when the UI
thread is back in its message loop. A handler that opens a message box is two, the box opening
and closing, with everything else allowed in between. A monitor is five actions: read the handle, get a
notification, and the three messages of `AddLog`. A port is known by the number of the bind that made
it, 0 when closed; `GetQueuedCompletionStatus` fails on a port that is not the current one. Binding makes a monitor or,
where `CreateThread` fails (787-790, an assertion that a release build does not have), makes none and leaves the port
bound: ports (`binds`) and threads (`Started`) are counted apart. Such a port is served by a monitor of an earlier one, if there is one.

Simplified: handle values are never reused; notifications that no case of the switch names are not
posted (they write no line); the log is not sorted; use of the dialog after it has ended is not
modelled. Buttons start as `JobMon.rc` has them. In `JobLimits` the values of limits are left out.

### 2.6 ApiHook

`head`, `next` and `orig` are the list; `iat` is what each module's import table has for a function;
`life` is where a hook is in its constructor (`linked`, `found`, `patching`, `alive`) or destructor
(`restoring`, `restored`, `dead`). One thread constructs and destroys hooks, one object at a time, as the
static objects of the DLL are; the threads in `Threads` load modules. Patching all modules is a
snapshot and then a step for each module of it, in any order. `chain` follows the list from the head.

* The hooks are static objects, so a hook that is in the list but not yet filled in has the
  original address 0, which the walk and `GetProcAddress` pass over.
* Comparing and writing one entry is one step (`Replace`); a module freed since the snapshot is
  skipped, as the exception handler does (197-207). Modules that do not import the function are left
  out of the snapshot: nothing is compared or written there.
* `LoadCaught` is a call that a caller's table leads to `CAPIHook::LoadLibrary`: the module and those
  it imports from arrive with tables as the loader makes them, and the walk begins at the head, also if the
  module was there before. `LoadPast` is a call that no hook sees. The four `LoadLibrary` functions
  are one function in the model; loads as data files add no module and are left out.
* A module is not freed while another one imports from it, and those of `AtStart` never. Where the code
  runs under the loader's lock, some of the interleavings the model allows cannot happen; the walk
  after a load does not run under it.
* `missed` and `heals` are history variables: the modules loaded past the hooks that no follow-up has
  made up for.
* `Replace` may leave the entry of a module in `Guarded` as it was: `WriteProcessMemory` and `VirtualProtect` can
  fail (228-243) and nobody asks. `denied` is the history of it, until the module is freed.
* Nothing keeps a destructor apart from a follow-up, in the code or in the model. `raced` is the history of the hooks to
  which that happened: the walk may patch a table for one of them again after the destructor has restored it, or go on along
  the pointer of a hook that is no longer linked.

Left out: the messages the replacements send to a window, the window hook of `apihooklib.cpp`, and
`ReplaceEATEntryInOneMod`, which nothing calls.

### 2.7 InjLib

`pc` is the system call a dialog is about to make, `handles` and `lent` what it has open and allocated, `thread`
its latest remote thread; `refs`, `inMain` and `alive` are the target. `CallFails` is the `__leave` of every call before
the wait; `Finally` and `FinallyEject` are the `__finally` blocks, with what `Dlg_OnCommand` does with the result. A
dialog of `inject_library` ejects when it has injected, one of `injection` does not. `missed` is history: some
`LoadLibraryW` has failed, which no dialog notices.

Left out: process id 0 (the own process), `GetProcAddress` failing, `VirtualFreeEx` failing (its result is ignored,
and the block would stay in the target), the reuse of a process id, a second DLL, the
message box after the call, and the file dialog of `injection.cpp`. `ImgWalk.cpp` is the DLL, since `inject_library`
loads it: the first load holds the loader lock until the user of the target closes its box.

### 2.8 Sticky

One action is one input of the user: the mouse hooks run first and then the window that gets the click.
All installed hooks run the same procedure on the same variables, so `orphans`, the hooks whose handle was
overwritten, is a number. `Pressed` installs a hook or fails to, which the code does not notice; `Wheel` is the `EN_VSCROLL`
of the edit. `SwitchProgram` (the keyboard) and `Rearrange` (windows that open, close or move) may put any window under
the resting mouse, without the `WM_MOUSEMOVE` by which the program would note it. `choice`, `noted`, `scrolled` and
`hasty` are history.

Assumed of Windows: a click on a button or the edit focuses it; the main window gets the focus, not the
control that had it, when the program is activated (`DefWindowProc`); there is no `IsDialogMessage` in the loop,
so Tab moves nothing and Space presses the focused button; `WM_SETTEXT` on the multi-line edit
sends no `EN_CHANGE`; `SetWindowPos` makes a child window the first among its siblings, not topmost. Left out:
what the edit shows, windows that are closed, the end of the program.

### 2.9 ScreenTime

`Activate`, `Retitle` and `Tick` are the desktop; `Receive` is `WM_COPYDATA` up to the drawing of the list view and
`Drawn` the rest. Senders wait in order; the next message is not taken while the list view is drawn.
`real`, `drawn`, `began` and `plain` are history: what each title was really in front. `Destroy` lets go the waiting senders
and credits nobody with the last stint. Left out: the order and the text of the rows, and that each credit is cut to whole
milliseconds (155), so that up to one of them is lost at every change of title.

## 3. What the runs check

| Run | Bounds | Shows |
|---|---|---|
| `todo_store` | 3 pushes per run of the program, 2 titles of which one is re-encoded, 1 remark, 1 time, 1 stamp, every fault, restarts | `LookupHits` whatever `load` found; the store implements `TodoMap` under the faults it names |
| `todo_app` | 2 pushes, every gesture, both orders of check and click, a title the edit clips, short dumps, kills inside and between dumps | rows and list agree, the file is the list or torn; displaying changes nothing; until a gesture parts them the form shows the selection and a gesture writes, and saves, one item |
| `reminder` | 2 pushes, 2 reminders, period 3, message up to 2 late, 9 ticks | `RemindedInTime`: no reminder is missed although the timer's messages can be further apart than its period |
| `pipe_sync` | 2 workers, 3 lines, short and long, unbuffered, 1 kill | no cycle of pipe and mutex; the ends block each other only on a long line; every line is answered but in the four cases `Answered` names |
| `pipe_sync_kill` | the same, buffered | abandoned mutex blocks nobody; no stale echo; workers end after the server |
| `pipe_sync_exit` | 2 workers, 2 lines | **violated**: typing `exit` need not quit (finding 1) |
| `job_mon` | 2 binds, each with a thread or without, 2 notifications, 2 lines of the dialog's own, lists of at most 1 process | buttons match handles, log rows are right and in order, nothing is logged twice or, once a monitor was made, missed, old monitors come back |
| `api_hook` | 1 loading thread, 5 modules of which 2 come and go, 3 hooks: 1 on `LoadLibrary`, 2 on a function of a module that comes later; destructors at any time, a plug-in whose table may refuse | the list stays a list, `LoadLibrary` returns; but for overlapped destructors and refused entries no import dangles, and import tables and `GetProcAddress` agree |
| `inj_lib` | 2 dialogs of `inject_library`, 1 of `injection`, each pressed once, every failure, kill and exit | the path is there while it is read, nothing stays behind, the DLL stays loaded, a handler returns unless the box is open |
| `sticky` | 2 frames, 1 child window, 2 orphaned hooks | one hook per choice and none without; only the window chosen changes, as chosen, but for the cases named below |
| `screen_time` | 3 windows, 1 of them without the hook, 3 titles, 3 ticks, 2 waiting senders | the times add up, and are those the titles were in front |
| `job_limits` | complete (no bound) | **violated**: limits are offered that the handlers assert against (finding 2) |

**Why the bounds are enough.** *Store:* the properties relate an item to a neighbour and to the
counter, a list before and after one step, and a restart in between; two items are a neighbour, three
an item with one on either side. Restarts are not bounded: the counter starts again with each. What
no bound covers is proved: lists of any length, and any texts, times and stamps. With one value of `Times` the run cannot
see a date change, and with `unopened` among the faults it cannot tell a dump that was forgotten from one that found
no file; `StoreImplementsMap` is for all values, `DumpedListIsCurrent` is without that fault, and `todo_app` has two times and
no unopened files. *Window:* two rows are the selected one and another.
*Pipe:* `main` starts two workers, so the number is the program's; three lines let an earlier line,
this one and the next be told apart. *JobMon:* two binds are a monitor of a closed port and one of
the current port; two notifications can be swapped. Nothing in the code depends on there being a third.
*ApiHook:* three hooks are the least with a head, a middle and an end to unlink, on two functions, one of
them found only by a hook that is constructed after a plug-in was loaded; more loading threads, modules
and hooks are covered by the proofs of `NoneDangles`, `SameWay` and `ListIntact`, any other tables that refuse by the first two. *Reminder:* a reminder before, at and after a timer
message, the message early and late, and room for a restart before the last. *InjLib:* two dialogs that eject and one that does
not are the least in which a reference freed is another's; each injects once, since a dialog that is idle
again differs from a fresh one by its message only, and the proofs cover any number of both. *Sticky:* the own controls are all there; of other windows a
frame, another one and a part of one can be told apart. *ScreenTime:* a title to leave, one to come and the
empty one; three ticks put one before, in and after a drawing.

**Deadlock** is not reported where the system may stop: once the bound on typed lines is reached
and every process waits (`PipeSync`), when every bound is used up, a monitor waits and a box may be left open
(`JobMon`), when an assertion has failed (`JobLimits`), when every dialog is closed and the target has gone
(`InjLib`). The others check it.

**Fairness.** Safety properties need none. `PipeSync!FairSpec` has weak fairness for the server and
for each worker: they are separate processes, a process that can run is scheduled, and every system
call that waits is enabled only once its condition holds. It is weak: two workers racing for the
instance need not alternate, and a worker may lose that race for ever. The user owes nothing, neither
a line nor `exit`. `JobMon!FairSpec` has weak fairness for each monitor thread only: neither the user
nor the system is obliged to act. A monitor's `AddLog` waits for the UI thread, which is always free
to take the message because a command is one step and a box runs a message loop. `ApiHook!FairSpec` has
weak fairness for the follow-up of each load: that thread calls nothing that waits for another.
`InjLib!FairSpec` has weak fairness for the calls of each dialog and for each remote thread; nobody has to close the
box. The other modules have no liveness: they act when the user does.

**Conditions of properties.** Where the code does not do what one would expect of it, and no document of
the repository says that it should, the property is stated with the condition under which it holds, and
the comment at the property says what happens otherwise.
`FormShowsSelection`, `OnlyShownItemChanges` and `GestureSavesOneItem` hold until a gesture parts the form from
the selection (`odd`): with `click_then_check` the title of the clicked row is written over the selected item.
`SavedIsCurrent` allows a torn file where a dump may come out short. `NothingMissed` excepts the time in which no monitor
was ever made. `NoneDangles` and `SameWay` except hooks whose destructor overlapped a follow-up (`raced`) and entries that could
not be written (`denied`); TLC violates both properties without either exception.
`StaysLoaded` holds until a `LoadLibraryW` fails (`missed`); `Returns` excuses the open box. `HookServesChoice` and
`OnlyTheChosen` hold until a second press by the keyboard, or a click before any window was noted (`hasty`), and leave
the action open once the wheel was turned over the edit (`scrolled`). The second names the clicks that act on
another window than the one clicked: the mouse has not moved since the button, or not since another window came under it
(`noted`), or is over the main window. `CreditedIsReal` is
for windows that report at once and keep a title (`plain`); `TimesAddUp` has no condition. `RemindedInTime` leaves out a
reminder that falls due while the program does not run, and rests on there being no lower bound in line 689.
`RowsShowTheirMessage` and `LoggedInOrder` hold until the first Close Handle, which empties
the log under the monitors and lets two of them live; the comment at each property says so.
`SameWay` leaves out a function of which one of two hooks was destroyed, since the tables then depend on
which of them patched a module first, and modules loaded past the hooks.
`Answered` excuses the cases in which the code does not answer: all workers gone, both ends blocked on a
long line, the instance wedged by a client that came and went (proved to be for ever), and a line
during which a worker is killed.

### Findings

1. `namepipesync/app.cc:28` tells the user that `exit` quits. `main` starts the workers before the pipe
   exists (139-142); a worker that looks for it first gets an error and exits (74-78). With both gone
   the server waits in `ConnectNamedPipe` (35) for the first line, and an `exit` typed after it is never
   read. Run `pipe_sync_exit`.
2. `MainDlg.cpp:672` and `739` assert that the limit picked is one of the cases of the switch;
   `BuildLimitList` (162-197) offers more. Run `job_limits`.

## 4. What is proved

Checked by TLAPS from nothing, for all values of the constants allowed by the named assumptions
(`StoreAssumption`, `AppAssumption`, `ReminderAssumption`, `PipeAssumption`, `JobMonAssumption`,
`HookAssumption`, `InjAssumption`, `StickyAssumption`, `ScreenAssumption`): any number of workers, lines and kills, lists of any
length, any fault set where the theorem does not restrict it, any number of threads, modules, hooks, dialogs and windows.
Three clauses of them are there for the proofs, each for a reason in the code: the hooks are finitely many
(static objects of a DLL); so are the titles (`GetWindowTextA` fills a buffer of fixed size); and a remark the
edit can hold is still one after the file has re-encoded it (`AppAssumption`: what is saved replaces a text by one
that is no longer, and the buffer of the edit counts characters).

**TodoStore_proofs.** `LookupHits` and `IdsOrdered` (proved, so that no run has to check it) are statements
about the vector alone, but the next step's order depends on the counter (a new id must be above every id there) and on the types, so the
inductive invariant is `StoreInv == StoreTypeOK /\ IdsOrdered`, where `IdsOrdered` has the counter as
its second part. That the search then ends on the item (`SearchHits`) is arithmetic: the positions with
smaller ids are exactly `1..(i-1)`. `StoreImplementsMap` is the refinement of `TodoMap`, under every fault: each public member function with what may
happen to its dump, and each start and end, is a step of the map or leaves it alone. It needs one fact more than
`StoreInv`, `FileFound`: an absent file holds nothing, so that a start without one begins with the empty list. `DumpedListIsCurrent` uses a second invariant, `CurrentInv`, and the
assumption that the file can be opened (`"unopened" \notin Faults`); `TornStaysTorn` assumes that `load` can open the file; `FileNeverMixed` is an
action property and holds under every fault.

**PipeSync_proofs.** `HolderIsLeaving` cannot be proved alone: that the holder of the mutex is leaving
when another worker has the pipe follows from where the holder *must* have been connected, which
depends on what the server may do while a worker is asking. `PipeInv` states the whole protocol:

* `MutexHeld`: the mutex is owned by exactly the workers between lock and release;
* `PipeEnds`, `ServerView`: how the state of the instance, its client, the worker's position and the server's
  position go together, and that nothing is in a pipe nobody holds;
* `AskersConnected`: a worker that waits for the mutex, reads or is about to write is connected, and
  the server is not about to disconnect it, unless the server has quit;
* `LineInHand`, `Contents`: what is in the pipe, the buffers and the reply is the current line or what
  the worker's buffer took of it.

`PipeStepKeeps` has one lemma per action, and in it one step per part of the invariant. From `PipeInv`
follow `HolderAlwaysLeaving`, `EchoAlwaysOfThisLine` and `CrossedOnlyByLongLine`, for both kinds of
buffering. `WedgedForever`, the excuse of `Answered`, needs no invariant: the wedge is closed under every step.

**ApiHook_proofs.** That no import dangles is not inductive: the destructor may forget only what its
snapshot has, the snapshot has every table an entry of which leads to the hook, and unlinking a hook
must not leave a pointer to it for a later walk. `HookInv` has one part for each: `EntriesLive` (an entry
that is not the function itself is a linked hook that found it), `Originals`, `Pointers` (pointers stay
among the linked hooks, and no hook has two predecessors), `OneAtATime`, `Restoring` (what still leads to
a hook being destroyed is on its list), `Walkers` and `Overlaps`. The last two are what a destructor that overlaps a
follow-up calls for: a walker may stand on a hook that is unlinked under it, so `Walkers` names a set, closed under `next`, of
hooks that are linked or `raced`, and says that a hook being destroyed while anybody walks is `raced`; `Overlaps` says that
only destroyed hooks are.
`NothingEverDangles` follows for any number of threads, modules, functions and hooks, and any tables that refuse to be written.

`ListIntact` is about `chain`, which follows `next` from the head. `ListInv` says that the linked hooks are the
values of an injective sequence in which each points to the next; construction puts one in front and `Unlink` takes one out,
and that `chain` is this sequence is by a least place at which it would not be. It has no exceptions: the list is
intact even where tables are not. `AlwaysTheSameWay` adds `Healed` to `HookInv`: an entry that should be replaced is,
or a walk that has a hook ahead of it will replace it (`Ahead`: what can be reached by `next`). An unlinked hook
and one put in front may change what is ahead of a walker, but neither takes away a hook it still owes: a path that led
through the hook unlinked leads past it (`AheadPasses`), also for a walker that stands on one unlinked before.

**InjLib_proofs.** `PathWhileRead` and `NothingLeft` follow from one fact per dialog: `ThreadAt`, `LentAt`,
`HandlesAt`, `OkAt`, `EjectsAt` bind what it has started, lent and opened to the call it is about to make, and `LockHeld`
the loader lock to the thread in `DllMain`. `StaysLoaded` needs counting: `Counting` is the set of dialogs that
rely on a reference (the load is done and the free is not, or it loaded for good), and `RefsSuffice` says that
there are as many references. A load adds one of each at most; a free takes one of each, because the thread
that frees was counted until then; no other step adds to the set. The theorem assumes finitely many dialogs.

**Sticky_proofs.** `HookServesChoice` is not inductive: a notification of the edit would overwrite the action. `Pending`
adds why none but the wheel's (`scrolled`) can come, the edit does not have the focus while a choice is pending, and that
the window noted is the one under the mouse unless it was not noted since it came there. From it follow `HookAlwaysServesChoice` and `OnlyTheChosenChanges`, for any windows.

**TodoApp_proofs**, the window. A handler is a function of a working state, so the lemmas are about such
functions: each gesture's takes a `Good` state to a `Good` one, callbacks included, and `ReturnKeeps` turns this into a step,
whether the handler returns or is killed in any of its dumps. `RowsMirrorList` and `FormShowsSelection` hold
each other up: the form is filled from the item the rows name, and a row is rewritten with what the form wrote
to the item. `AppInv` adds to them that nothing is selected while the list view is filled, that the remarks in list and
file are such as the edit can hold (`Clipped`, `FileClipped`; otherwise opening an item and typing nothing would
part them), and `FileInv`: if no dump and no start finds the file unopened, it is the list, or torn where dumps may come
out short. `ListAlwaysSaved` is just this, and
`DisplayingNeverChanges` is the action property of the start. The other two action properties need more than the
state a handler leaves: `OneItem` says what it did to the list it found and in every dump on the way, which is nothing, or
a rewriting of one item (`Touches`) that is `Harmless` to it, or an addition, or a removal; the lemmas
`...Gestured` show it of each gesture, unless it ends `odd`. `OnlyTheShownItemChanges` then follows for any pair of items
with the same id, and `GestureAlwaysSavesOneItem`, again if every dump and every start can open the file, from what `Image`
makes of each of the four.

**TodoApp_proofs**, the reminders. `RemindInv` says of the store and the clock together: the timer's message is late by `Slack`
at most and early by nothing (`TimerRuns`), and *once the timer is set for a time from which a late message would
miss an item, its balloon has already come* (`BalloonsShown`). That is what makes the sequence of messages
cover every reminder although two can be further apart than the period.

**JobMon_proofs.** `LoggedInOrder` needs to know where a notification is at every moment: behind everything in
the log while it is in the port (`QueueInv`), between log and port once a monitor has taken it, in the row the
monitor is about to write once it has inserted it (`TakenInv`). Each of these needs there to be one monitor, which
is so until the first Close Handle because a job is bound once and no second one is created before it is closed
(`OneMonitor`). `HandlersMayRun` needs there to be no port without a job.

**ScreenTime_proofs.** `TimesAddUp` is about a sum over the titles, a fold of which only the recursive equation is known.
`SumType` and `SumAdds` are proved from it without an induction theorem, by the least size of a subset for
which they would fail. `ScreenInv` then says up to when time has been credited (`Total`), that the window in front
is the one that sent last or whose time is running (`FrontReports`), and what is still owed to each title (`AllCredited`).

**Only model-checked:** liveness (`Answered`, `LockGranted`, `WorkersFollow`, `NothingMissed`, `AllServe`,
`LoadReturns`, `Returns`), since the prover has no ENABLED; and the two runs that expect a violation.

## 5. Hazards

`PROJECT.json` lists the hazards of the code with the line where each bites and the properties that
would notice. In short: the order of ids, torn and unopened files, forgotten dumps (`core.cc`); callbacks
in the middle of handlers, several dumps per gesture, the form parted from the selection (`app.cc`);
two locks, dying owners, the start-up race, blocking writes (`namepipesync`); unlocked handles, log lines
in three messages, row numbers that outlive their log, buttons and assertions kept in step by hand
(`JobMon`); unlocked walks along a list that changes, snapshots that are out of date, hooks on modules
that are not there (`apihook.cpp`); remote threads that read what is about to be freed, results nobody looks
at, a wait for a user (`InjLib.cpp`); a pending action any notification overwrites, hooks without a handle
(`sticky`); time credited late or to the wrong title (`screen_use_time`). Those no property covers have a note there that says
why.

## 6. Plan

Built in this order, the most stateful and most concurrent programs first: `TodoMap`/`TodoStore`,
`TodoApp`, `PipeSync`, `JobMon`/`JobLimits`, `ApiHook`, the proofs of the first, third and last; then the
faults of `TodoMap`, `InjLib`, `Sticky`, `ScreenTime`, `Reminder` and the
proofs of `InjLib` and `Sticky`; then those of `JobMon`, `TodoApp`, `Reminder`, `ScreenTime` and the refinement of
`TodoMap`. Left:

1. `ImgConverter`: the button pressed again while the folder dialog is open, so that conversions nest, a
   cancelled dialog, a file that vanishes in between.
2. The container format of `encryption` as pure operators against a reference definition.

## 7. Not modelled

Three quarters of the lines under `src/` are one vendored file, `common_header/json.hpp` (24765 lines), and
most of the rest of that directory is vendored too (`Toolhelp.h`, `CmnHdr.h`): third-party code, modelled only by
what the programs use of it. Of the programs themselves the models leave out
drawing and layout, resource scripts and message crackers, project files, and the straight-line samples
of section 1.8, which keep no state between two calls, so that there is no step another could come
between. `encryption` and `imgconverter` are planned (section 6).
