# MakuTweaker++: models, checks and proofs

TLA+ modules of the parts of MakuTweaker++ in which threads, processes, files and clocks
meet, the TLC runs that check them on small instances, and theorems about them that TLAPS
proves for every value of the constants. Paths below are relative to the repository; the
program is `src/`. `PROJECT.json` maps every definition to its lines of code.

## The system

| part | state | operations | interacts with |
|---|---|---|---|
| Settings, consent (`core/Settings.cpp`, `Analytics.cpp`, `TelemetryWire.cpp`) | one JSON file; a copy in each window; the launch-event and benchmark threads | Load, Save, SetConsent, TrackScreen, events; `analytics`, `settings set`, `preset import` | every process that loads or saves the file |
| Shutdown timer (`ui/Pages.cpp`, DrawSat) | countdown, probe flag; the shutdown Windows holds | start, cancel, probe, report | `shutdown.exe`, job queue |
| Tweak table (`core/TweakRegistry.cpp`) | registry values, power schemes, BCD flags | probe, apply, run | pages, Quick Setup, command line |
| Tweak pages (`ui/TweakPage.cpp`) | cached states, probe thread | frames, clicks, elevation, Quick Setup batches | tweak table, job queue |
| Job queue (`core/JobQueue.cpp`) | queue, mutex, busy flag, one worker | Enqueue, WorkerLoop, IsBusy | pages |
| Metrics database (`core/MetricsDb.cpp`, `MetricsWriteBuffer.cpp`) | two tables; buffer; time of maintenance per connection | insert, batch, purge, thin | service and windows, at once |
| Metrics collecting (`platform/MetricsService.cpp`, `core/MetricsBackground.cpp`) | tick counters, interval, cached answer of the service manager | service loop, window frames, start, stop | settings file, database |
| Metrics tray (`platform/MetricsTray.cpp`, `app/Application.cpp`) | processes, a shared mutex, windows, icons | launch, RunStandalone, menu, timer | service, window, sessions, Explorer |
| Process runner (`core/ProcessRunner.cpp`) | two pipes per call, inherited handles | Run, ReadProcess | everything that runs `powershell.exe`, `sc`, `bcdedit`, ... |
| Package page (`ui/Pages.cpp`, DrawUwp; `core/UwpUtil.cpp`) | list, selection by position, two flags, a question | reload, select, remove | job queue, process runner |
| Hosts file (`core/HostsBan.cpp`, dialog in `ui/Modals.cpp`) | one file of lines, the block between two tags; the dialog's text | read, update in place, dialog, `hosts` commands | other programs that edit the file |
| Embedded payload (`core/EmbeddedStore.cpp`) | an extracted directory with a marker | launch, remove, extract, mark | other starts of the program |
| Command line (`cli/Cli.cpp`) | none of its own | parse, 17 commands, exit code | all of the above |
| Process page (`ui/Pages.cpp`, DrawProcessMgr) | rows read some seconds ago, a selection by number, filters, exclusions | frames, clicks, menu, exclusions dialog | processes of the machine |
| Monitor page (`ui/MonitorPage.cpp`, `MonitorPlotAxis.cpp`) | three caches of query results, axis, range | frames, tiles, ranges, zoom, drag | database, live sample, service |
| Sampling, information pages, benchmark, localization, toolkit, renderer, update check | no state of their own that more than one step changes, or I/O only | | not modelled |

What is hard in it: detached threads, a worker and the UI thread work on the same registry and
the same flags (tweak pages, shutdown timer, job queue); several processes rewrite one settings
file and one database without a lock of their own; a 32-bit counter measures time; a service,
windows and trays in several sessions start and stop each other; anything may be killed between
two writes; and pages act on what they read a while ago. `PROJECT.json` lists these hazards at
their lines.

What makes each part correct:

- *Consent*: nothing is transmitted before somebody allows it; an answer is not undone; what
  is shown is what the transmitting threads obey.
- *Shutdown timer*: the countdown is that of the scheduled shutdown, it stops when the
  shutdown is gone, and a probe leaves nothing behind.
- *Tweaks*: a toggle reports what it was last set to; off restores the default; a page shows
  the registry in the end.
- *Job queue*: every job runs, once, in order, and the UI knows.
- *Packages*: what is removed is what the user has ticked; the list is what is installed; a
  program that is run gets its output read and does not hang its caller.
- *Hosts file*: the lines of others stay, and the list is what was applied last.
- *Payload*: what has a marker is complete, and what runs has all its files.
- *Command line*: what a line asks for does not depend on where its flags stand, nothing
  else happens, and the exit code is true.
- *Process page*: what is ended is what was chosen, what is shown is fresh, what is excluded
  is hidden.
- *Monitor page*: a chart draws all samples of what it shows, averaged by the clock.
- *Metrics*: samples come on schedule, from one collector, without holes; thinning and
  purging take what they should and nothing else; one tray is there when it should be.

## Modules

Each component has a module with its state, one action per step of a handler between two points
at which another thread or process may come in, and its properties at the end; an `MC` module
instantiates it. Components that share no state are put next to each other: `SharedFiles`
(settings, hosts file, payload), which `MCFiles` gives its constants, `MCPages` (tweak table,
command line, process page) and `MCFrames` (shutdown timer, job queue, page of toggles, monitor
page) have a variable `scene` that says which of them a behaviour is about, and the others rest
in an initial state. A run of the sum explores what runs of each would explore. `ProcessScene`, `LineScene`,
`TimerScene` and `JobScene` give the process page, the command line, the shutdown timer and the
job queue names that do not clash with those of the others, for runs and proofs that have
several of them. `Picking` has what `HostsFile` and `CommandLine` both
take out of a sequence. Eight `Proofs` modules hold the theorems. A few definitions (such as
`IsNotDeclined` next to `IsEnabled`) are variants that plausible mistakes would give; nothing
but the mutants in `PROJECT.json` uses them.

**ConsentStore** (with **Mix32**). A settings file `disk`, which is `Unreadable` between the
truncation and the writing of a Save; a copy `mem[g]` per window; for every process the step
its main thread is at. A page switch saves the whole copy and then lets TrackScreen load,
change and save the file. The launch events and the benchmark result are sent by threads
that check the consent first and transmit later. The gate that Transmit checks again is
`GateBit`; `MCConsentStore` assumes that it equals the low bit of `Mix32`, computed with
16-bit halves, and TLC evaluates that assumption. Fields other than the consent,
`disableTelemetry` and `firRun` travel along.

**ShutdownTimer**. Times are kept as what remains of them, so the clock needs no bound. Each
run of `shutdown.exe` is one step: startShutdown aborts and then arms, the probe arms and
then aborts, and either may come between the two of the other. The command line's shutdown
command and other programs are the external abort.

**TweakTable** and **TweakRegistry** (with **StoredNames**). TweakTable is the program's table
as data: for every entry its values for on and off and what its probe reads; the power-scheme
entries act on whichever scheme is active. A boot flag's probe does not ask for a content but for
`Enabled`: `Meets` says what BcdFlagEnabled makes of bcdedit's localized text, which depends on
whether the program knows the word for a false flag (`knowsNo`, part of the machine). TweakRegistry is what applying and probing do, for
any table `All` whose entries keep out of each other's way: that is its `ConstAssumption`, six
named conditions on rows (`EntriesAreOnes` to `DefaultsAgree`), and TLC evaluates them on the
program's table. `Set` and `Run` are the command line's, with the rights it checks. The pages
call the same operators; how their calls interleave is TweakPage's.

**TweakPage**. The detached probe thread, the UI thread's frame (a click applies one value at
a time, then shows, then makes a probe due), elevation with a relaunch, navigation, and the
worker that applies Quick Setup's batches. A toggle has the values that its on writes, those
that its off sets back, which may be fewer, and those that its probe reads, of which all have to
hold or one; toggles may share values, and every single write may fail, which nobody looks at.

**JobQueue** and **FifoJobs**. The worker's loop with its mutex, which it keeps while it
sleeps; FifoJobs says what a user may rely on, and `ImplementsFifo` is the refinement
(`enqueued <- calls, running <- job, ran <- done`).

**MetricsRetention**. Rows are their keys. Each writer is a connection with statements that
commit by themselves, may find the database locked and then do nothing: inserts and
flushes, the purge of the one table and of the other, the thinning, which keeps one row per
minute and processor of those its own query selects. Services and windows, restarts, and a
clock that may be set.

**MetricsCollect**. The loop of ServiceMain and the window's Tick on counters below
`2 * Half` that wrap around, with the program's comparisons: unsigned differences against
periods, and one signed difference against the next sample. Passes and frames come late by
any delay up to `MaxDelay`. Settings change, and a file being rewritten reads as the
defaults. The window's answer of the service manager is kept for `CacheTime`.

**MetricsTray** and **SingleTray**. Up to `Procs` tray processes in `Sessions` and in session
`Zero` of the service. A process creates the mutex, its window, its icon; it ends when there is
no taskbar, when it is told, when the service is removed, or five minutes after it has stopped.
Windows are found within a session only; the mutex is known in all. The service launches a tray
when it starts, when a user logs on and at every health check; the window when it closes or
starts the service. Explorer may end and come back; users log on, off and switch. SingleTray is
what all of this comes to for the tray: its holders, windows and icons are `{p : Holds(p)}`,
`{p : HasWindow(p)}` and `icon`.

**ProcessRunner** and **UwpPage**. A call of Run is a record of how far it is: its pipes made,
its child created, its writing ends closed, reading the output, then the errors, waiting.
What is printed is counted in pieces. What is read is appended as a C string, so of a child that
prints zeros (`zeros`) no piece is known to arrive whole; `missing` counts the pieces that were
printed and are not in the result. `holders` are the children that hold the writing ends
of a call: its own, and those that another thread created while they were open. UwpPage
extends it: the page's frame on the UI thread and the jobs on the worker, which list and
remove packages with PowerShell, and programs that other pages run on the UI thread. A frame
reads the two flags without a lock and is one step from where it has found nothing
loading, since only the UI thread starts loading; a job sets them in two steps. The jobs of other
pages are left out of the queue; the word to be typed is the user's choice.

**HostsFile**. The file is a sequence of lines: the two tags, `127.0.0.1 d` as the domain `d`,
and lines of others. An update reads the file, takes out the block (from the *last* start
tag to the *last* end tag; the reader takes the first ones), truncates the file and writes
it again in pieces of the stream's buffer, at its own position: what another process
truncates meanwhile reads as `Hole`. What a loop over lines appends is `At`: the lines at the
places the loop accepts, each at the place of its rank. An update takes out whatever lines
of others stand in the block. A process may be killed, and a write may fail, at every
piece. The dialog fills its buffer once, and keeps it until an update has succeeded; the
commands read the list anew.

**EmbeddedStore**. Per process the stages of Launch: the marker is looked for, the directory
is removed file by file (a file that is open ends that early), created, each file opened
(which truncates it) and written, the marker made. Failures of opening and writing are
ignored by the code and are steps here. `together`, `killed` and `spoiled` remember what the
properties have to exclude.

**CommandLine**. One command is parsed and carried out in two steps; what the commands read
and change is one record, `pc`. The loop of ParseArgs over the words is told by the places it
comes to: `Takes` are those whose word is a value, `FlagPlaces` those of the flags, and
`Positional` are the words at all others; a flag has the value that `FlagAt` gives at the
last place of its name. Words are words: `Assigned` and `Pieces` say which of them
hold a `=` or commas, `Atoi` what they are as numbers. Everything that changes
something is there with its checks; of what is printed only whether something is, and the
settings that are shown. A write whose result nobody looks at may come to nothing, with rights
or without (`Unchecked`); `result.lost` remembers that one has. Preset import and export, `settings` and `analytics` work on the
settings as one process sees them; ConsentStore has several processes.

**ProcessPage**. A frame reads the rows if a button, the tab or the age of the rows asks for
it, and then draws; between two frames time passes and processes end and start, with numbers
that are given again. `age` is the true age of the rows; the code's own is a difference of
ticks modulo `Wrap`. The exclusions are a sequence of names, of which `Inside` says which are
parts of others, as the code searches one text for another; the user takes one word at a
time out of the dialog's text, which is saved with a button of its own.

**MonitorPage**. One frame is one action, in the order of the code: caches, the merging of the
live sample, the controls, the axis, the averaging. A sample is its time stamp and a drawn
point the set of samples averaged in it, so that a property can say which samples
are in the picture. What a drag does to the axis is the plot library's: it moves the limits
of the frame, which the program saves.

## Runs

| run | instance | checked |
|---|---|---|
| Consent | a window and a command, crashes, all commands; hosts file: a window and a command, two domains and a forbidden one, four files to begin with, two updates; payload: two files, two processes, three starts | `AllTypesOK`, `NothingBeforeAllow`, `AnswerKept`, `ShownIsStored`, `OthersAreKept`, `ListIsApplied`, `CompleteWhenUsed` |
| ConsentCli | the window and a command, `analytics` only | `AnswerHolds` is violated |
| ConsentDecline | one window | `DeclineCloses` is violated |
| Frames | timer: delays 3 and 4, margin and period 1, two external aborts; queue: two kinds of jobs, four calls; toggles: two, of which the first writes two values, sets one of them back and shares the other with the second, which needs rights, one queued; monitor page: a minute of two seconds, an hour of two minutes, two processors, two inputs | `CountdownIsTheTimer`, `NoStrayShutdown`, `CountdownStops`; `BusyUntilDone`, `StaleBriefly`, `ImplementsFifo`, `EveryJobRuns`; `RestingShowsTruth`, `Converges`; `MonitorTypeOK`, `ChartIsComplete`, `PointsAreBuckets` |
| ShutdownQuit | the timer alone, one external abort | `NothingLeftBehind` is violated |
| Tweaks | table: any two entries, or up to eight calls on those that share values; command line: any two of some 180 lines; process page: two names, two numbers, a tick count of five | `ProbeIsLast`, `RestoresDefault`, `FlagsMayStandAnywhere`, `ExitCodeIsTrue`, `EndsWhatWasChosen`, `ShownIsFresh`, `ExcludedIsHidden` |
| Language | as Tweaks | `FlagsAreRead` is violated |
| ExitCode | as Tweaks | `SuccessIsDone` is violated |
| Retention | a service, a window, two processors, two times to a minute, one failure | `EveryMinuteKept`, `RecentIsComplete`, `NothingIsKeptForever` |
| Collect | a counter of ten ticks, intervals 1 and 3 (clamped to 2), delays up to 2 | `UnsavedIsYoung`, `Covered`, `OnSchedule`, `OneCollector` |
| Uwp | two packages, pipes of one piece; PowerShell prints two pieces, other programs two errors, or a piece with zeros | `TextIsRead`, `OnlyTicked`, `ShownIsInstalled`, `NobodyWaitsForEver` |
| Tray | two processes, two users' sessions | `ImplementsSingleTray`, `TrayComesBack`, `TrayGoes` |

Where a `TypeOK`, and `InOrder` and `OneJob`, are not among the checked, they are proved.

Why the bounds are enough. *Consent*: every conflict is between two processes; a process runs
again after its end, so one window stands for any number of successive ones. The hosts file is
looked at before, during and after an update, each by another one; the files to begin with have
no block, a block between others, a block without its end, and two blocks. Three starts let one
find what two others have left. *Frames*, the timer and the queue: the delays straddle margin and period; four calls of
two kinds pass the queue through empty, one and several. *Tweaks*:
entries meet through values they share; the run takes all pairs of the table and longer
sessions of all entries that share one. A command depends on earlier ones through the machine
only, so two of them are a change and what is made of it; the lines have every command with
every subcommand, good, bad and missing arguments, and flags in front, between and behind. The
looks at the process page (`Looks`) take two processes of one name, of one that is a part of
the other's, and the two tabs with every pace of frames against the refresh period and the wrap
of the tick count. *Frames*, the monitor page: it is scaled; the ratios of margin, minute, range and row
limits are such that each of the clamps, both sides of each limit and several bucket widths
occur; the user's two inputs are of one of three habits. *Frames*, the toggles: the two are made after
`sys.uac-off`, which forgets a value, and `sys.smartscreen-off`, which shares one with it, and
give every overtaking of probe, click and batch and every failure of a write between them. *Retention*: two times to a minute let two rows share one, and the
clock passes three minutes; it is not set back in the run (`Jumps = FALSE`), which all proofs
but `NothingStaysForEver` allow. *Collect*: the counter wraps several times within an interval
and every period meets every phase of it; the capacity of two samples lets the buffer fill
before and after its time. *Tray*: one process may be on its way while the other ends, in the
same session or another. *Uwp*: PowerShell, which is told to print UTF-8 and no errors, fills its output's pipe, the other
programs their errors', or print UTF-16, and each thread's child may hold the other's pipes; two packages are enough for a
selection to move to the other.

Deadlock is checked, except where the system stops: a machine that is off, a program that is
closed, calls, inputs and clocks that have come to their bound (Frames), commands (Tweaks), processes
that have all ended (Consent).

### Fairness

- *Frames*, the timer: weak fairness of the frame, of the second command of the button's handler
  and of the worker's next step. The program draws at least six frames a second when it is
  visible; commands and jobs return. Pressing buttons and closing are not fair.
- *Frames*, the queue: weak fairness of the worker's loop: the thread is scheduled and jobs return.
  Enqueue is not fair. The caller waits for a mutex that the worker gives up and takes again
  at once, and a `std::mutex` promises a waiter nothing; so that a call returns is no property
  here, and `EveryJobRuns` is of the calls that have returned.
- *Frames*, the toggles: weak fairness of the probe thread, of a frame's next step and of time.
  Clicks, batches and other programs are not fair, and writes may always fail; `Converges` assumes
  that the registry comes to rest and that no question to the user stays open.
- The scenes of Frames share their fairness conditions two or three at a time, each of which is
  that of the one scene a behaviour is in.
- *Tray*: weak fairness of each step of a process, of the passing of time, and of the
  service's launch and health check, which its loop repeats every 30 seconds. Users,
  the window, Explorer and the service manager are not fair, and `TrayComesBack` asks that
  launching in the user's session does not fail for ever.
- *Uwp*: weak fairness of each step of a call, of the children, which print and end, and of
  the worker. Frames, the user and what PowerShell does to the packages are not fair.

### Divergences

- `DeclineCloses`: README.md:144 says that declining closes the channel permanently. The
  second check of the transmitting thread, `Gate`, is the low bit of `Mix32`, which is 0
  for both values of the flag, so an event whose first check has passed goes out after
  the refusal.
- `AnswerHolds`: README.md:150 says that the command line controls the same setting. In the
  run, a window that starts for the first time has loaded the settings when the command line
  stores the answer, and its first save (`Application.cpp:97`) writes them back behind it. A window
  that is open writes its own copy at each page switch too (`Application.cpp:239`).
- `NothingLeftBehind`: the comment at `ui/Pages.cpp:254` says that the probe undoes what it
  has armed. A program that is closed between the two commands does not.
- `FlagsAreRead`: the comments at `TweakRegistry.cpp:50` and `:73` say that a flag counts as
  enabled unless it is an explicit no, in English or Russian. The Russian word is compared
  with the bytes of a small letter in UTF-8, but bcdedit prints a capital one, which
  `std::tolower` leaves alone, in the code page of the console; most other languages are not
  known at all. There `adv.advanced-boot-options`, whose off sets the flag to false
  (`TweakRegistry.cpp:971`), reads as on for ever. Flags that off deletes are read well.
- `SuccessIsDone`: README.md:129 says that exit code 0 is success. The stream that rewrites the
  hosts file is not looked at (`HostsBan.cpp:90`), nor is what the setters of tweaks return
  (`TweakRegistry.cpp:1175`), so `hosts ban` on a file that cannot be opened, or `tweak set` on a
  key that is closed, ends with 0. What holds is `ExitCodeIsTrue`: with 0, the rights were
  there; what the three commands that look at their result have done is so (`cpu throttle`,
  `uwp remove`, `proc kill` by number), and so is the rest unless a write was lost.



Seen while modelling, without a run of their own:

- SetPage saves the copy of start-up before TrackScreen counts the visit, so the visit
  counters of the file fall back at every page switch (`Settings.h:34`).
- `preset import` on the command line saves settings that were never loaded over the file
  (`PresetIO.cpp:58`); an old file with `disableTelemetry` counts as a refusal
  (`Settings.cpp:38`).
- The result of a shutdown probe is applied to whichever countdown is current
  (`ui/Pages.cpp:296`), and its margin is that of the moment it was queued
  (`ui/Pages.cpp:294`).
- Turning `sys.uac-off` off leaves two values it wrote (`TweakRegistry.cpp:555`; `Leftovers`);
  the timeouts are those of the scheme active at the moment (`TweakRegistry.cpp:1097`;
  `Promised`).
- Quick Setup does not make the pages probe again (`TweakPage.cpp:233`), and its worker and a
  page may leave the values of one toggle torn (`TweakPage.cpp:236`).
- The window's sampler is opened without counters of processors, yet writes a row of zeros
  for each (`MetricsSampler.cpp:78` and `152`).
- The service reports that it runs when its sampler or database has failed, and the window
  then leaves the collecting to it (`MetricsService.cpp:104`).
- A machine suspended for more than 24.8 days finds the next sample in the future
  (`MetricsService.cpp:127`); `ConstAssumption` of MetricsCollect excludes that.
- Install calls Start with the lock of the cache held, which Start takes too
  (`MetricsService.cpp:290`).
- The command line accepts an interval of an hour (`Cli.cpp:960`); the service clamps it to a
  minute, the window does not.
- The tray's mutex is global: with fast user switching, the second user has no tray for as
  long as the first one's lives (`MetricsTray.cpp:38`).
- The window's own icon does not come back when Explorer restarts (`TrayIcon.cpp:40`).
- A program that prints more errors than the pipe takes while its output is open hangs its
  caller (`ProcessRunner.cpp:50`); `NobodyWaitsForEver` says that nothing else does. Because the
  handles of both threads' pipes are inherited, it may hang the other thread's caller too.
- When CreateProcess fails, the two writing ends stay open (`ProcessRunner.cpp:98`); of each
  chunk of output that is read, what is behind its first zero is dropped (`ProcessRunner.cpp:53`),
  so that the conversion from UTF-16 (`ProcessRunner.cpp:12`) never gets whole UTF-16.
- Closing the question of the package page by its cross keeps the typed word
  (`ui/Pages.cpp:530`).
- *Hosts file.* An update without rights succeeds for its caller: nothing looks at the stream
  (`HostsBan.cpp:90`), so the dialog reports success and its message about rights
  (`Modals.cpp:134`) is never shown. What an update leaves that is cut off may be a block
  without an end, which the next one does not take out and which stays blocked. Two updates
  at once may lose lines of others. The dialog's buffer takes 8192 bytes; Apply then unbans
  the domains that did not fit. It keeps its text after Cancel and writes it over what the
  command line has banned since. The forbidden `youtube.com/@makuadarii` and
  `boosty.to/adderly` can never match, as paths are cut off before.
- *Payload.* Of two first starts, one may run while the other removes its files; a kill among
  them, or a file that cannot be written, may leave a marker over an incomplete directory
  for ever (`EmbeddedStore.cpp:78`).
- *Command line.* `--yes=no` counts as yes. `settings set disableTelemetry` reports success, but
  what is stored follows the consent. `preset export` writes defaults and `preset import`
  resets what the file does not mention, as the settings were never loaded. `proc kill` by
  name, `uwp remove` of several and a second `shutdown` succeed whatever happens;
  `shutdown 71582789` is 44 seconds, as `minutes * 60` overflows (`Cli.cpp:800`). `preset quick
  --json` lists entries that are not available. The names DisallowRun refuses have no
  `.exe`, so `explorer.exe` passes.
- *Process page.* Excluding `code.exe` when `vscode.exe` is excluded does nothing (`Pages.cpp:770`).
  The menu's End ends all processes of the name. The frame in which the tab changes shows
  what was read on the last visit. The exclusions dialog fills an empty text again in
  every frame, so the list cannot be cleared there (nor can MakuYan's), and it saves a text
  that may be older than what the menu has excluded since.
- *Monitor page.* QuerySystem keeps the oldest rows (`MetricsDb.cpp:265`): with a row per second the
  view of ten minutes, limited to 433 rows, lacks the newest six, and the small charts, 96
  rows of 1200 seconds, always show the oldest part. Dragging a chart only freezes it, since
  the program sets the limits in each frame. The frame of a click on a tile draws what
  was read for the last one. BuildTimeline fills processors without a row at the oldest time
  with 0. DrawNumaHeatmap reads the first `n` entries of a list filled at the group's
  own indices, so that every node but the first shows 0 % (`CpuVisualizer.cpp:333`); no
  module has it.

## Proofs

Eight `Proofs` modules, all for arbitrary constants under the `ConstAssumption` of their
component. TLC evaluates these assumptions in the runs.

| module | theorems | inductive invariant and why it is needed |
|---|---|---|
| SharedFilesProofs (settings) | `TypeCorrect`, `NothingIsSentBeforeAllow`, `AnswerIsKept`, `ShownConsentIsStored` | `AllowInv`: until somebody allows, no file, copy or pending save grants, and no thread has passed its check. `KeptInv`: as long as no command has run, with a single window (an assumption of the theorem), no copy and no pending save holds another answer than the last. `ShownInv`: between two saves such a window's copy has the consent of the file, and a save has that of the copy, unless it is of a new answer. |
| SharedFilesProofs (payload) | `StoreTypeCorrect`, `StoreComplete` | `OneExtracts`, `SoFar`: a process that began alone is alone until the marker is there, and has completed the files before its next one. `Repaired`: when several are at it and none is killed, a file that is not whole is still to be written by one of them (`Owes`), so that whoever is last leaves all of them |
| SharedFilesProofs (hosts file) | `HostsTypeCorrect`, `HostsKeepOthers`, `HostsListApplied`, `AllTypesCorrect` | `Progress`, `OneWriter`: unless one has come into the writing of another, the file is the part of its lines that the writer has written. `RestIsSound`, `LinesAreSound`: the file at rest, and all that is about to be written, has the lines of others and reads as the list (`Keeps`, `Lists`), and even after a cut its tags are in order (`Holds`) |
| WindowPagesProofs (shutdown timer) | `TimerTypeCorrect`, `TimerCountdownIsRight`, `TimerNothingStray` | `OneProbe`: a running program has at most one probe, and the flag says so |
| TweakRegistryProofs (table) | `TableTypeCorrect`, `TableProbeIsLast`, `TableRestoresDefault` | `SetIsKnown`: a toggle that was set is available, and its probe reads what it was set to. `DefaultsStay`: a value that no toggle which is on has written is the default, and as long as the power plan's entry is untouched the scheme is the balanced one, so that the active scheme's timeouts are always the same values |
| TweakRegistryProofs (job queue) | `QueueTypeCorrect`, `QueueNothingLost`, `QueueBusyUntilDone`, `QueueStaleBriefly`, `QueueRefinement` | `Holding`: the mutex and the job in hand tell where the worker is. `InOrder`: no job is lost, so that a worker that finds the queue empty, with no job in hand, has run all |
| WindowPagesProofs (toggles) | `TypeCorrect`, `RestingPageIsTrue` | `ProbeInv`: unless a click is under way or another probe is due, what the probe has read, or the page shows, is true of every toggle whose values only the page has written |
| WindowPagesProofs (processes) | `ProcessTypeCorrect`, `ProcessEndsTheChosen`, `ProcessRowsAreFresh`, `ProcessStaysExcluded` | `Distinct`, `SeenFirst`: of the processes with one number one runs, and what has been seen is that one or an earlier one. `Chosen`: what is selected, or under the menu, is what was clicked. `AgeIsKnown`: the true age of the rows is at most the wrapped difference of ticks that the page computes |
| CommandLineProofs | `LineTypeCorrect`, `LineFlagsMayStandAnywhere`, `LineExitCodeIsTrue` | `LineInv`: what is kept of the last line is what the commands make of the machine as it was before it, and the machine is one they can leave (`IsMachine`). Each command, of whatever words, ends `Fine`: its exit code describes the machine it leaves, but for what an unchecked write has lost |
| MetricsRetentionProofs | `TypeCorrect`, `MinutesAreKept`, `RecentRowsStay`, `NothingStaysForEver` | `TypeInv`, `Sampled`: every row ever written is older than a purge or a thinning, or is there; a thinning keeps a row of each group it finds. `InTime`, `PurgedInv`, for a clock that nobody sets (an assumption of the theorem): what is being written is younger than any cutoff, and a connection past its purge has left nothing older than the retention time before its last maintenance |
| MetricsCollectProofs | `TypeCorrect`, `SamplesAreOnSchedule`, `LittleIsUnsaved`, `WindowYields`, `HistoryIsCovered` | `Scheduled`, `Saved`, `CacheTells`: each counter holds the current tick less, or plus, an unbounded history time; as that time is less than `Half`, the wrapped difference is the true one. `PollTells`, `HoleInv`, for periods that the counter can hold (an assumption of the theorem): after the service has stopped the hole is as old as the kept answer, or as the window's last poll |
| MetricsTrayProofs | `TypeCorrect`, `OnlyOneTray`, `TrayRefinement` | `OneHolder`: the mutex has one holder from its creation to the end of the process |
| UwpPageProofs | `TypeCorrect`, `TextIsAllRead`, `FlagIsOneJob`, `OnlyTickedIsRemoved`, `ListIsInstalled` | `RunnerInv`: a living child holds its own pipes, a pipe at its end is empty, and what is missing of a text is what is in its pipe; `JobInv`, `ReadyInv`: a question is open only while the list is ready; `TickedInv`: the selection is as long as the list; `ShownInv`: what a job has listed is installed until the page has taken it over, and no removal runs while the list is shown |

Each module shows that the initial states satisfy the invariant, that each action preserves
it, one lemma or step per action, and that it implies the property; the temporal theorem
combines the three. The refinements of JobQueue and of MetricsTray map each step to a step of
FifoJobs, or of SingleTray, or to a stutter. `AllTypesCorrect` is about the specification that has the three files: a behaviour of
it is a behaviour of each of them (`EachOnItsOwn`), so that the other theorems hold of it too.

The theorems about the hosts file rest on lemmas about files that have nothing to do with
processes. `Ranks` says that the places a loop accepts have the ranks 1 to their number, each
one of them, from which follows what `At` returns and in which order (`AtRank`, `AtRange`,
`SameAt`: two files that have the same lines at places that correspond give the same).
`Erasing` and `Adding` say what taking out the block and appending one does to the places of
the tags; `TidyStays`, `OrderedStays` and `ClosedStays` that the conditions on the file survive
it; `OthersStay` and `ReadsTheBlock` what an update does to the lines of others and to what is
read. The conditions on the file to begin with are needed: lines that others have put into the
block go with it (`Tidy`), of several blocks the first is read but the last replaced
(`Closed`), and an end tag ahead of its start tag makes the list empty, since the reader stops
at it (`Ordered`).

The theorems about the command line take its lines to be of any length and any words, which the
assumption on the constants only asks to be read sensibly: an identifier has no comma, a word
with a `=` is not itself the name of a flag, `cancel` is not a number. `LineFlagsMayStandAnywhere`
follows from how places move (`FlagsMove`): when a flag goes from its place to another, each
other word has a place before and one after, in the same order, so that the same words are taken
for values and the same are left as arguments.

The theorems about the registry of tweaks are about any table, any number of calls in any
order, any machine of the three kinds `Machines` and any rights. What they ask of the table is
about single rows and pairs of them, so that a new entry can be judged by itself. They rest on
`PlaceIsOwn` (two names are never kept in one place, whichever scheme is active),
`WhatIsWritten` (what a list of writes leaves at each place) and `MayWrite` (who may apply an
entry may write its values).

Only model-checked:

- MonitorPage's `ChartIsComplete` and `PointsAreBuckets`: the averaging goes through the samples
  one after the other, so that what it makes of a list of any length takes an induction over
  data. With them the page's types (`MonitorTypeOK`).
- Liveness (`CountdownStops`, `EveryJobRuns`, `Converges`, `TrayComesBack`, `TrayGoes`,
  `NobodyWaitsForEver`), which together with fairness and ENABLED is out of the prover's reach.

The provers here have neither induction over data nor recursive operators, so the modules
with theorems have none; where a loop of the code collects something, the model says which
places it takes and in which order.

## Not modelled

The look of anything, with the grids and heat maps of processors and the sorting of rows;
network and WMI; what a sampler measures; installing the service step by step; the opening of
windows from the tray and the icon of the window itself; the progress fields of the job queue,
which nothing sets; the filter of the package list and the conversion of what programs print from UTF-16;
the replacement of the task manager; crashes other than in ConsentStore, HostsFile,
EmbeddedStore, MetricsCollect and MetricsTray (as a kill).

The end of the program with jobs queued (`JobQueue.h:25`), the update check's write from a
detached thread (`Application.cpp:144`) and the lock that Install takes twice
(`MetricsService.cpp:292`) are undefined behaviour with one outcome each worth telling (the
process ends, a record is torn, the call never returns): there is nothing to explore. How
late a queue of jobs may run a probe of the shutdown timer is bounded by nothing in the code,
so no property can state its margin (`ui/Pages.cpp:294`).

## Plan

What could come next: **ServiceControl**, in MetricsTray and MetricsCollect: Install,
InstallElevated, Uninstall over the service manager, with the cache's lock; the processor
views of `ui/CpuVisualizer.cpp` as functions against a reference; the information pages' jobs
(`ui/PagePci.cpp`).

Compositions: TweakPage and ShutdownTimer over JobQueue's promise (FifoJobs) rather than a
worker of their own; MetricsCollect over MetricsRetention's writers; MonitorPage over both.

Proofs that come next: the monitor page, for which its averaging has to be told by the places
of the samples.
