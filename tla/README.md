# sofi in TLA+

A verification project for [sofi](../src/README.md), a launcher, panel and
notification daemon for Wayland and X11 written in C.  It models the parts of the
program whose correctness depends on order: the notification daemon and the files and
messages it shares with other processes; the banner and the dialogs that an event loop,
an animation layer and a compositor move together; threads; the panels that drive other
programs; and the lists that modes build from files, histories and windows.  TLC checks
the models on small instances; TLAPS proves, for every size, the central properties of the
notification store and of the system around it, of the banner, the tray, the panels, the
threads of the launcher, the X11 window, the instance lock and the clock of what moves.

    tlc -config MCNotifyStore.cfg MCNotifyStore.tla
    tlc -config Modes.cfg MCModes.tla
    tlapm NotifyStoreProofs.tla
    tlapm LauncherProofs.tla

## The system

sofi is one binary that runs as several kinds of process:

| process | started as | shares |
|---|---|---|
| notification daemon | `sofi -notification-daemon` | the bus name `org.freedesktop.Notifications`, the history file, a layer surface |
| standalone panel | `sofi -show notification-history` and the like | the history file (read, rarely written), calls to the daemon |
| one-shot command | `sofi -notification-clear[-history]` | one call to the daemon |
| launcher | `sofi -show drun`, `-dmenu` ... | launch history files, the desktop cache, a pid file |
| tray host | `sofi -tray-daemon` | the watcher's and sofi's own tray bus names |

Inside a process everything runs on one GLib main loop, except for three kinds of
thread: the filter workers of `view.c`, the icon workers of `sofi-icon-fetcher.c`,
and the reader threads of `dmenu.c` and `recursivebrowser.c`.

### Inventory

For each component: its state, its operations, whom it meets, what is hard, and what
makes it correct.

**Notification store** (`notify-store.c`). A ring of notifications, newest first; an
id counter; one expiry source per mortal entry; the history file. Operations: add or
replace, close one, close all, clear, expire, load, save, overlay the daemon's live set. Called by
the service, calls back on every change. Hard: five ways to retire one entry; two
caps that retire entries themselves; in-place replacement under a running timer; a
32-bit counter. Correct when each sender hears exactly one `NotificationClosed`, no
timer outlives its entry, ids name one entry, and the file follows the ring.

**Notification service** (`notify-service.c`). Owns the bus name; decodes `Notify`,
`CloseNotification` and sofi's own `Dismiss`, `DismissAll`, `ClearHistory`, `GetLive`,
`InvokeAction`. Hard: two daemons handing over one name while both touch one file.
Correct when the handover ends with one daemon and loses nothing.

**History panel and command line** (`modes/notification-history.c`, `sofi.c`). A copy of
the ring, refreshed from file and daemon; synchronous calls with a timeout of one
second. Hard: the copy is stale the moment it is read; "no daemon", "no answer" and
"answered" need different treatment, and an unanswered call may still be carried out.
Correct when what it does hits what the user saw, and nothing is lost.

**Banner** (`sofi.c`, `view.c`, `wayland/view.c`, `wayland/display.c`, `anim.c`,
`modes/notifications.c`). A view (rows, selection, flags `quit`, `refilter`, dirty
bits), a layer surface with its frame callback, an entry and exit motion, five kinds
of source in the main loop. Driven by changes of the store, frames, the pointer, and
surfaces the compositor refuses or takes away. Hard: teardown is postponed until a
motion ends, and the motion may never get a frame; reloads and repaints coalesce.
Correct when surface and view agree, a postponed exit always ends, and what is shown is
what is live.

**Animation clock** (`anim.c`, the frame callbacks of `wayland/view.c`). A time stamp kept from
frame to frame, and per motion what has elapsed of its duration. The compositor's
milliseconds wrap, the first frame of a motion has none before it, an exit may cut an entry
short. Correct when a motion runs for its duration and an exit only fades.

**Worker pool** (`view.c`, `sofi-icon-fetcher.c`). One thread pool for two kinds of job: parts
of a list to filter (first) and icons to load. State: the queue, requests by name and
size (`query_started`, `query_done`, `surface`), the line map, the reload guard
`idle_timeout`. A page change frees the pool without waiting for its threads, to drop
what was queued. Hard: threads of an old pool work beside those of the new one; a
request is answered by two stores without a lock; failure paths call into the view from
the thread. Correct when a filtered list is that of a sequential filter, a row takes
another icon only when one cannot be loaded, and what was loaded is drawn.

**Tray** (`tray-watcher.c`, `tray-item.c`, `tray-service.c`, `tray-client.c`, the strip in
`view.c`; `dbusmenu.c`, `modes/tray-menu.c`). Registered items, a proxy with pending calls per
item, a coalesced `Changed` signal, the strip's snapshot. Hard: names that vanish while
calls are pending; replies that arrive late or not at all; lists rebuilt under the
pointer. Correct when the strip ends up showing the registered items as they are, no
freed item is called back, and a click reaches the item that was clicked.

**Launch history** (`history.c`). One file per mode, read, changed, and replaced by
renaming a temporary file; removal rewrites in place. Any launcher may be killed, and
nothing keeps two of them apart. Correct when one launch changes one count.

**Readers** (`modes/dmenu.c`, `modes/recursivebrowser.c`). A thread, a queue, a pipe that
wakes the main loop; one is told to end by a pipe, the other by a flag. Correct when
every row arrives once and whole, and the end of the dialog ends the thread.

**List view** (`widgets/listview.c`, the selection in `anim.c`). Selected row, offset, page,
columns, direction, all unsigned; the fade between two rows, which draws twice. Hard: it
is navigated, refiltered and resized between two frames, and each layout scrolls by
rules of its own. Correct when a frame paints the selected row and nothing past the end.

**Widgets** (`widgets/box.c`, `container.c`, `widget.c`, `icon.c`, the message bar, the overlay and
the tray's strip of `view.c`). A tree of boxes with a place and a size each, which of them are
enabled, and whether to draw. Modes, filters, overlays, the tray and the window manager change
what each wants; a box is laid out again when a child tells it so. Hard: who tells
whom, and drawing that comes later than the change. Correct when children fill their box side by
side, the list has the room of its rows, and a click reaches what is painted there.

**Network panel** (`modes/network.c`). Rows of networks; joining is a series of runs of
`wpa_cli`. Hard: any may fail, the supplicant acts by itself between them, and selecting a
network disables the others. Correct when a failed join is undone.

**Bluetooth panel** (`modes/bluetooth.c`, `modes/bluetooth-bluez.c`). Under BlueZ: an agent
that bluetoothd blocks on, one held question, a pairing in flight, and rows read from
bluetoothd's objects, again after every signal. Over netgraph: two
configuration files that hold every device's pairing, rewritten by commands that may
fail. Correct when each question gets one answer, from the panel that shows it, other
devices' entries are left alone, and rows and message are what bluetoothd said last.

**Display panel** (`modes/display.c`). A listing of the outputs, levels of rows, an armed verb.
Outputs come and go under the listing. Correct when it turns off neither the last output
nor its own.

**Dialog** (`view.c`, `sofi.c`, `mode.c`). The view of a launcher: text, line map, selection,
`quit`, `retv`, `refilter`, a delayed filter, an exit motion. Keys change it; when the exit
motion has ended, `process_result()` hands the chosen line to a mode, whose answer ends the
dialog, reloads it or switches to another mode. Hard: the choice is a position, resolved
later; a filter may be due by then; error dialogs lie on top. Correct when the mode is told the
entry that was chosen and what was typed is filtered.

**Text entry** (`widgets/textbox.c`, the input history of `view.c`). Text, cursor, and the
inputs of earlier dialogs in a file. Correct when an edit touches what is at the cursor.

**Tray menu** (`modes/tray-menu.c`, `dbusmenu.c`). The levels that are open, rows of the
deepest, the icon they belong to. Hard: another icon may be clicked at any time. Correct when the
rows are those of the icon, and a choice is told to its application.

**Window switchers** (`modes/window.c`, `modes/wayland-window.c`). Under X11 a cache of windows
that two modes share and reload; under Wayland two lists of the same windows by two
protocols, matched by application and order. Correct when a row stands for one window, and a
command for it runs on it.

**Script modes** (`modes/script.c`). Rows, options and highlights of the last output, some of
them kept; a Lua mode under a deadline. Correct when what is shown is one output, and a mode that
does not end is ended.

**Wayland seats and surface** (`wayland/display.c`, `wayland/view.c`). Seats with keyboards, a repeat
source each, pointers and their pending scrolls; outputs, the surface's scale, and pools of
buffers that the compositor holds. Correct when a key repeats while it is held, scrolls add up,
and a frame has the size and scale it says.

**X11 window** (`xcb/view.c`, `xcb/display.c`). One window and one pixmap for all views, a repaint
idle, and sizes that sofi, the server and the window manager tell one another; the monitors, read
once, and which of them was chosen at the first question. Hard: pointer, focus and monitors change
between the question and the window, and a view that grows is placed anew. Correct when at
rest the window shows the view on top at its size, and lies where it was asked to, on the monitor the theme
was measured for.

**Applications, commands, hosts, files** (`modes/drun.c`, `run.c`, `ssh.c`, `filebrowser.c`).
Lists merged from directories, a history and caches. Correct when what there is is listed, once, in
order, and a row runs what it says.

**Combi** (`modes/combi.c`). Where each of its modes' rows begin. Correct when a row is passed on to
the mode it came from.

**Theme** (`theme.c`, `theme-lua.c`). A tree of properties built from documents, media blocks,
references and overrides. Correct when a widget gets what the documents say, in their order.

**Volume and sheets panels** (`modes/volume.c`, `modes/sheets.c`). A list read through a tool or a
socket, commands given the same way. Correct when the rows are what was read back.

**Instance lock** (`helper.c`, `sofi.c`). A lock on a pid file, and `-replace`. Correct when of several
launches one stands.

**The rest.** Drawing of borders, padding and the scroll bar (`widgets/`), matching (`helper.c`), options and colours
(`xrmoptions.c`, `css-colors.c`, `hikari-*.c`), key bindings (`keyb.c`), a table of backends
(`display.c`).

## The modules

| module | models | depends on |
|---|---|---|
| `NotifyRing` | the store's helpers as operators on ring, timers and signals | |
| `NotifyStore` | one daemon's store over one lifetime | `NotifyRing` |
| `MCNotifyStore` | instances of it for TLC | `NotifyStore` |
| `NotifyStoreProofs` | theorems about it | `NotifyStore` |
| `NotificationHistory` | the history that the service promises, abstractly | |
| `NotifySystem` | daemons, bus name, file, panel, command line, senders | `NotifyRing`; implements `NotificationHistory` |
| `NotifySystemProofs` | theorems about it, the refinement among them | `NotifySystem` |
| `Banner` | view, surface, motion and event loop of the daemon's banner | |
| `BannerProofs` | theorems about it | `Banner` |
| `SequenceLemmas` | sequences without some of their elements, with what is proved of them | |
| `Tray` | applications, watcher, proxies, service and strip over one ordered bus | `SequenceLemmas` |
| `NetworkJoin` | joining and forgetting networks by `wpa_cli` | |
| `BluetoothAgent` | the pairing agent under BlueZ, over panel sessions | |
| `NetgraphPairing` | pairing, connecting, setting up, forgetting over netgraph | `SequenceLemmas` |
| `DisplayPanel` | levels, rows and the verb that turns an output off | |
| `MCDesktop` | an instance of these five for TLC | the five |
| `DesktopProofs` | theorems about each of the five | `MCDesktop` |
| `WorkerPool` | thread pool, icon fetcher, parallel filter, reload guard | `SequenceLemmas` |
| `DmenuReader` | dmenu's reader thread and its dialog | |
| `LauncherProofs` | theorems about `WorkerPool` and `DmenuReader` | the two |
| `TreeScan` | the recursive browser's scanning thread | |
| `Dialog` | keys, filter, results and modes of a dialog | |
| `MCLauncher` | an instance of these four for TLC | the four |
| `ListView` | layout, navigation, scrolling, fade | |
| `WidgetLayout` | sizes, layout, drawing and aim of the widgets of a view | |
| `LaunchHistory` | launchers over one history file | |
| `TextEntry` | editing, and the history of inputs | |
| `TrayMenu` | the levels of a tray icon's menu | |
| `WindowList` | the Wayland window mode over its two protocols; the X11 window modes over one cache | |
| `ScriptMode` | what lasts from one output of a script to the next; the watchdog of a Lua mode | |
| `WaylandSeat` | keyboards, key repeat, scrolling | |
| `WaylandSurface` | outputs, scale, buffer pools | |
| `XWindow` | window, pixmap, sizes, monitor and place under X11 | |
| `AnimationClock` | the clock of motions, their durations, exits | |
| `ModesProofs` | theorems about `XWindow`, `WaylandSeat`, `WaylandSurface`, `AnimationClock`, `TrayMenu`, `LaunchHistory` and, with `InstanceProofs`, `ScriptMode`, `WindowList` and the panels' rows | `MCModes`, `InstanceProofs` |
| `BluetoothDevices` | rows, keys and message bar of the panel under BlueZ | |
| `Drun` | the list of applications, its cache and its history | |
| `CommandList` | the lists of commands and of hosts | |
| `FileBrowser` | the file browser and its completer | |
| `Combi` | offsets, bangs and results of the combination | |
| `ThemeTree` | documents, media blocks, references, lookup | |
| `InstanceLock` | pid file and `-replace` | |
| `InstanceProofs` | theorems about the lock, and what is proved of scripts, windows and the panels' rows | `InstanceLock`, `ScriptMode`, `WindowList`, `SoundAndSheets`, `BluetoothDevices` |
| `SoundAndSheets` | sinks, steps and what is read back; requests over the compositor's socket | |
| `MCModes` | an instance of these nineteen for TLC | the nineteen |

`NotifyRing` follows the C function by function: `Retire` is `retire()`, `Arm` is
`arm_timer()`, `EnforceCaps` is `enforce_caps()`, over a *store value* of ring, armed sources
and emitted signals. `NotifyStore` makes one action of each handler, with the
save that ends it; `NotifySystem` reuses the same operators for any number of
daemons and leaves timers out (an entry may expire at any time). An entry is known by
its `serial`, which stands for the heap object; ids are what the program gives out.

`NotifySystem` models a process by its phase and its inbox: the bus appends, the main
loop takes one message per step, and the loss of the name is a message like any
other. A daemon reads the file (`Start`) and only later gets the name (`TakeName`);
a crash may come between any two steps, within neither a handler nor a save (GLib
writes the file to one side and renames it). The panel's call is one step to send and one to
take the answer; `PanelFailed` is the timeout, after which the message is still in the inbox.

`Banner` writes each C function as a function from worlds to worlds (`Refresh`, `MaybeUpdate`,
`Update`, `SurfaceUnmap` ...), and one action per dispatch of a main loop source.
Time is what a frame elapses: a motion lasts `Frames` steps and a frame may elapse any
number of them. It leaves out the selection's cross-fade (in `ListView`), a buffer pool that has no
buffer left (in `WaylandSurface`), the keyboard, a banner has none, and error dialogs (both in
`Dialog`). `Dialog` is written the same way, with `DialogModes` for what a mode may answer.

Modules that are composed for TLC share no state: `MCDesktop`, `MCLauncher` and `MCModes`
explore each machine by itself in one run, since its interaction with the others is in its own
environment actions (a supplicant that roams, a mode that answers, a compositor that tells).
Where one component is the other's environment -- store, service, panel and banner; tray
watcher, proxies, service and strip; the view and its worker pool -- they are one module or
share operators.

## What the runs check

| run | states | shows |
|---|---|---|
| `notify_store` | 1.5 million | signals, timers, caps, ids, file of one daemon |
| `notify_system` | 1.6 million | two lifetimes of a daemon, a panel, the command line |
| `notify_system_handover` | violation | a handover loses a notification |
| `notify_system_settle` | 8 000 | daemons that replace one another settle |
| `banner` | 343 000 | surface, view, motion and rows agree; exits end and motion comes to rest |
| `desktop` | 881 000 | the tray, and the network, bluetooth and display panels |
| `launcher` | 102 000 | threads and dialog of the launcher |
| `modes` | 657 000 | lists, widgets, texts, menus, windows, input, surfaces, motions, themes, locks, panels |
| `banner_expiry` | violation | an emptied banner stays |
| `banner_click` | violation | a click acts on another notification |
| `display_own_output` | violation | the panel turns off the output it is on |
| `theme_order` | violation | a media block overrides a later rule |

**Store.** Two live entries, three in the ring, ids up to 4, four notifications of three kinds
(one that expires and has an action, one that stays, a critical one that stays whatever its timeout), one
in-place update, one action, loaded from no file or from a file of two. The live cap is below
the ring's, as 20 is below 200, so that it retires entries that the ring keeps; four new
entries are enough to push a live one off the tail with a retired one between, which is
the case the two caps treat differently; from the file of two, which leaves the counter at 3, it wraps after
the second `Notify`. Any save may fail. Deadlock is checked: the history can always be cleared.
`ClosedExactlyOnce` and `TimersMatchIntent` say of *every* way to retire an entry that
they agree; `IdsUnique` bounds what a wrap may do; `FileCurrent` says that one save repairs all
failed ones; `NeverRevived` that retirement is final.

**System.** Three notifications through a ring of two, two daemons, one of them killed
anywhere, three calls of the panel, inboxes of two (so that a call the panel gave up
on is still waiting when the next is made). `HistorySpec` is the refinement:
the file implements `NotificationHistory`, that is, no step of anybody loses, duplicates or
resurrects a record. `SendersTold` holds while no daemon is killed, `ClosesWhatWasMeant` until the
history is cleared; see below for what happens otherwise. The run has no handover (`Races = {}`) and no bulk dismissal by the
panel, both of which lose records (below). The bounds end the system, so deadlock is not
checked here; nothing in it waits except the panel, which has a timeout.

**Handover.** `notify_system_settle` starts three daemons over one another at any time, one of them
killed anywhere. Fairness: main loops dispatch what has arrived, the bus answers a request for the name,
a synchronous call returns. Then, again and again, whoever is alive owns the name.

**Banner.** Three arrivals, two frames of motion, every event at any time, a surface
that the compositor refuses when one is asked for, and one it takes away and replaces.
Three arrivals are enough for one to come before, one during, one after an exit.
`SurfaceTracksView` (one surface, and a flag that tells the truth about it), `ExitHeld` and
`ExitNotLost` (a postponed exit is remembered, is not swallowed by whatever cuts it
short, and leaves nothing over for the next banner), `RowsInStep`.
`ExitEnds` and `ComesToRest` assume weak fairness of the reload timeout, the repaint idle and the guard
timeout -- GLib dispatches what stays ready -- and strong fairness of the settle idle, which a
repaint of higher priority may disable for a while. Nothing is promised about frames,
since a compositor withholds them from what nobody sees; only `ComesToRest` assumes them, in
its statement, which exempts a banner whose `repaint_source` is stuck (below).

**Desktop.** The five modules share no state; an initial state switches one of them on, so that
one run explores each by itself and the states add up. Tray: two applications with one
item each, one of which changes once, one may leave and the daemon may die and start again; one
fault. One opening of the strip and one restart are enough for a reply to outlive what asked
for it. Fairness: messages are delivered and handled, timers of the main loop fire; nothing
is assumed of the applications. `StripSettles` says that a strip that stays open ends with the
items as they are, unless a fault hit the call that would have told it. Network: two known
networks, one with a wrong key, one more to join, and every command failing but `remove` and
`enable_network`, whose failures nothing could repair (`MayFail`). Agent: two questions, two
sessions, two calls on the way: enough for a second question while one is held, and a reply that
meets the next session. Pairing: two devices, one PIN and one edit by hand. Display: three
outputs and three events, the fewest with which an armed verb can outlive its listing.
Deadlock is not checked, the bounds end every part.

**Launcher.** Composed the same way. Pool: two pools of one thread -- two threads at once, of an
old pool and of the new -- four icons, one of which cannot be loaded, three rows of the three kinds
on two pages, and lists of up to five rows in up to three parts. Reader: seven bytes, reads
of up to three, blocks of two, a `select()` that may fail. Scan: four directories, one of them of
unknown type to `readdir()`, links up and down by absolute texts, so that a directory is reached by several
spellings, one by a relative text, which leads to another directory, one broken; a wake pipe of two bytes. Dialog: two modes, lists of up to two entries that may grow, two keys, one text, a delay
from the second entry on (`DelayLimit`), so that a choice is made while a filter is due. Fairness:
threads run and a load ends (weak), the main loop dispatches a timeout or idle that is ready
again and again (strong for the pool, since drawing disables it for a while, weak for the
dialog's delayed filter, reload idle and end of motion), `select()` times out, `readdir()`
returns. Nothing is assumed of the user or of the program that writes dmenu's rows:
`ReaderDelivers` begins when the input is closed.

**Modes.** Twenty-three machines, of which `ScriptMode`, `XWindow` and `WindowList` hold two each, all of them finite by the bounds of `Modes.cfg`, so deadlock is
not checked; a variable says which of them runs. The sizes are the least with which what each property
is about can happen:

| machine | bounds | property |
|---|---|---|
| list | six styles (page, continuous, bar; both flows; reversed, fixed, cycling or not), up to five rows, a window too small for one | `WidgetsExact`: a frame paints the selected row and none past the end |
| layout | a window of five, grown with its rows or given a height (4, 7 or 9), lists of none, one or three rows, a message of two lines or none, prompts of two widths, a note, two tray icons, two changes | `WidgetsExact`: boxes are filled side by side, the list gets its rows, a click reaches what is painted |
| place | four ways to learn of up to two monitors (RandR 1.5, outputs, Xinerama, none), ten wishes, five placings, three changes | `WidgetsExact`: the window is on the monitor asked for, its anchor on its location |
| text | four characters, three edits, two dialogs, two inputs kept | `WidgetsExact`: an edit touches what is at the cursor |
| history | two launchers, three launches, three entries in a file of two | `HistoryKept`: one launch changes one count |
| menu | three icons of two applications, two levels, three rows, two clicks | `MenuIsTheIcons` |
| windows | two windows, one rename, one act | `WindowsReached`: a command runs on its window |
| switcher | two windows, three openings | `WindowsReached`: rows are cached windows |
| script | five outputs, four interactions | `ScriptServed`: rows and highlights of one output |
| lua | a sample of two, two threads of three frames, two calls | `ScriptServed`: a late mode is stopped within its allowance |
| seat | two seats, one key, repeating or not, a wheel and a finger, two scrolls | `WaylandServed`: keys repeat as held, scrolls add up |
| surface | two outputs, scales 1 and 2, two buffers, two views, two pools, one change | `WaylandServed`: frames fit, outputs are described |
| x | two heights, two windows, three drawings, two changes from outside | `WindowInStep` |
| motion | a clock that wraps at 4, durations up to 3, frames 1 or 3 apart, six of them | `WaylandServed`: a motion runs for its time |
| drun | two ids in two directories, two sessions, one installation | `EntriesListed` |
| commands | two programs, five commands, one change of the path or the hosts | `EntriesListed` |
| files | three folders with a link and a hidden one, five visits, one folder lost | `EntriesListed` |
| combi | three modes, five bangs, one find, two tries | `EntriesListed` |
| theme | six documents, four media blocks, three screens, three widgets, three reads, one override | `ThemeAsWritten` |
| lock | three launches, replacing or not | `SomeoneStands` |
| volume | two sinks and a device, levels near both ends, two presses, one turn elsewhere | `RowsReadBack` |
| sheets | two sheets, three requests, one move | `RowsReadBack` |
| bluetooth | two peers, one change by others, two keys or words of the agent | `RowsReadBack`: rows and message are what was said last |

Exceptions are part of the statements, each a behaviour of the code described below:
`ReloadStuck` in `IconsShown`, `PipeFull` in `ScanExact`, `shared` and the removal in
`HistoryKept`, the bar that is laid out anew in `SelectionShown`, a message
that changed its height in `LaidOutInStep`, a frame `mixed` of two devices in `ScrollsExactly`,
what `ScanExact` says it does not promise, what is `IsOpen` in `ThemeAsWritten`, `last unseen` in
`LastOutputStaysOn`, a toggle of the case sensitivity during the exit motion in
`DeliversChosen`, a match that was `hasty` in `WindowList`, and the style field `hasty`.

## Where code and words disagree

Five runs end in a violation, each a behaviour of the code that its comments or
documents deny:

* `notify_system_handover`: the new daemon reads the file before it owns the name; what
  the old one files meanwhile is dropped at the new one's first save.
* `banner_expiry`: when the last notification expires on a banner at rest, `quit` is
  set but nothing runs `sofi_view_maybe_update()`; the empty banner stays.
* `banner_click`: a click keeps a row index until the exit motion has ended, and then
  acts on whatever has that index.
* `display_own_output`: the guard of the menu's own output compares with a name that the Wayland
  backend never supplies.
* `theme_order`: the blocks for media that hold are merged when all documents have been read
  (`theme.c:2236`), and so override rules that are written after them, in a user's own file or in `-theme-str`
  too. "The order of the array is the cascade: the last directive to name a widget and a property
  wins", says `doc/sofi-theme.5.markdown:15-17`, and `theme-lua.c:2281-2284` that blocks lie amongst the rules
  for that. `ThemeAsWritten` leaves open which of the two orders holds and checks the rest: a later rule
  overrides an earlier one outside the blocks, within them, and as a rule in a block does an earlier one outside.

The models show more of them; no run is spent on these, each takes a change of constants:

* `SendersTold` with `Races = {"handover"}`: a daemon that loses its name frees
  live entries, and their senders are never told (`notify-store.c:227`).
* `HistorySpec` with `"DismissAll"` in `Methods`: after the daemon died, the panel's local
  dismissal saves the copy it had read before (`notification-history.c:175`). With
  `Races = {"absent"}` a daemon that starts between the answer and the local clear
  brings the cleared history back.
* Clear the history, restart, and the counter
  begins at 1 again, since it lives in the file only as the ids of the records; a panel
  open all along then dismisses another notification.
* With `IdMax` reached in the file, `Start` leaves the counter at 0
  (`notify-store.c:581` has no counterpart to the wrap at line 267).
* `ComesToRest` without its exemption, with `"click"` or `"closed"` among the `Inputs`:
  `wayland_sofi_view_repaint()` forgets its source only when a view is active
  (`wayland/view.c:137`), and later motions are not repainted.
* `SurfaceTracksView` with `"refused"`: a surface that the compositor takes and does not
  grant again leaves a view without one.
* Dismissing the last notification from the banner restarts the view with no rows, because the
  mode switch clears the `quit` that the refresh has just set (`view.c:2550`);
  a notification that arrives while the banner fades out is closed over.
* `OverLiveCap` ignores urgency: a critical entry pushed past the live cap is told as
  expired, which `README.md:695` of the sources says never happens.

Of the launcher:

* A thread that fails to load an icon calls `sofi_view_reload()` itself, which
  `sofi-icon-fetcher.c:542-547` rules out. It may store the id of a timeout that has already
  fired; the guard then stays set and nothing is reloaded any more (`ReloadStuck`).
* A job that is dropped with its pool is marked as not started only when that pool's last thread
  ends, and pushed again only by modes that ask at every draw, every time they do so
  (`sofi-icon-fetcher.c:845`); `drun` and `run` keep the request and never ask again.
* `sofi_view_workers_finalize(TRUE)` joins the pool in use; threads of the pools that page
  changes freed may outlive `sofi_icon_fetcher_destroy()`, against `view.c:2459-2466`.
* `recursivebrowser.c`: a link to a directory is followed by its raw text (`:297-300`), so that a relative one
  is read from the working directory and mostly leads nowhere; a directory whose type the file
  system does not tell has no such text, and is dropped (`:254-304`); directories scanned are told apart by spelling, so that a
  file is listed once for each of them. `ScanExact` says what is left: every file of each directory the scan is led to is
  listed, and no path twice. Leaving hangs when the wake pipe is full, as only the main thread, which
  joins, would empty it.
* `history.c:244-248` promises the old contents or the complete new ones; two launchers share
  `<file>.tmp`, so that one may rename what the other is writing (pidfiles lock surfaces,
  `sofi.c:1495-1515`). `history_remove()` rewrites in place. When the file is full a new entry may
  be cut off at once, every time. `strtok()` (`history.c:188`) mutates the configured prefixes.
* List view: in a bar, `page_prev` before the redraw of a list that shrank selects past the end, and
  the frame paints rows past the end (`hasty`); `nav_right` on an empty list, and in a full last
  column, does not do what its comment says (`listview.c:1129-1134`); a continuous
  vertical list of several columns scrolls although it fits. "Selected row is always visible"
  (`listview.c:276`), but a bar decides by its last layout whether to scroll, and then lays the rows
  out anew, from the right after a move to the left.

Of the panels and the tray:

* Network: `save_config` (`network.c:1113`) runs before `enable_all` (`:1131`), so that the file
  keeps every other network disabled and a restart of the supplicant leaves them so, although
  `network.c:903-904` says that no join may. A failed `remove` followed by a later save persists a
  wrong key. `enable_all` also enables what the user had disabled.
* Display: the re-check before turning an output off (`display.c:1756-1759`) uses the listing made
  when the row was drawn: with an output pulled out meanwhile the last one is turned off
  (`last unseen`). The custom keys leave the verb armed.
* BlueZ: `agent_registered` outlives bluetoothd; Enter pressed as a question replaces a
  list or notice answers what was not read. Netgraph: when the reload after an upsert fails the
  stanza stays although the panel says nothing was saved (`bluetooth.c:1936-1945`); pairing a
  device whose row could not be read replaces a good stanza and, on failure, deletes it;
  setting a configured device up again appends a second entry.
* Tray: after a `ListItems` that timed out the strip stays empty until the next `Changed`, and
  after the daemon's restart it keeps its icons until an application registers.

Of dialogs and modes:

* A panel that hides itself and then reloads leaves a process that shows nothing and holds its
  instance lock: `sofi_view_hide()` destroys the surface (`wayland/view.c:570`), and only the daemon's
  refresh or a surface the compositor closes makes one again. `network.c:1946-1967` after a join that
  failed, `bluetooth.c:1948-1952`, `wayland-window.c:806-812` and `854-860`.
* Dialog: a theme's `timeout` action sets `quit`, but nothing runs `sofi_view_maybe_update()`, so that a
  message stays up (`view.c:2384-2389`). The delayed filter's timeout outlives its view. Toggling the case
  sensitivity while a choice waits for the exit motion runs another entry (`view.c:1198`). The
  hook `on-entry-accepted` is given the highlighted row, not the accepted one
  (`view.c:1587-1606`, `doc/sofi-actions.5.markdown:21`). Word motions at either end of the text
  read past it (`textbox.c:677-738`).
* Tray menu: Enter during the exit motion overwrites the switch that a click on another icon asked for.
* Windows: identifiers matched while one protocol is ahead of the other mislabel a handle for
  good; `ext_toplevels` outlives its mode. `last_seat` dangles once its seat is unplugged, and raising a
  window reads it (`wayland-window.c:735-742`, `866-871`). Under X11 a window that closes between the
  reloads of the two modes leaves an id without a cache entry: `g_assert(idx >= 0)` (`window.c:438`).
* Script modes: `keep-selection` and `new-selection` are looked up in the line map of the previous output
  (`view.c:405-427`), so that with a filter another row is selected
  (`doc/sofi-script.5.markdown:114-120`); a hot key that `no-custom` refuses takes the highlights of a
  list that stays. `switch-mode` of the first output is dropped.
* Applications: with `gio-launch`, the default, an action's row launches the application itself, as
  `entry.action` is always the main group (`drun.c:730`). A corrupt cache leaves `entry_list` freed and
  used again; a list read from the cache lets Delete remove any row. Files refused for their
  contents do not hide those of lower directories, hidden ones do.
* Commands and hosts: deleting a host never removes it, since its line has a port
  (`ssh.c:155`); a program run by row and as typed is listed twice among the favourites.
* Files: sorting by time frees a `collate_key` that was never set (`filebrowser.c:66-140`). A folder that
  cannot be opened lists nothing, not even `..`. Going up is not saved as the last folder.
* Combi: `!r` that begins two modes' names shows the rows of both, as documented
  (`doc/sofi.1.markdown:1490-1494`), but every result goes to the first of them, with an offset
  that may be past its end (`combi.c:152-195`); the text after a bang that ends the input is copied from
  behind its end (`combi.c:326`).

Of displays, themes and tools:

* Wayland: a view's buffer pool is never freed with it (`view.c:428-470`), so that the daemon keeps three
  mapped buffers of every banner. `wayland_keyboard_leave()` does nothing: a held key repeats after the
  focus is lost. A click whose frame finds no view is delivered to the next one
  (`wayland/display.c:714-719`). A wheel's scrolls that no frame took, because no view was there, are counted twice
  if the frame that takes them ends with a finger (`wayland/display.c:800-832`). A manager of outputs announced after setup leaves them without names.
* X11: `mouse_seen` is decremented at 0 by a release without a press and wraps
  (`xcb/display.c:1361`): clicks outside never close the window again. A repaint without a view leaves its
  source set (`xcb/view.c:192-210`). Timers that grab the keyboard outlive hiding.
* X11: RandR 1.5 monitors are numbered in the reverse of the server's order (`xcb/display.c:596`),
  "in order of detection" says `doc/sofi.1.markdown:775`, and are never read again. `config_sanity_check()`
  (`helper.c:783`) cannot report a missing monitor: the theme asked before, and every later answer is TRUE
  (`xcb/display.c:1022`). The answer FALSE fills the struct that `theme.c:2237` relies on to be untouched.
* Widgets: a message that changes while it is shown is not laid out anew (`view.c:287`, as `textbox_text()` only
  asks to be redrawn), and is cut off or leaves a gap until something else changes.
* Theme: `*` in a block is the root (`theme.c:2028`), where `doc/sofi-theme.5.markdown:1978-1979` says that it
  makes an ordinary child; `ThemeAsWritten` leaves this open too. A block nested in another holds whatever the
  outer one says. A `reset` in an
  imported list frees the tree that the outer reader holds (`theme-lua.c:2346`). Reading a theme
  while a view is up leaves references to what was replaced (`script.c:222`). The old syntax in
  `notification-history.c:123` is never understood by the Lua reader: the button it disables stays.
* Instance lock: until the new holder has written its pid the file names the previous one, which a
  third `-replace` then signals, and gives up after two seconds.
* Volume: one press does not move the bar "by exactly one cell, every time" near either end; a sink above
  100 % is cut by a press; a raise may lower a sink that was changed elsewhere. Sheets: an answer cut
  within a word is taken for another number.

## What is proved

TLAPS proves the theorems below for every value of the constants that satisfies the
assumptions of the module (any number of notifications, rows, threads, windows, networks ...), where
the runs try one small value. Each is of the form `Spec => []Property` unless said otherwise. Hardly
any of the properties is inductive, so each theorem goes by an invariant that is: a property
together with what it leans on. Those invariants were put to TLC before they were proved. The
proofs have one lemma per action, and under it a step per part of the invariant that the action can
disturb; operators of a model that several actions share have lemmas of their own.

### The notification store (`NotifyStoreProofs`)

Assumed: positive caps, a ring shorter than the range of ids (`RingAssumption`), and that a loaded ring
is retired, within capacity, its ids counting down from the counter (`StoreAssumption`).

| theorem | states |
|---|---|
| `TypeCorrect` | `TypeOK` |
| `SendersToldOnce` | `ClosedExactlyOnce` |
| `NoStrayTimers` | `TimersMatchIntent` |
| `CapsHold` | `WithinCaps` |
| `IdsNameOneEntry` | `IdsUnique` |
| `FileKeepsUp` | `FileCurrent` |
| `RetiredForGood` | `NeverRevived`, an action property |

`IInv` adds: an entry's serial is at most `added` and occurs once in the ring (else a signal
about one entry would be counted for another); an entry's `timer` flag is set exactly when it is
live and mortal (else `Cancel` would leave a source or take one twice); and the ids in
the ring are those given out last, counted down from the counter modulo the range
(`IdsCount`), which with `RingCap < IdMax` makes them differ. Each operator of `NotifyRing` has a
lemma for each part (what `Retire`, `Truncate`, `Arm`, `Insert` ... preserve), and each
action of `Next` is a composition of those; the proofs of the actions only chain lemmas.

### The notification system (`NotifySystemProofs`)

| theorem | hypothesis | states |
|---|---|---|
| `SendersAreTold` | no handover | `SendersTold` |
| `CloseHitsItsOwn` | `Sound` | `ClosesWhatWasMeant` |
| `HistoryImplemented` | `Sound` | `Spec => HistorySpec`, the refinement of `NotificationHistory` |

`Sound` is: `"handover"` and `"absent"` are not in `Races`, `"DismissAll"` is not in `Methods`, and ids do not
wrap (`MaxNotes < IdMax`). What it excludes is not assumed away: each of these does lose or
revive records, as described under *Where code and words disagree*, and `notify_system_handover` shows the first. The
crashes, restarts, timeouts and late calls of the run are all in the theorems, in any number.

`TellInv` says that at most one daemon runs, that a ring belongs to one that does (`Single`), that calls still
to be handled are counted in the bound on notifications (`Room`), and that whoever is not on a
screen was told, unless a daemon was killed (`AllTold`). `HistInv` says that the file is the ring of the daemon in
charge (`FileHeld`), that an entry's id is below the counter it will be counted on from (`Counting`), and, until
the history is cleared, that an id on its way in any inbox or on the panel stands for the one
notification that was meant (`Meaning`). A step of the system is
then shown, action by action, to file one record, to clear all, or to stutter.

### The banner (`BannerProofs`)

`SurfaceKept` (`SurfaceTracksView`), `ExitsHeld` (`ExitHeld`), `RowsKept` (`RowsInStep`) and
`ExitsNotLost` (`ExitNotLost`, an action property), for any number of notifications and frames, with motion
or without. Hypothesis: `"refused" \notin Inputs`, the compositor grants the surfaces it is asked for; a refusal is
only model-checked. `BannerIInv` is a predicate of worlds, like the operators of the
model, so that each C function has a lemma from worlds to worlds. `Sound` says that the picked row is one
there is, that there is one surface or none as the flag says, and one under a view (`Sized`), that
only a mapped surface exits and then has the guard or the settle idle to end it, and that nothing of an
exit outlives its view (`Held`); `Rows` that a view which stays shows the live entries unless a reload is due.

### The tray and the panels (`DesktopProofs`)

| theorem | states | by |
|---|---|---|
| `NothingOutdated` | `NothingStale` | `TrayIInv`: calls, replies and timers are those of items that are registered now |
| `QuestionsAnswered` | `QuestionsHeld` | `AgentIInv`: the held question is the one without an answer (`OneHeld`), any other is on its way once (`OnItsWayOnce`), and calls of `Pair` belong to sessions of the panel so far, the open one's exactly while it pairs (`PairsOwned`) |
| `LastOutputKept` | `LastOutputStaysOn` | `DisplayIInv`: the property, with the level and the rows it belongs to |
| `JoinsUndone` | `JoinUndone` | `NetworkIInv`: what a join has done already, by the place it has come to |
| `PairingsAreKept` | `PairingsKept`, an action property | `PairingIInv`: one stanza per device (`OneStanza`), a PIN being loaded is the one of its device in the file (`OnFile`), one being tried is what the daemon has read (`OnLink`) |

`JoinsUndone` has the hypothesis that `remove` and `enable_network` do not fail: a failure of theirs is
what the code cannot repair, and no way to write it would. That removing a stanza leaves the
others in their order is proved in `SequenceLemmas`.

### Windows, motions, menus, histories and rows (`ModesProofs`)

* `WindowKeepsStep`: `WindowInStep`, by the size last told, the pixmap that fits the view on top, and what is
  drawn, asked for or shown (`InStep`).
* `WaylandIsServed`: `WaylandServed`, of the whole of `MCModes`, for any seats, outputs, scales, durations and
  any script of the compositor. `SeatIInv` says that a timer of the main loop has the id its seat keeps,
  and that this seat has a keyboard and a key that is down, or one that was when the focus left; that an id
  which is not 0 has a timer; and that timers differ in their ids, so that none is another seat's. `SurfaceIInv`
  says that a pool that was dropped has no buffer to give and is unmapped exactly when the compositor holds none
  of it, that a view's pool is one there is, that the frame shown was committed at its pool's scale, and that the
  pool of the view on top is made for the scale of the surface. `ClockIInv` is the next item's.
* `MotionsKeepTime` and `ExitsFade`: that a running motion has run for the time since it
  started, and that an exit only fades, the parts of `WaylandServed` about the clock,
  for any duration, any gap between frames and any width of the compositor's counter. `ClockIInv` says where the
  clock's stamp is (`ClockAtStamp`), that it ticks while something moves (`ClockAwake`), and that what is in
  its exit is on its way out (`ExitOnItsWay`).
* `MenusKept`: `MenuIsTheIcons`, by `MenuIInv`: rows are of the level (`OfTheLevel`), the panel follows the icon
  (`PanelFollows`), a choice and an event sent mean the row chosen (`ChoiceMeans`, `SentAsMeant`).
* `CountsKept`: `HistoryKept`, by `HistoryIInv`: a launcher that shares the files with nobody is alone at
  them (`AloneMeans`), the temporary file is never the file (`TempApart`), and what such a launcher has read,
  holds and has written is one launch more than the file it will replace (`HasCounted`).
* `WindowsAreReached`: `WindowsReached`, of the whole of `MCModes`, for any number of windows; its lemmas are in
  `InstanceProofs`. Under Wayland `Trails` says, of each of the two protocols, that what its list knows and what
  is on its wire add up to the windows the compositor has, in their order and with their last names
  (`WindowTrails`); `Marked` that until a match was made while one protocol was ahead, a handle that has an
  identifier has that of its window (`MatchedAgrees`: of lists that know the same windows, the matching
  by application and order gives each handle its own window's identifier). Under X11, whatever of a change has not been told is on its way
  or about to be loaded (`SwitcherIInv`).
* `RowsAreRead`: `RowsReadBack`, of the whole of `MCModes`, for any sinks, sheets and devices; lemmas in
  `InstanceProofs`. `VolumeIInv`
  says that what is meant for a sink is what it has, that the rows are out of date only by presses made
  elsewhere, and that the mixer is read only where no server's tool answers; `SheetsIInv` that a pane is one
  reading of the compositor's; `PeerIInv` that a request row stands only while something is asked, and that
  what is told is the status. `EachByItself` takes a step of the composition apart into steps of its machines.

### Threads and readers (`LauncherProofs`)

* `FilteredExactly`: `FilterExact`. `FilterIInv` says that a filter searches exactly while the main thread waits, that
  a part found is the part of that list, and that the job of each part is owed to one queue or one thread, once.
  Parts that are ascending and cover all rows then join to the rows that match, in order.
* `FallbacksJustified`: the flag and the surface of an icon, read one after the other without a
  lock, never make a row pass over an icon that can be loaded: the safety part of
  `IconsShown`. `IconIInv` says what a mark on an icon adds up to, and that the flag holds what was set
  before it.
* `RowsComeWhole`: `RowsArePrefix`. `ReaderIInv` says that, until the thread ends, rows on the list, blocks in the
  queue and the block being filled are together the rows of the input up to a cut, and that the partial
  line is the input from that cut to what was read (`UpToACut`); and that what was handed over begins the rows.

### An instance: its lock and its scripts (`InstanceProofs`)

`LockKept`: `SomeoneStands`, for any number of launches. `LockIInv`: whoever is past the lock holds it
and nobody else does, the pid in the file is of one that was up, one that is being ended has another that
waits for it, and a launch that failed or was ended has left one that is still on its
way, or up.

`ScriptIsServed`: `ScriptServed`, of the whole of `MCModes`, for any outputs, interactions, sample, threads and
frames; stated in `ModesProofs`, its lemmas are here.

* `ScriptIInv`: the message tells of an error exactly where the mode is in quarantine or its last call failed
  (`Told`), and then the row of the error is the list (`FromOneOutput`); ranges are of the output shown; a list that is
  not filtered has a straight line map (`StraightFor`), so that the line an output asks for is the one that
  is selected (`AskedIsHit`). The row of an error is sofi's own: no script puts it out (`ErrorRowsAssumption`).
* `LuaIInv`: of the threads of a mode that is late, those above some place have nothing left but for the one on top,
  those below have an interval each, and with what a thread that is kept has, all this and what was run already
  is within the allowance (`Held`). Looking for this invariant showed that the allowance, an interval for each
  thread on the stack, was too small from an interval of four on: a thread that is kept while another
  runs brings its own. It is now an interval for one thread more.


### Sequences (`SequenceLemmas`)

Lemmas about concatenations of blocks, prefixes, and sequences without some of their elements. `SelectSeq` is
opaque to the provers, so `Without` and the joins of blocks are defined by recursive functions, and
`Recursion` proves that a recursion along `1 .. n` has a result, by induction over a
*set of numbers*: the library's induction theorems take an operator, which no
installed prover can instantiate.

### What stays with TLC

* Liveness under fairness and everything that needs ENABLED: `StripSettles`, `ReaderDelivers`, `ComesToRest`, the
  second part of `IconsShown` and the other temporal properties of the runs but the action properties above.
* `WidgetsExact` and `EntriesListed`: no theorem states them yet. What `Drun`,
  `CommandList`, `Combi`, `TextEntry` and `WidgetLayout` fold over lists is again induction over data;
  the list view and the placing are within reach of the provers (see the plan).
* `ThemeAsWritten`: what a recursive function folds out of a document is known of every document only by induction
  over it. `ThemeTree` has no RECURSIVE operator all the same, so that `MCModes`, which extends it, can be
  proved about.

## Plan

What is left is to prove, in this order.

1. The selection of `ListView` and the placing of `XWindow` (`WidgetsExact`).
2. `TreeScan` (`ScanExact`) and the safety parts of `Dialog`.
3. `Banner` with a compositor that refuses a surface.

## Not modelled

* Drawing of borders, padding, icons and scroll bars, and the shape of the easing curves: one
  thread over pixels, whose correctness is a picture. Matching and tokens: functions of two strings over a library
  of regular expressions.
* Options, colours and key bindings: tables built once. The values of a theme's properties, and the
  Lua interpreter.
* Hiding a view (`sofi_view_hide()`): the code has nothing that ends it, see above.
* NetworkManager, radio and leases; scanning and power over netgraph, audio of bluetooth;
  brightness: single commands of other programs, with no state between them.
* A press on a row of the bluetooth panel between `bt_refresh()`, which replaces the rows at once,
  and the view's delayed reload: the line may then be another device's.
* Handing over the tray watcher's name; image data and markup of notifications; decoding of icons.
* X11: grabs, focus, the clipboard, the fake background and the physical size of monitors. Wayland: cursors, the
  clipboard, and input methods beyond text that is committed.
* Memory that was freed: where the code reads it (the list above names the places), the
  model stops at the step that would.
