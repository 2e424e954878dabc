# JuliusOS in TLA+

JuliusOS is a small operating system for a hand-held device: a PID-1 program, a
dozen and a half C daemons that talk over Unix sockets and files, a few kernel
drivers, and a Python shell with its overlays and apps. This directory holds TLA+
modules for the parts whose correctness depends on ordering, failure or concurrency,
the TLC configurations that check them on small instances, and TLAPS proofs of their
safety properties. `PROJECT.json` lists components, runs,
mutants, hazards and theorems and maps every definition to the lines it models.

To check: `tlc -workers 2 -config X.cfg M` for a run (its module is in `PROJECT.json`),
`tlapm XProofs.tla` for the proofs.

## The system

| Part | State it keeps | Operations | Talks to | What is hard |
|---|---|---|---|---|
| `julius_keychain` | array of items, key, both also in files | start, add, get, delete, list | clients by socket, a thread each | crash inside a save or inside key creation, threads over one array, a list longer than its answer |
| `julius_ipc` | client table, topic table, retained messages | accept, publish, subscribe, unsubscribe, remove | clients by socket; `julius_bridge.py` in the shell | descriptor numbers used again, writes under the lock, limits |
| `julius_pm` | state, pid and restart count of each service | start in order, watchdog, shutdown in a signal handler | all daemons as child processes | three actors over unlocked fields, blocking `waitpid` |
| `julius_ota` | package, installed tree, backup tree | receive, verify, back up, unpack, verify, roll back | `ota_push.sh` by TCP, `julius_init` by reboot | power loss, unchecked commands, senders that hang up or stay silent |
| `julius_ui.py` and overlays | screen, flags, visible, recent apps, search, rectangles of the last drawing | touch, key, wheel, draw | overlays by call, services by bridge and files | long legal sequences of gestures, stale rectangles, several flags for one fact |
| `julius_push` and notification center | array of notifications, next id, a JSON file | send, clear, write file; load, mark, clear in the shell | clients by socket, the shell by the file | file and reply outside the lock, texts printed without escaping |
| `julius_core` | `running`, one listening socket | main loop, OTA watcher, power and watchdog threads | clients, one message per connection | two threads taking from one queue, blocking reads, shutdown |
| `julius_sync` | `syncing`, a state file | periodic and watched triggers, sync thread | a server by TCP | flag tested outside its lock, changes during a sync, a send nobody checks, a list that is too long |
| `julius_bridge.py`, `julius_status.py` | event socket, listener thread, battery level | connect, subscribe, listen; requests; poll of a state file | `julius_ipc` or `julius_core`, whichever owns the path; daemons; `POWER_STATE` | a listener that ends for good, calls without a timeout on the only thread, a file read while it is written |
| `julius_drop.py` | transfers, nearby devices, files in `DROP_DIR` | beacon, send, receive | peers by UDP and TCP | one receiver for all, peers that vanish, files of the same name, errors half-way |
| `julius_cloud.py` | `syncing`, `status`, files | sync: send and fetch lists and files | a server by TCP | two syncs at a time over one file, a connection that closes or raises anywhere |
| `run.py`, `launcher.py` | open app, recent apps, one instance per app | tap, swipe, key, frame | apps by call | what an exception of an app costs, ESC |
| apps with a list and a file (notes, todo, passwords, wakeonlan) | entries, cursor, window, mode, a JSON file | keys | the file | cursor after deletions and behind filters, a save that stops or fails half-way |
| apps with a screen of their own (texteditor, timer, firewall, processkiller, usbtools) | text, clock, copies of system lists | keys | files, `iptables`, `ps`, `lsusb` | row numbers that no longer name the row shown |
| apps with threads (netmapper, scanner, weather, nettools, speedtest, netmonitor, packetanalyzer, maps) | results, `scanning`/`running`/`loading` | keys, threads | the network | flags set by the thread they guard, two requests over one list |
| `julius_init` | none (PID 1) | boot phases, reaping, shutdown | every daemon | waits in a signal handler for a command that never ends |
| `julius_health` | failure counts, state file | check, restart through `julius_pm` | sockets and state files of seven services | `julius_pm restart X` runs a second manager and blocks |
| `julius_permissions` | table of 512 permissions | check, grant, deny | clients by socket | one entry per app and type, full table, denials lost at a restart |
| `julius_enclave` | 256 keys, master key file | keygen, encrypt, decrypt, hash | clients by socket | key look-up outside the lock |
| `julius_audit`, `julius_net`, `julius_mm`, `julius_sandbox` | ring of events; DNS cache; process list; sandboxes | append; resolve; kill; start | files and sockets | limits, expiry, races with restarts |
| `julius_wifi`, `julius_bt`, `julius_power`, fingerprint service | radio, battery and sensor state, state files | polling loops | shell by state files, drivers | stale state files, sensor errors |
| `fpc1020` driver | interrupt status and enable registers, `finger_present`, one lock | interrupt, work item, wait for a finger, capture, sleep, wake up | kernel, fingerprint service | capture waits with the lock its work item needs, status cleared after it was read, sleep and reset under a waiting caller |
| settings (`julius_ui.py`, `control_center.py`) | one dictionary, its file | load, switch, slide, save | the shell's loop | a save that stops half-way, an exception after it |
| other drivers (`st7796`, display, `rtl8723ds`) | device registers | draw, load | kernel | - |
| other apps, `julius_ai`, animations, build and flash scripts | local | drawing, commands | - | - |

`services/julius_ipc` and `services/julius_core` bind the same socket path; each is
modelled as the owner of its socket, and `JuliusBridge` lets either be the one the
shell reaches.

## Modules

| Module | Models |
|---|---|
| `KeychainStore` | abstract: a map from names to secrets with a durable copy; requests take effect once, a list names all items or is marked as cut, a restart recovers the copy or a part of the map |
| `JuliusKeychain` | `julius_keychain.c`: start-up, threads, array, key and database files |
| `JuliusIPC` | `julius_ipc.c`: threads, descriptor table, client table, topics |
| `JuliusPM` | `julius_pm.c`: main, watchdog, signal handler, child processes |
| `JuliusOTA` | `ota_client.c`, the header of `ota_push.sh`, what a boot does to the trees |
| `JuliusUI` | the loop of `julius_ui.py` with switcher, search, control and notification center, and the Drop and Cloud panels as things that lie over the screen |
| `JuliusPush` | `julius_push.c` and the file side of `notification_center.py` |
| `JuliusPermissions` | `julius_permissions.c`: the table behind check, grant and deny |
| `JuliusEnclave` | `julius_enclave.c`: keys made under the lock and looked up without it |
| `JuliusFinger` | `julius_fpc1020.c`: interrupt, work item, the two calls that wait, sleep and reset |
| `JuliusServices` | the last three and `JuliusPush` together: one of them runs in a behaviour |
| `JuliusCore` | `julius_core/main.c` and `ipc.c` |
| `JuliusSync` | `julius_sync.c` |
| `JuliusDrop`, `JuliusCloud` | `julius_drop.py`, `julius_cloud.py` |
| `JuliusBridge` | `julius_bridge.py`, the battery side of `julius_status.py`, and of `power_manager.c` its state file |
| `JuliusExchange` | the last five likewise |
| `AppLists` | what list screens share: cursor, window, arrow keys, typed text; and what threads of apps share: a thread is started, takes steps, ends |
| `AppNotes`, `AppTodo`, `AppPasswords`, `AppWakeOnLAN` | the apps that keep a JSON file |
| `AppEditor`, `AppTimer`, `AppFirewall`, `AppProcKill`, `AppUSB` | apps with a screen of their own |
| `AppNetMapper`, `AppScanner`, `AppWeather`, `AppNetTools`, `AppSpeedTest`, `AppNetMonitor`, `AppPackets`, `AppMaps` | apps with threads |
| `AppSettings` | the settings screen, the control center's switches, and their file |
| `JuliusApps` | the apps and the settings inside `run.py`, `launcher.py` and the app screen of `julius_ui.py` |
| `KeychainProofs`, `IPCProofs`, `PMProofs`, `OTAProofs`, `UIProofs` | theorems about `JuliusKeychain` and `KeychainStore`, `JuliusIPC`, `JuliusPM`, `JuliusOTA`, `JuliusUI` |
| `ServicesProofs` | theorems about `JuliusServices` and, under it, `JuliusPush`, `JuliusPermissions`, `JuliusEnclave` |
| `ExchangeProofs` | theorems about `JuliusExchange` and, under it, `JuliusBridge`, `JuliusCloud`, `JuliusDrop` |
| `AppsProofs` | theorems about `JuliusApps` and the apps in it |
| `MCUI` | the two constants of `JuliusUI` that are functions and sequences; every other configuration is of the module itself and writes its constants as sets |

How state and steps correspond to the code:

- **Threads** are a function `pc` from clients (or thread names) to the place a thread
  has reached. A place is a point where another actor can get in: before a mutex, a
  blocking call, a file operation that may fail, or between two unlocked accesses of
  shared fields. Everything between two such points is one action, with all it
  changes, trailing saves included.
- **Mutexes** are a variable with their holder. Code that runs outside a lock has
  steps of its own: the file of `write_notif_file` is truncated, rendered and flushed
  in three; `pm_start` forks, and records the pid in another step; a thread of an app
  reads an attribute in one step and writes it in the next.
- **Files** hold what a reader would find. A truncating save is an empty file, then a
  prefix, then all of it; `json.dump` of the apps leaves `Torn` between two steps, or
  `Broken` when it raises and the shell goes on.
  `JuliusKeychain` distinguishes a key file that is absent, short and good, and items
  encrypted under another key or torn by a crash: a torn item keeps its name, has none
  (`Blank`) or another one (`Stumps`), and its secret is `Junk`. What the push service
  prints of a list with a quotation mark in it (`Quoted`) is no JSON (`Printed`).
- **Payloads** are members of small sets: secrets, versions, message numbers, the
  number of changes made to the synced files, chunks of a file, levels of the battery. A
  cloud file of version v is v chunks of v, so that a tail left of a longer version shows.
  What a keychain request is answered is a value, one that begins with zeros, or nothing,
  since that is what `keychain_get` tells apart when it decodes it.
  AES and SHA-256 are abstracted to: readable under the key it was written with, equal
  to what was sent. A text is a member of `Texts`, or in the editor the lengths of its
  lines.
- **Limits** of the code (`KC_MAX_ITEMS`, `IPC_MAX_CLIENTS`, `MAX_NOTIFS`, recent apps,
  rows, samples and packets kept, the backlog of `listen`, `files[256]` of the sync as
  `MaxFiles`) are constants. Where a limit is one of bytes and the model counts items, it is
  the items that always fit (`ListRoom` of 4096 bytes, in reality 31) or a number that the
  length of names decides (`Rooms` of 8192). Other bounds (`MaxMsgs`, `MaxPushes`,
  `MaxLosses`, `MaxId`, `MaxChanges`, `MaxUnread`, `Longest`, `Lengths`, `Threads`, `Jobs`,
  `Runs`, `Pids`, `Batch`, the `MaxItems` and `MaxChars` of apps, `MaxTime`, `MaxLaps`,
  `MaxLists`) cap what would grow for ever and are named as bounds where they are declared.
- In `JuliusUI` a touch is the set of classifications that hold of it (`is_tap`,
  `is_swipe_left`, ...) and what it ends on, decided by the rectangles of the last
  drawing, which the model keeps. Positions, colours, and the values of settings are
  left out there (`AppSettings` has the values); so is the folder overlay, which no code
  opens.
- In `JuliusOTA` headers are lists of field sizes, so that what the receiver takes for
  the admin key follows from the two layouts.
- In an `App` module, `s` is the record of the app's attributes, `Fresh` its constructor,
  and every key in every mode an action. `InputRaises` and `DrawRaises` say when a handler
  raises; `JuliusApps` says what that costs in the shell that hosts the app. The shells
  differ: `run.py` hands ESC to the app and catches what `draw` raises, but not what
  `handle_input` raises (334-350); `launcher.py` closes the app on ESC and catches nothing
  (190-211); `julius_ui.py` catches both and never hands ESC on (1139-1198). So a save that
  raises ends the first two, and in the third the app goes on with a torn file (`SaveFails`).

Three modules put parts side by side. The parts of `JuliusExchange` share no state and no
lock, and neither do those of `JuliusServices` or the apps of `JuliusApps` among themselves,
so every behaviour of the whole is an interleaving of behaviours of the parts, and no
property here relates two of them. A behaviour of the model therefore runs one part (`part`,
`session`) and leaves the variables of the others as they were: the state space is the sum
of the parts', not their product, and nothing is lost. Parts that do share something are in
one module: the two threads of `julius_core`, the shell and the push service over their
file, the bridge with the broker and the power manager, an app with its threads and its
host. Inside `JuliusBridge`, events and requests share nothing but the shell's thread, which
a request holds up: a behaviour follows the battery with the one or the other.

## Runs

Nine runs pass, three show a disagreement between code and documentation.

| Run | Bounds | What it shows |
|---|---|---|
| `keychain_crash` | 2 clients, 2 names, a secret and the empty one, 2 slots, a list that may be full at any item, crash at any step | names stay unique; what was acknowledged is in the file; the next start has the same key; the daemon implements `KeychainStore`, lists that are cut or run on included; `kc_lock` comes back |
| `keychain_faults` | 1 client, opens of key and database failing, short key | names stay unique in the file the next start reads |
| `ipc` | 2 connections over 2 descriptors, 1 entry in each table, 2 topics, 2 messages, socket buffer of 1 | the table is never wrong about who owns a number; nobody gets what he did not ask for; order; no gap between publish and subscribe; clients and topics over the limits; the lock comes back |
| `pm` | 2 services, 4 processes, 1 restart, failing forks | one instance each, bounded restarts, nothing left running, a crashed service has a live process again, shutdown ends |
| `ota` | 3 versions, one broken; 3 connections, silent ones too; 3 chunks; every fault, one power loss | only the verified package of this connection is unpacked; the receiver listens again after every connection but a silent one; without a fault, and where the rename works, the tree works, good versions are installed and rollbacks restore |
| `ui` | 2 apps besides the system's, 2 recent apps, a search with three results, one event per frame | the flags, names and lists of the shell agree; nothing opens on a locked device; a way home |
| `services` | push: 2 clients and the shell, 3 slots, 5 ids, one text in five with a quotation mark, failing opens and writes; permissions: 4 for a table of 3; enclave: 2 requests, 3 keys for 2 slots, restarts; one finger, one capture, sleep, reset, failing transfers | the latest notifications are kept and the file is what is printed of the list when writers do not overlap; a reply is the client's own id, the permission as it was last set, a key that goes on opening what it closed; who waits for a finger is woken, unless the sensor was put to sleep or reset |
| `exchange` | sync: 2 threads, 1 change, a list that fits or does not; drops: 2 senders of files of one name, 1 chunk announced, 0 to 2 sent; cloud: 1 file of up to 2 chunks, 2 syncs; bridge: 2 levels, 1 topic, 2 messages unread, 1 daemon; core: 3 clients, backlog of 1 | the server learns of the last change if its list fits; recorded drops and synced files are whole; transfers end; the core service stops when told and until then closes every connection; the battery's level arrives; success means done |
| `apps` | 17 apps and the settings in the shells that host them; 2 rows, 3 entries, 2 threads; one session with 4 apps to switch between and 3 recent ones | cursors stay in their lists, and of six apps on the screen; the file has every entry unless its last write failed; clocks and results are right; recent apps; threads end but for a download that has no timeout |
| `ota_tmpfs` (violation) | as `ota`, `/tmp` on another file system | an update is reported as applied and was not |
| `core_ota_signal` (violation) | 3 clients, backlog of 2 | an OTA signal taken by the main loop starts nothing |
| `todo_keys` (violation) | the Todo app in `run.py` | a key of its hint line ends the shell |

The bounds are chosen so that the interesting case occurs: two threads to interleave, one
more connection than descriptors, entries or backlog so that numbers are used again and
limits are hit, two items so that a delete shifts, three connections so that an update
follows one that failed and one that succeeded, more notifications than slots, more entries
than rows so that windows scroll, two senders of one name so that a file is written over,
two versions of different length so that the shorter one leaves a tail, one more app than
the recent ones so that the list is cut. The safety properties are also proved for every
value of the constants, so there the runs only have to show that the formulas are not
vacuous. Every property has a mutant of the code that breaks it; those that say one thing of
several parts have one for each of several parts.

`TypeOK` states the types where a module's variables need it. For the keychain, the
broker, the process manager, the update service, the shell and the push service it is
proved (`TypeCorrect`, `PushTypes`); the types of the others are conjuncts of the inductive
invariants of their proofs. No run spends a property on it.

Deadlock checking is off where the bounds stop the model (messages, pushes, ids, chunks)
or the system ends (shutdown, quit). The keychain is checked for deadlock.

### Fairness

- Threads and processes that can take a step take it: weak fairness, as a
  preemptive scheduler gives it. Mutexes are not fair to a particular thread, so
  no property says that a certain client gets one.
- `JuliusIPC`: clients read what they are sent. Nothing in the broker ensures it;
  `LockReleased` says exactly that the lock depends on it.
- `JuliusOTA`: a sender of updates goes on or hangs up (`Proper`), since `ota_push.sh` has a
  timeout. A stranger owes nothing, and the receiver's reads (`ota_client.c:103`, `129`)
  have no timeout: one that connects and stays silent holds it for as long as it likes,
  which is the exception in `ListensAgain`.
- `JuliusUI`: the loop draws, and a user who wants to get home presses Escape and swipes
  left and right again and again: strong fairness, since other events may come between.
- `SyncFairness`: the interval passes again and again; and again and again the server can be
  reached, what is sent arrives, and the state file can be opened (strong fairness of
  `Connect`, `Send` and `OpenState`; each of them may fail any number of times before).
- `TransferFairness`: the receiver's thread and the cloud's threads run (the sockets of
  the cloud have a timeout), and so does a sender that has not vanished. A sender that
  vanished never comes back; what that does to others is in `TransfersEnd`.
- `CoreFairness`: the two loops run. No promise about clients, except in the premise of
  the second half of `CoreServes`: that each of them sends or hangs up.
- `BridgeFairness`: the power manager truncates and fills its file, and a request goes on.
  Writes come every 30 seconds and updates every 5, neither timed by the other nor by
  requests, so some write ends while no request is under way and some update finds the
  file whole (strong fairness of both).
- `FingerFairness`: the kernel runs the work item and the callers that are woken, captures
  time out, and the driver's mutex is handed over, so that a work item gets it although
  captures follow each other (strong fairness). A finger comes again and again, not always
  just while the work item runs.
- `JuliusApps`: the threads of the apps run, and what they wait for has a timeout, except
  for the download of the speed test, which `urlretrieve` may wait for for ever
  (`Timely`, `speedtest.py:38`). The user owes nothing.

## What the checks found

Shown by runs, with the lines in `PROJECT.json` under findings:

- `ota_tmpfs`: `rename` from `/tmp`, a tmpfs on the device, to `/usr/julius` fails and
  is not checked; the old tree passes verification and "Update applied successfully"
  is printed. The `ota` run therefore shows what the receiver promises where the
  rename works.
- `core_ota_signal`: the main loop and the OTA watcher read from one socket; a signal
  that main takes is logged and lost.
- `todo_keys`: with a filter on, toggling the last task of the filtered list leaves
  `selected` past its end; the next ENTER or D raises `IndexError`, and `run.py` ends.

Met while modelling, part of the modules, and excluded from the properties by a stated
condition:

- `ota_client.c:54`: after a power loss `/usr/julius.bak` is left; the next backup goes
  into it, and a rollback restores the leftover. `RollbackRestores`, `IdleTreeWorks`,
  `AppliedIsInstalled` and `PushedIsApplied` hold while `sound`, that is, until the
  first fault of the device.
- `ota_client.c:125`: `fopen` of the package is not checked; when it fails, the first
  `fwrite` ends the process (`HeaderUnstored`).
- `julius_keychain.c:219-229`: the answer to a list is built with `snprintf` at an offset that
  grows by what would have been printed, so that it may pass the end of the answer. Up to
  31 items always fit; with more, the answer is cut at an item, and one item further the rest is
  written outside it. `ListOverruns` lets that end the process at any such item; if it
  does not, the list is marked `full`, in the abstract store too. `julius_push.c:137` has
  the same loop.
- `ota_push.sh:68`: `magic` is 15 bytes where `OTAHeader` has 16, and `size` is big-endian:
  every pushed update is refused. `PushedIsApplied` is stated for senders that follow
  `OTAHeader`.
- `app_switcher.py:182`: the card of a closed app stays in `card_rects` when the list
  becomes empty; a second touch on its x raises `ValueError` and the shell ends
  (`process = "crashed"`). `HomeAgain` allows for it.
- `notification_center.py:173`: with exactly five notifications drawing divides by zero.
- `julius_push.c:114`: the id is read after the unlock and may be another client's
  once entries were moved (`reused` in `RepliesOwnId`, a part of `RepliesTrue`);
  `write_notif_file` leaves an old file if it does not open (68), a part of one if the
  disk is full, and an old or mixed one when writers overlap (`doubtful` in `FileIsList`, a
  part of `ListKept`). It prints texts without escaping them (76-82): one quotation mark
  in a title or body, and the notification center finds no JSON and shows nothing, until
  that entry is gone; so `FileIsList` compares the file with `Printed(List)`.
- `julius_permissions.c:175`: with the table full a grant is answered granted and is not
  recorded (`lost`). The table is never saved: what was denied is granted again by the
  next start, if it is a default. The same holds of `julius_enclave.c`: its keys end with
  the process, its master key is made, saved and never used, and a text of more than
  4084 bytes overwrites its own iv in the answer (174).
- `julius_fpc1020.c:136`: the capture waits for `image_ready` with the lock that the work
  item needs to set it, so every capture fails after three seconds. 110: the work item
  clears every bit of the status, those set after it was read too, so a finger may go
  unnoticed until it comes again. 108: if the sensor also latches FINGER_UP, which nobody
  asks it to report, the two bits may be read together, up wins, and `WAIT_FINGER` may wait
  for ever; `FingerSeen` is stated for a sensor that does not. Sleep and wake-up (173-178) stop
  the sensor, or reset what it reports, under a caller that waits: that call ends by a
  signal only, and `FingerSeen` says so. Transfers that fail (106, 110, 163) are not noticed;
  a clear that fails leaves the line high, and no interrupt follows (`failing`, excepted).
- `control_center.py:59`: the Wi-Fi switch starts `julius_wifi_enable` or
  `julius_wifi_disable`, which the repository does not have; `Popen` then raises and the
  shell ends, after the change was saved. Airplane mode turns Wi-Fi and Bluetooth off in
  the control center (70-71) and leaves them alone on the settings screen
  (`julius_ui.py:902`).
- `julius_pm.c:126`: the watchdog may change `s->pid` between the handler's `kill` and
  `waitpid`; the handler then waits for a process nobody told to stop (the exception in
  `ShutdownEnds`).
- `julius_ui.py:1045`: a search hidden by a touch outside keeps all events (`Stuck`).
- `julius_bridge.py` writes messages of 8272 bytes where `julius_ipc.c:163` reads
  `sizeof(IPCMessage)`, 8280, from a stream, and drops what is shorter: a message that is
  alone is dropped, of several that wait the first is accepted and the rest read at the
  wrong places (`PeerReads`). So a subscription may arrive or not, by timing. What
  `julius_core` broadcasts goes to a table that is always empty. Events that do arrive
  change nothing: the zeros at the end of a payload are stripped (`julius_bridge.py:59`), and
  the callback wants four bytes of a level that then has fewer (`Event`, `Recv`). A
  connection closed in order ends the listener (47-48), an error makes it reconnect without
  subscribing again. What the status bar shows comes from the state file alone, and that
  is what `BatteryFollows` says. A file caught between truncating and writing shows the
  default of 85 until the next poll.
- `julius_bridge.py:249`: `keychain_get` looks for length and data at offsets other than
  those of `KeychainResponse`, where the first four bytes of the value are: what it returns is
  never the value, but a part of what follows them, or nothing if they are zeros
  (`Decoded`). `AnswersHonest` therefore says that a success was one, and that a failure
  was one too, but for values that begin with zeros and daemons that died.
- `julius_sync.c:157`: `send` is not checked, so the state file may say that files were synced
  of which the server heard nothing, until the next sync. 141-156: the manifest is cut
  when its 8192 bytes are full, at some sixty files; from then on the server is never
  told of the last ones. `ServerCatchesUp` is stated for lists that fit.
- `julius_drop.py:105`: the loop that reads the header ends only with a newline: a peer that
  closes early keeps the only receiver for ever (`Stuck`, the exception in
  `TransfersEnd`). A file that stops early is recorded as done (113-125), and so is one that
  became shorter between asking its size (136) and reading it; one that became longer is
  cut at what was announced. `FilesWhole` says what is on the disk in each case, and leaves out
  only names that came twice. A header that is no JSON, a file that does not open and a full
  disk end the transfer unrecorded (127-130, `refused`).
- `julius_cloud.py:98`, `121`: the same loop on the other side, and a second tap starts a
  second sync beside the first; a download that is cut off leaves a short file, and two that
  write one file at once, each at its own offset (126-132), a mixture, or a shorter version
  with the tail of a longer one (`doubtful`, the exception in `FilesWhole`).
- Apps: a save opens the file for writing, which empties it, before it can fail: after an
  error the file is torn, and `julius_ui.py` goes on (112-114) with a list that is not in it;
  the editor, whose save catches the error (`texteditor.py:58`), then shows a text without the
  mark of a change that the file does not have (`Broken`, `failed`, the exceptions in
  `EntriesOnDisk`). In Notes the selection may be below the window once a note has been
  opened, which resets `scroll` and not `selected` (`notes.py:135`, `171`; `opened`, the
  exception in `SelectionSound`), and wake-on-LAN draws its first ten devices whatever
  is selected (no claim is made of it): D then deletes what is not shown.
- Deleting may leave the selection above the window (`SelectionSeen` only bounds it
  below); `firewall.py:163`, `processkiller.py:137` and `usbtools.py:139` index lists that
  have become shorter or are empty; `Notes.draw_view` uses the undefined name `hint` (103), and
  NetTools and NetMonitor raise while drawing (118, 119): a way home in `run.py`, the
  end of `launcher.py`. A second scan, fetch or test mixes its results with the first's
  (`mixed`, the exception in `ResultsOwn`); `nettools.py:34` loses lines between read and
  write of `+=`; `firewall.py:61` keeps the old rows after a failed reload. A file torn by a
  stop keeps the shell from starting again: every app is constructed at start-up.

## What is proved

Eight modules are checked by TLAPS to the last leaf, for all values of the constants that
satisfy the `ASSUME`s of the modules they extend. Those say what the code or its platform
gives: limits are positive, values that stand for "none", "torn", "missing" are none of
the data, sets of ids are numbers, the sets of threads of an app are finite. Each proof
has the same form: an inductive invariant that implies the property, one lemma or step for
each action, and a last step in temporal logic.

**Keychain.** `TypeCorrect`, `NamesStayUnique`, `DiskStaysUnique`, `Durability`, `KeyStability`
and `Refinement` (`Spec => ImplementsStore`). The inductive invariant `IInv` adds to
the properties: `LockInv` (the lock is held exactly by the thread between its
look-up and its unlock; no thread outlives the process), `DurableInv` (memory and file
agree whenever no thread is between changing one and writing the other, which is
what `AcknowledgedIsDurable` says only for a free lock) and `KeyInv` (which keys
the file, the process and the items can have: a key that differs from the one in
the file was generated by this run, which began with an empty database). The
refinement maps the store to what a look-up under the current key returns, and the
durable copy to what the next start would read. Each request is one abstract step at
the action that changes the array; a save is a step of the durable copy, and a torn
save a part of the map. A list is one step of the store as well: it names every item,
or some of them and is marked as cut; a list that ends the process is the store's `Die`,
with nothing lost on the disk. Uniqueness of names is what makes the first match of `kc_find`
the item an earlier request meant, and a prefix of the array a part of the map.

**Broker.** `TypeCorrect`, `TableMatches`, `Delivery`, `Currency` and `Order`. `IInv` is
`TypeOK`, `LockInv`, `FdInv` (a connection owns its descriptor until its own thread
closes it), `TableInv` (entries and connections are one to one, subscriptions were
asked for), `RequestInv` (a publisher under way carries the newest message, and the topic
table has it), `OrderInv` (nobody has seen more than what is retained) and `CurrentInv`
(a subscriber that lacks the retained message is still ahead of the publisher's
position in the table, or is about to be sent it). `CurrentInv` is the heart:
without `pos` in it `SubscribersCurrent` is not inductive, and it survives a
`memmove` of the table only because the lock keeps removal and delivery apart.

**Process manager.** `TypeCorrect`, `SingleInstance`, `BudgetKept` and `NothingLeft`, for
any number of services, processes and restarts. Main, the watchdog and the handler share
`s->pid` without a lock, so the invariant says where each may be when the others are where
they are: `PlaceInv` (who exists when), `PidInv` (a recorded or forked pid is of its own
service), `FreshInv` (who is about to fork a service left no process of it alive), `KnownInv`
(a live process is the one `s->pid` names, or somebody is about to record it, as long as
the watchdog may look for it), `StopInv` (the handler clears the pid only of what it
reaped, unless main is about to write it), `BudgetInv` (a fork under way is already charged)
and `LeftInv` (what was running at the signal and still is, the handler will come to).

**Update service.** `TypeCorrect`, `OnlyVerified`, `IdleWorks`, `AppliedInstalled` and
`RollbackCorrect`, for any versions and numbers of chunks. `AppliedInstalled` has two parts:
where `/tmp` can be renamed into the tree (`SameFS`), what is reported as applied is
installed; where it cannot, as on the device, whose `julius_init` mounts a tmpfs there, an
update that is reported as applied has changed nothing, and the tree is the working one it
began with. `ota_tmpfs` shows that the second case does occur. The invariant names, for each
place of `apply_update`, which tree is where (`SoundInv`, as long as no fault was met), that
a package about to be unpacked is this connection's (`PackageInv`, `PushedInv`), and that no
more is stored than was counted (`ServedInv`).

**Shell.** `TypeCorrect`, `Consistent` and `NothingOpensLocked`. `ShellConsistent` is almost
inductive; it lacks `HomeInv`, that switcher, search, control and notification center lie over
the home screen only. The action property follows from what every gesture keeps.

**Push, permissions, enclave.** `PushTypes`, `KeepsList` and `AnswersTrue`. The push
service: `LatestInv` (the array holds the latest of what was sent, entry by entry, which is
what `memmove` keeps), `OwnInv` (a thread's pointer points at its own entry until entries
were moved) and `FileInv` (while no two writers overlapped and none failed, the file is
empty, or what is printed of the list, or somebody is about to write it). The permissions:
an entry is the last grant or denial, unless the full table lost it. The enclave: keys are
only added, under the lock, and each id is given once.

**Bridge, cloud, drop.** `Honesty` and `FilesStayWhole`, for any devices, files, names,
lengths, chunks and threads. What a daemon did and what it answers agree from then on, and a
caller is told nothing before (`AnswerInv`); the rest is what `keychain_get` makes of a
value. A cloud file has, unless it is in doubt, one writer, whose chunks it has up to what
that one received, or none, and then all chunks of one version (`FileInv`); and for drops,
`OnceInv` (a device waits, is read or is recorded, and only once), `NamedInv` (each of them
has named its file), `ReadInv` (what was read is what is on the disk) and `DoneInv` (what is
recorded is all that was announced, or all that was sent by a sender that sends no more, or
another file of its name came after it).

**Apps.** `RecentsStayOrdered`, `StopwatchTrue`, `SelectionStaysSound`, `EntriesStayOnDisk` and
`ResultsStayOwn`. The lemma `AppSteps` says once what a step of the composition may do to the
attributes of an app and to its file; each app then has an invariant and a lemma that its own
steps keep it (`NotesKept` ... `MapsKept`), and the theorems put them together.

- `RecentsOrdered` rests on lemmas on `RemoveFirst` and `SubSeq`, and `StopwatchExact` on the
  types of the timer's attributes, with which it is inductive.
- `ListsInv`, for `SelectionSound` and `EntriesOnDisk`: where `selected` may be in every mode of
  an app, which the properties do not say (-1 on an empty list of wake-on-LAN devices, past the
  end of a todo list under a filter, below the window of Notes once a note was opened); the
  window (`InWindow`, kept by `ArrowMoves` for K_UP and
  K_DOWN whatever the length of the list); the cursor of the editor within its line; and, while
  no save is under way and the last one did not fail, the file equal to the list.
- `ResultsInv`, for `ResultsOwn`: where the thread of a screen is. Unless two requests
  overlapped there is one at a time, of the request on the screen, ahead of everything in the
  list (ports of the scanner, addresses of the mapper, and of a map each of the pings that have
  not been answered). Sample and packet lists may be over their limit by one for each thread
  about to drop what it added (`Held`, `HeldMoves`). Of the mapper it says that only the
  thread before its last write keeps `scanning`.

`AppsAssumption`: the bounds are natural numbers, `MaxRecent` is positive, and the values that
stand for a missing file, no weather and a free thread slot are none of a file, a city and a
thread.

Only model-checked: the liveness properties (the prover has no fairness and no `ENABLED`), that
is `LockReleased`, `CrashedComesBack`, `ShutdownEnds`, `PushedIsApplied`, `ListensAgain`,
`HomeAgain`, `ServerCatchesUp`, `TransfersEnd`, `CoreServes`, `BatteryFollows`, `FingerSeen` and
`WorkersSettle`. Every other property of a passing run is a theorem. No module uses recursion.

## Plan

What comes next, in order:

1. **Supervision**: `julius_init`, `julius_health` and `S99julius` composed with `JuliusPM`:
   who starts, restarts and stops a service when three parties do; shutdown.
2. **Fingerprint service**: `julius_security`, the caller of `JuliusFinger`.
3. **Radio and power**: `julius_wifi`, `julius_bt`, `julius_power` and their state files,
   of which `JuliusBridge` has one.
4. **Memory, network, audit**: kills against restarts, DNS cache, ring of events.

Components that interact are to share a run, so that the number of runs stays small;
bounds stay at two clients and one more request than a table holds.

Theorems worth proving next: type correctness and the safety part of `JuliusCore`, `JuliusSync`
and `JuliusFinger`, whose properties so far are all liveness (who has which connection, what a
sync may overwrite, who may wake a waiting caller).

## Not modelled

See the components with status `not_modelled`. Beyond what the plan names: drawing, wording
and logging; image matching, ciphers and checksums (external); the power and watchdog
threads of `julius_core`, which write to a table that is always empty; the beacons of
`julius_drop.py` and its list of nearby devices, which only choose where a file is sent;
what a list of the keychain that runs past its answer writes over, and the same loop in
`PUSH_LIST`; an `open` of an app's JSON file that itself fails; a weather server that sends
a byte within every five seconds and so never lets the timeout expire; `send_file` of
`julius_sync`, `add` of the notification center and the folder overlay, which have no
callers; Radio and the touches of Maps, which no shell delivers (`julius_ui.py` sends taps
on release, the apps wait for the press); the Wi-Fi, Bluetooth and health fields of the
status bar, read from their files as the battery's is; display drivers and scripts that only
do I/O; apps of one screen that show what a command answers.
