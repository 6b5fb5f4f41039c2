# A TLA+ model of ZAMP

ZAMP is an Electron application that starts and stops Apache, PHP and MariaDB on
Windows, keeps a list of project folders and makes one of them Apache's document
root. Its own code is about 2100 lines of JavaScript: `main.js` (the main process),
`renderer.js`, `popupRenderer.js` and `index.html` (the windows), and `src/` (Apache,
MariaDB and PHP helpers). `bin/` holds the bundled third-party programs.

All of the code is asynchronous and none of it locks anything: a handler runs to its
first `await`, and whatever follows interleaves with every other handler, with child
processes and with the renderer. That is what the modules are about.

## Inventory

| Component | State | Operations | Interacts through |
|---|---|---|---|
| Server control (`main.js`, `apache_config.js`) | `serverRunning`, calls in flight, the `httpd.exe` processes of the machine | `open`, `close`, `close-app`, window close, `select_project`, `change-PHP-version`, `killserver`, `create_server` | IPC to the renderer, `tasklist`, `TASKKILL`, spawning |
| Button and popup (`renderer.js`, `index.html`) | text of the button, popup shown | clicks; `open`, `closed`, `stopping`, `close-but-running` | IPC |
| Projects (`main.js`, `renderer.js`) | `config.projects`, `currentProject`, cards | add, remove, select | calls `load_project`; `config.json` |
| `httpd.conf` editing (`apache_config.js`) | the file | `updateApacheServerRoot`, `add_php_variable`, `setDefaultIndex`, `change_www_path`, `recreate_conf` | called by `startApp`, `load_project`, `change-PHP-version` |
| PHP versions (`main.js`, `php_ini.js`) | `php_versions`, `versions.json` | scan, select | `httpd.conf`, `php.ini` |
| `php.ini` extensions (`main.js`, `popupRenderer.js`) | the file | list, toggle, `setExtensionDir` | synchronous file access |
| JSON files (`basic_functions.js`) | `config.json`, `versions.json`, two more | `writeAsJson`, `load_config` | every other component |
| MariaDB (`db_init.js`) | `SQLConfig.status`, `mysqld.exe` | install, start, kill | `tasklist`, `config.json` |
| Apache version and mode | `apacheConfig` (a promise) | fetch, store | network, JSON files |

What is hard, and what makes each part correct:

- **Server control.** Start and stop overlap; both act on a `tasklist` that is out of
  date when used; `serverRunning` is a guess about processes nobody watches. It is
  correct when killing kills what was alive at the call, starting replaces what was
  there, the button tells the truth once things are quiet, nothing survives a quit,
  and a switch brings the server back.
- **Projects.** The selection is assigned before and after an `await`. It is correct when
  it names a listed project, and the server and `httpd.conf` follow it.
- **`httpd.conf`.** Unlocked read-edit-truncate-write by several calls, two of them not
  awaited; an exit in the middle leaves a truncated file. It is correct when the file
  serves the selection once the edits end, and they do end.
- **JSON files.** `writeAsJson` gives `fs.writeFile` a callback, so its `await` waits for
  nothing: writes overlap in any order, and a crash leaves a truncated file. Each owner of
  a file is correct when every launch can load what an exit left.
- **MariaDB.** `mysqld.exe` outlives the app; the status is stored before the process runs
  and decides at the next launch. It is correct when status, file, page and processes
  agree once things are quiet.
- **PHP.** One `phpIniFilePath` follows the selected version while a popup shows one file.
  It is correct when what was chosen for an extension of a version is what its `php.ini`
  says, through every other edit of that file.

`PROJECT.json` lists the hazards with their lines.

## Modules

| Module | Models |
|---|---|
| `ServerControl` | handlers, `killserver`, `create_server`, `httpd.exe` processes, IPC channels, button, popup |
| `HttpdConf` | `httpd.conf` and its editors as steps of interleaving calls |
| `Zamp` | `ServerControl` and `HttpdConf` composed, over several sessions, with what each `httpd.exe` read |
| `JsonFile` | `writeAsJson`: one JSON file and its writes in flight; extended by the next three |
| `ProjectStore` | the project list, `config.json`, launches, exits and crashes |
| `ProjectList` | what `ProjectStore` promises: the abstract specification |
| `MariaDb` | `mysqld.exe`, the stored status, toggle and status text |
| `Php` | the selected version with `versions.json`, each version's `php.ini`, the extension popup |
| `MC...` | instances for TLC, and statements of the repository that runs refute |
| `ServerControlProofs`, `ServerPatientProofs` | proofs about `ServerControl`, at any moment and for a user who waits |
| `HttpdConfProofs`, `ZampProofs` | proofs about the editors of `httpd.conf`, and about the composition |
| `JsonFileProofs`, `ProjectStoreProofs`, `MariaDbProofs`, `PhpProofs` | proofs about the JSON files and the three modules that extend them |

Operators that end in what a bug would do (`CloseFirstUnawaited`, `KillSilent`, ...) are
marked "Seeded defect" and are not part of any specification: put in the place of the
definition that follows them, they make a property fail, which shows that the property
depends on that code.

### ServerControl

A call in flight is a record in `job`. Its `pc` says what it awaits: `list` (the
`tasklist` of `killserver`), `kill` (its TASKKILLs; `todo` is what is left of the list),
`check` (the `tasklist` of `isRunning`), `seen`/`unseen` (that output was read, the
callback has yet to run), `www` and `inst` (an edit of `httpd.conf`). `then` says what
follows `await killserver(...)` in the caller. Handlers are `OnOpen` ... `OnChangePhp`,
continuations are `TaskList`, `TaskKill`, `KillReturns`, `WwwDone`, `InstDone`,
`CheckRunning`, `StartUnseen` and `CloseFirst`; `load_project` is the operator
`LoadProject`, since four handlers call it. `toMain` and `toUI` are the IPC channels,
first in first out as in Electron. `Deliver` is the renderer taking a message.

`old` is a history field: the processes that were alive when a call was made. Processes
are named in the order they start; an id is not used twice. An `httpd.exe` that has
started binds port 80 or, if it is taken, exits.

Three constants say what the environment may do: `HttpdMayDie` lets an `httpd.exe` exit at
any time; `ListMayFail` lets `tasklist` fail; `KillMayFail` is the set of processes whose
TASKKILL may fail while they are alive. `killProcessesByPID` catches a failing TASKKILL
(`apache_config.js:116`) and goes on, so in `TaskKill` the process leaves the list either
way, dead or alive, and `killserver` returns as if it had ended. `Orphans` are the processes
that were there before ZAMP: those of an earlier session, and any `httpd.exe` of another
program, which `tasklist` shows too; of these TASKKILL may well end none (a service of
another account). Contracts of `killserver` and `create_server` are therefore stated for
the processes outside `KillMayFail`.

Left out: names and paths of projects (a project is a name with one path: in the code a
folder whose basename is listed already overwrites the path of that entry, `main.js:446`),
`config.json` (`ProjectStore`), the contents of `httpd.conf` (`HttpdConf`), and
`open_browser`. The second message that a `get-projects` card sends for each click is in the
model (`ClickCard`).

### HttpdConf

A text is a record with one field per edited line, `body` (the lines of
`default_conf.conf` are there) and `junk` (the remains of an overlapping write). Each
editor reads (`Read`, which computes the edited text), opens (`Open`, which truncates)
and writes (`WriteRoot`, `WritePhp`, `WritePhpLast`, `WriteIndex`, `WriteLast`);
`Overlays` says what may result when another call wrote in between. `ReadFails` and
`WwwFails` are the two ways the code handles an error; `Catch` is the catch of
`server_instantiate`, which puts the unawaited write of `recreate_conf` and the
unawaited second attempt in slots of their own while the caller goes on. `Relaunch`
is an exit and a new launch, with `MayCrash` in the middle of anything; `Deselect` is the
removal of the last project, after which nothing is edited.

`EditWww` models `String.replace` of the first occurrence by what it does to the two
lines, with `Under` as the pairs of paths that contain one another; it assumes that a
project's path does not occur in the lines before `DocumentRoot` (a project folder above
ZAMP's own folder would occur in the SRVROOT line). A single write is taken as whole. The
selection is taken to survive a relaunch (`ProjectStore` and `Php` say when it does), and
`default_conf.conf` is taken to be there.

### Zamp

`Server == INSTANCE ServerControl` and `Conf == INSTANCE HttpdConf` share
`currentProject`. A call of `ServerControl` at pc `www` or `inst` awaits the edit
`awaits[j]` of `HttpdConf`: the step that brings it there makes the edit (`SelectProject`,
`InstantiateVersion`), and the step that ends the edit (`EditReturns`) is also the step
that lets the call go on. All other steps of the handlers are `OtherStep` and
`StoreVersion`; all other steps of an edit are `EditStep`. `Relaunch` starts a session
after an exit, with the processes the last one left.

`reads` is what `httpd.conf` said when a process started to run. `dropped` is a history
variable: processes whose project was deleted while they ran. `remove_project` does not
restart the server for those, so the properties exempt them.

`KillMayFail` is a part of `Orphans` here: the `httpd.exe` processes that ZAMP spawned are of
its own account, and TASKKILL ends them. `tasklist` works and no `httpd.exe` ends by itself.

`Prompt` says that the messages of one click are taken before anything else goes on, as
they are sent in one tick of the renderer. It matters: see What the code does.

`EditsAsAssumed` is the refinement `Zamp => Conf!Spec`: what the main process does is
among the behaviours `HttpdConf` assumes of its callers.

### JsonFile, ProjectStore, ProjectList

`Saves(n, v)` is `n` calls of `writeAsJson` in a handler: the text is taken at once, and
a write goes through `OpenFile` (which truncates) and `WriteText`. A text written into a
file that is no longer empty replaces it or leaves the end of a longer one behind
(`Garbled`, which `JSON.parse` refuses). `Lose` is what an exit does to writes in flight.

`ProjectStore` has the handlers that change the list, `load_project` with and without a
wait for `killserver` (`waiting`), startup, and an exit or crash at any moment. Whether
`load_project` waits depends on the server, which the user can start and stop between
any two steps; both are possible here. `CalmRemoval` excludes the deletion of a project
that a waiting switch will select.

`ProjectList` says what the user is promised: the list changes by adding, removing and
selecting only; an exit leaves the list that was saved, or, while saves are in flight, one
of those being saved, the one on disk, or an empty one (`durable`); once a save that
overlapped with nothing but saves of the same list is done, the list is what an exit
leaves. Under `ProjectStore!ListKept`, `list` is the list in memory or, while the
app is down, the one a launch would load; `durable` is computed from the file and the
writes; `saving` is a history variable of `ProjectStore`.

### MariaDb

The functions of `db_init.js` are synchronous, so `OnStart`, `OnKill` and `OnKillThrows`
are whole handlers; only the write of `config.json` goes on. `mysqld.exe` processes start,
run or end: one holds the data directory, a second one ends. `Launch` covers
`load_maria_config` and the start that depends on the status; a file that does not parse
is not caught (`app = "failed"`). The page asks for the status at each launch, and
`apache-online` answers with it too. `calm` is a history variable: the user and the exits
waited until nothing was in flight.

Left out: `install_mariadb` (an installer run once), the version text.

### Php

A `php.ini` is a sequence of lines of four kinds: an extension line, another line in which
`extension=name` occurs, `extension_dir`, and the rest. `Toggled`, `Listing` and
`ExtensionDirSet` are the three loops over the lines. `ini` has the file of each version,
empty when there is none. A change of version is stored at once or waits for
`killserver` (`waiting`); afterwards `server_instantiate` ends with `setExtensionDir`
(`inst`). `shown` and `listed` are what the popup shows and of which version, `chosen` is a
history variable with the last choice for each extension.

Left out: a second popup opened while the first loads; folders of `bin/php` without an
Apache module (of which the first, if selected at a first launch, fails in
`load_php_version`); extension names of which one is the beginning of another.

## Runs

A run is a module, a `.cfg` and the properties in it.

| Run | Shows |
|---|---|
| `ServerPatient` | For a user who waits (`Patient`): the button offers Stop exactly when a server of this session runs (`ButtonTellsTruth`); nothing survives a quit (`CleanExit`); the selection is a listed project (`SelectionSound`); a switch brings the server back (`SwitchRestarts`). 5 actions, one `httpd.exe` of an earlier session or another program, which TASKKILL may fail to end. |
| `ServerRaces` | `KillContract`, `StartReplaces` and `StoppingResolves` for 3 actions at any moment, next to an `httpd.exe` that TASKKILL may fail to end, `tasklist` working. |
| `ServerFaults` | `QuitCompletes`, also when `tasklist` and every TASKKILL fail and `httpd.exe` dies. 3 actions, the least with a popup (Start, close, accept); one project. |
| `ConfEnds` | `EditsEnd` from a missing or damaged file, when `setExtensionDir` may throw and the app may end in the middle of an edit. 2 actions or launches. |
| `ZampPatient` | For a user who waits: `httpd.conf` serves the selection whenever nothing is in flight (`SelectionServed`); the server that runs has read such a file (`RightServer`); a switch ends with a server of the new project, unless an `httpd.exe` that TASKKILL could not end has the port (`SwitchServes`); `EditsAsAssumed`. 4 actions or launches, one `httpd.exe` from before. |
| `StoreCrash` | `LaunchSucceeds` and the refinement `ListKept`: 4 actions, exits or crashes at any moment, three projects, writes in any order. |
| `MariaRaces` | Clicks at any moment and second processes: Started means that a `mysqld.exe` is alive (`StartedRuns`), the page shows the status once messages are delivered (`PageAgrees`); for calm behaviours file, status and processes agree (`StatusTrue`). 4 actions. |
| `PhpRaces` | For calm behaviours: choices of extensions persist (`ChoicesKept`), the popup is true (`PopupTrue`), the selection is stored (`VersionKept`). 4 actions, two versions, two extensions, one with an example in a comment. |

Runs that find a statement of the repository violated (`PROJECT.json`, findings):

| Run | Statement | What happens |
|---|---|---|
| `StoppedLog` | log: "Server was stopped" | an overlapping Start starts a server after it, which also outlives the app |
| `RecreateComment` | `recreate_conf`: an incorrect file is recreated | races of the unawaited write can lose the default lines |
| `RootLog` | log: "Changed document root to" the path | from `C:\www` to `C:\www\app` it is `C:\www\app\app` |
| `MariaClose` | log: "mysqld.exe is not running." and Closed after it | `findstr` exits with 1, `execSync` throws, the status stays Started |

### What the code does

Further behaviour met while modelling, without a run of its own:

- `main.js:249` says that a change of project kills and restarts the server.
  `remove_project` (`main.js:426`) assigns `currentProject` before it calls
  `load_project`, which then sees no change: the server goes on with the removed project.
- When TASKKILL fails to end a live `httpd.exe` (of a service, say), `killserver` still logs
  "Server was stopped" and sends `closed`, so after a Stop the button says Start while that
  server goes on. `create_server` then sends `open` and spawns next to it an `httpd.exe`
  that cannot have port 80 and exits; the button says Stop, and pages come from the other
  server. `ButtonTellsTruth` is silent while such a process is alive.
- A folder whose basename is the name of a listed project replaces that project's path. If it
  is the current one, `httpd.conf` keeps the old path, and selecting it again does nothing
  as it is the current one (`main.js:249`).
- `open` sets `serverRunning` without a project too, and nothing clears it when `httpd.exe`
  ends or after a change of version: the popup then says that Apache is still on the
  warpath (`index.html:59`) when it is not.
- A version chosen while the server is stopped reaches `httpd.conf` at the next launch only
  (`main.js:538`); its `php.ini` may not be there, and the popup stays empty.
- With `Prompt = FALSE` TLC violates `RightServer`: if the second message of a card is
  taken after the first one's `killserver` returned, its `change_www_path` truncates
  `httpd.conf`, the first one's read fails, which is swallowed, and `create_server` starts
  `httpd.exe` on the truncated file.
- With `CalmRemoval = FALSE` `LaunchSucceeds` is violated: switch to b with the server
  running, delete b while `killserver` runs, the switch goes on and makes b current (its
  path throws); deleting a then saves a list that selects what it does not have, and
  `main.js:68` throws at every launch.
- At a first launch `setPhPPaths` writes `versions.json` twice; what is left may not parse,
  and every later launch throws. The same holds of MariaDB's `config.json` after an exit
  during a write. Only `load_config` catches that.
- Toggling an extension also rewrites a comment that mentions it (`php.ini-development`
  has `;   extension=mysqli`), which then is a second line for it.
- `main.js:250` says that `killserver` "will set serverRunning at false". It does not, and
  the restart in `load_project` relies on that: with the flag cleared the button would
  say Stop while a window close exits without asking.

### Bounds

`MaxClicks` and `MaxCalls` bound the actions of the user, and exits and launches where
they count. Two projects are one to switch from and one to switch to; `StoreCrash` has
three, so that a removal has a choice. Two slots for calls let any two calls overlap; a
third message waits in its channel. `Pids` suffices for every start within the bound of
a patient user (each action starts at most two). `ServerRaces` has one process from before
and two starts; a behaviour that wants a third only misses that start. Processes that die
by themselves are in `ServerFaults`; that the contracts of `ServerRaces` hold with them,
and for any `Pids`, is proved. `ZampPatient` has one PHP version, which `httpd.conf` has or
lacks; that the file has the right one of several is proved.
`HttpdConf` has as many slots as a
regeneration needs (the caller, the write, the second attempt) and one more; in `Zamp`,
where no edit fails, two. `Slots = {1, 2, 3}` of the JSON files is three overlapping
writes; a handler waits for a free slot. The races need two actions; the least way
to break `LaunchSucceeds` without its assumption takes four (switch, delete, delete, exit). Deadlock checking
is off: the system stops when the app has exited or the bound is reached.

`StoreCrash` takes the symmetry of the projects, which occur in the initial states in
every way and are compared with nothing but each other; runs with liveness properties
use no symmetry.

### Fairness

`FairSpec` of `ServerControl` has weak fairness of the renderer's message loop, of the
main process's message loop, of the continuation of each call, and of a started
`httpd.exe` (it binds or exits). The event loops of Electron serve every message and
every completed call, and `tasklist` and `TASKKILL` end (with success or without). The user owes nothing, and an
`httpd.exe` that is up need not exit. `FairSpec` of `HttpdConf` has weak fairness of
each call: a file operation completes. `Zamp` asks only that something of what is in
flight goes on. The other modules state no liveness.

## Proofs

All proofs are for every value of the constants that the named assumptions allow: any
number of projects, versions, processes, calls in flight and user actions. Every safety
property of the passing runs is a theorem. What a theorem assumes beyond that stands in
its `ASSUME`, and is a choice of the environment that the model leaves open (a user who
waits, `tasklist` works, TASKKILL ends what this session started, no process dies by
itself).

`ServerControlProofs`:

- `TypeCorrect`: `Spec => []TypeOK`, one lemma per group of actions.
- `ListsSound`: `Spec => [](TypeOK /\ KillInv)`, for any `KillMayFail`. `KillContract` and
  `StartReplaces` speak of a step, and of the processes outside `KillMayFail`; they need a state invariant that links what was alive at a call (`old`) to
  the list the call works with. `KillInv` says for each call: while it kills, what is left of
  `old` is in `todo` or in `KillMayFail`; if it saw no server, at most some of
  `KillMayFail` is left of `old`; and no process of
  `old` is unused, so that no later start can bring one back. The last part is what
  makes the others survive the starts of other calls.
- `KillserverKeepsContract`: `Spec => KillContract`: when `killserver` returns, what was alive
  at its call and still is belongs to `KillMayFail`. A TASKKILL that fails costs no other
  process, and what was alive is on the list.
- `CreateServerReplaces`: `~ListMayFail /\ Spec => StartReplaces`, again but for
  `KillMayFail`. The assumption is needed: when `tasklist` fails, `create_server` starts a
  second server next to one that TASKKILL could have ended.
- `SelectionListed`: for `Patient`, `Spec => []SelectionSound`. The strengthening `SelInv`
  adds that the names in messages on their way and in switches that wait are listed; a
  deletion by a patient user finds neither.

`ServerPatientProofs`, for `Calm` (`Patient`, `tasklist` works, no `httpd.exe` ends by
itself, and `KillMayFail` is a part of `Orphans`: TASKKILL ends what this session spawned):

- `CallsTakeTurns`: the inductive invariant `PatientInv`. `ButtonTellsTruth` and `CleanExit`
  are about the moment when nothing is in flight; what has to be carried there is: a call
  that ends a server without starting one is alone, and all that runs and can be ended is on its
  list (`Alone`); several calls are in flight only if each ends with a start, and then
  `serverRunning` is set (`Marked`), so that none of them can be overtaken by an exit of the
  window; a message other than a selection is alone (`Single`); a process from
  before is gone, or is one TASKKILL may not end, before one of this session starts
  (`Hosts`); and, while no process of `KillMayFail` is alive, the button shows, or
  will show when the last message is taken, whether a server runs (`Truth`).
- `ButtonRight` (`ButtonTellsTruth`) and `NothingSurvives` (`CleanExit`) follow.
- `NextKinds` sorts the steps of this module into what they do to the edits of
  `httpd.conf` and to the processes (`Takes`, `TurnsTo`, `ChangesVersion`, `GoesOn`, ...).
  The proofs about `Zamp` go by these kinds.

`HttpdConfProofs`:

- `TypeCorrect`, where `TypeOK` includes that `change_www_path` is only called with a project
  and `server_instantiate` with a version (`Fits`).
- `FileServes`: for a user who waits, no crash, and a file that at the first launch is the
  default one or a later version of it, `Spec => []SelectionServed`. The invariant
  `FileInv` follows the text from the file into a call and back: `server_instantiate` runs
  alone and has in hand the file as it found it plus the edits it made so far
  (`InstEdit`); every `change_www_path` writes the current project (`WwwCurrent`); and while
  those run, the file serves the selection, or is truncated with a call about to write it,
  or its root is still to be edited (`WwwEdits`). The middle case is why a second
  `change_www_path` that finds no text, and gives up, does no harm.

`ZampProofs`. The proofs of the two parts are instantiated the way `Zamp` instantiates the
modules, and the lemmas `Same...` show that the two instances of each definition agree.

- `PartsAgree`: the inductive invariant `ZampInv`: `TypeOK` of the parts, `SelInv`,
  `PatientInv`, `FileInv`, and how they agree. Each part is proved under what the other
  owes it: `FileInv` needs that `server_instantiate` runs alone, and that two edits in
  flight are of the same project. The first is `InstAlone`. The second is
  `OneTarget`: the messages on their way, the switches that wait for `killserver` and the
  edits in flight are all for one project. `Counted` bounds the edits by the clicks, so that
  `HttpdConf` never runs into its bound `MaxCalls`.
- `TypeCorrect`, and `FileServesSelection` (`SelectionServed`), for both values of `Prompt`.
- `CallersAsAssumed`: `Spec => EditsAsAssumed`, the refinement of `HttpdConf`: each of the
  four disjuncts of `MainStep` maps to a call of an editor, to a change of the selection
  without one, or to a stutter.
- `RunningServerRight`: for `Prompt`, `Spec => []RightServer`. `ServersInv` adds that each
  server of this session is about to be ended (`Doomed`: some call will list it, has listed
  it, or will call `create_server`), or has read what is selected (`Right`), or is starting
  while the file is whole (`EachRight`). `EditsAlone` says that an edit after which no
  start follows is not in flight together with a start: if one is, whoever starts in the
  middle of it is doomed. `Fresh` says what is in flight when the messages of a click
  arrive, and is where `Prompt` is needed. Servers whose project was deleted are exempt as
  in the property (`NoneServed`).
- `SessionsTellTruth` and `ContractsHold`: what is proved of one session of `ServerControl`
  (`ButtonTellsTruth`, `CleanExit`, `SelectionSound`, `KillContract`, `StartReplaces`) holds
  in `Zamp`, with its `KillMayFail`, through any number of sessions, with the edits as they go on.

`JsonFileProofs` has what `MariaDb` and `Php` need of `writeAsJson`: while all writes in
flight are of one text (`Becomes`), the file is that text once they are done.

`ProjectStoreProofs`, for `CalmRemoval`:

- `ListsSound`: the inductive invariant `IInv`. Every text that is or may become the file
  selects a project it lists (`TextsSound`), so does the list in memory, and what waits is
  listed (`MemorySound`); `SavingKnown` ties the history variable to the writes.
- `TypeCorrect` and `NoLaunchFails` (`LaunchSucceeds`) follow.
- `StoreKeepsPromise`: `Spec => ListKept`, one lemma per action that maps it to an action of
  `ProjectList` or a stutter. The hard step is the end of the last write: if all
  overlapping saves saved one list, the file is that list, which is `SavingKnown`.

`MariaDbProofs`: `TypeCorrect`; for `MayDie = FALSE` also

- `StartedMeansRunning` (`Running` is `StartedRuns` without its condition, as an exit would
  break that) and `PageTellsTruth` (`PageInv`: the last answer on its way is the status, or
  the page has yet to be answered, or it shows the status but for a click on its way). The
  last needs the first: when `kill_maria_server` throws nothing answers, and the page is
  right only because the status is Closed then.
- `StatusTellsTruth` (`StatusTrue`), by `CalmInv`: one `mysqld.exe` at most is up (`OneUp`),
  so that killing one is killing all; while the app is up the file becomes the status, and
  a status of Closed means that none is alive (`CalmUp`); an exit leaves a file that the
  next launch accepts, with no process it does not know of (`LeftOver`).

`PhpProofs`: `TypeCorrect`, where each edit of a `php.ini` keeps its number of lines
(`ToggledLines`, `DirectedLines`); and from `PhpInv` the theorems `ChoicesStay`
(`ChoicesKept`), `PopupTellsTruth` (`PopupTrue`) and `VersionStays` (`VersionKept`). While
the user waits, a change of version is alone (`OneChange`) and the popup is open only
while nothing else is in flight (`PopupAlone`), so that `phpIniFilePath` does not move under
it (`PopupShows`); a choice was made in a `php.ini` that is there, which `setExtensionDir`
edits and does not replace (`Chosen`); and the file becomes the selection (`FileServes`).

The assumptions on constants say no more than the types of the parameters, and: an
extension line of the template has a name of `Names` (`Php`), there is a first slot for
edits (`Zamp`), and the file at the first launch has the lines of the default one
(`AtLaunchAssumption`; `ConfEnds` and the runs on findings have other files).

Only model-checked: all liveness (`SwitchRestarts`, `StoppingResolves`, `QuitCompletes`,
`EditsEnd`, `SwitchServes`), which is out of the prover's reach.

## Not modelled

- **Apache version and mode.** `load_apache_config` is `async` and its result is used
  without `await`: `apacheConfig` is a Promise, so the stored mode is never loaded, and
  sending it to the page throws. There is no behaviour to check behind that.
- **Editor, explorer, browser**: a command is run and nothing is kept. **Apache installer**:
  not called. **Pages, styles, search**: layout.
- **`bin/`**: the bundled Apache, PHP and MariaDB with the C headers of their SDKs. They are
  third-party code that ZAMP runs and does not compile or link, and they make up
  nearly all C source lines of the repository; `httpd.exe` and `mysqld.exe` are modelled
  as external parts, from how ZAMP uses them.

What is left of ZAMP's own JavaScript that could still be modelled: paths as sequences, to
derive `EditWww` with its `Under`; the cards of the page and the marked selection; `Php` in
`Zamp`, so that `applied` follows `versions.json`. And proved: that `EditWww` follows from
`String.replace` on paths, once those are sequences; what holds of `HttpdConf` from a
damaged file (`ConfEnds`), short of liveness; and `RightServer` without `Prompt` for clicks on
cards that send one message.
