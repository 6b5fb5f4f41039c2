-------------------------------- MODULE Php --------------------------------
(***************************************************************************)
(* The PHP version and its php.ini: setPhPPaths and load_php_version with  *)
(* versions.json, 'change-PHP-version', setExtensionDir, and the popup     *)
(* that lists and toggles extensions (createPopupWindow,                   *)
(* getExtensionsFromPhpIni, updateExtensionStatusInPhpIni of main.js and   *)
(* popupRenderer.js).                                                      *)
(*                                                                         *)
(* php.ini is read and written synchronously.  But main.js keeps one       *)
(* phpIniFilePath, that of the selected version, and a change of version   *)
(* that waits for killserver moves it while the popup shows another file.  *)
(* HttpdConf models what a change does to httpd.conf.                      *)
(***************************************************************************)
EXTENDS JsonFile, Sequences

CONSTANTS
  Versions,   \* the folders of bin/php, each with an Apache module
  First,      \* the one readdirSync lists first
  Names,      \* names of extensions, none of them the beginning of another
  None,       \* no version, no name
  Template,   \* the lines of php.ini-development
  Calls,      \* slots for changes of version in flight (bound)
  MaxClicks   \* user actions, exits and crashes in a behaviour (bound)

(* A line of php.ini: "ext" is extension=name, or ;extension=name if it is *)
(* not on; "note" is another line with that text in it, as the examples in *)
(* the comments; "dir" is extension_dir, on when it names the ext folder.  *)
Line == [kind : {"ext", "note", "dir", "other"}, name : Names \cup {None},
         on : BOOLEAN]

ASSUME PhpAssumption ==
  /\ First \in Versions /\ None \notin Versions \cup Names
  /\ Values = Versions \cup {None}
  /\ Template \in Seq(Line) /\ Template # <<>>
  /\ \A i \in DOMAIN Template : Template[i].kind = "ext" => Template[i].name \in Names
  /\ Calls \subseteq Nat /\ Calls # {}
  /\ MaxClicks \in Nat

VARIABLES
  app,       \* "up", "down", or "failed": main.js threw while it loaded
  selected,  \* main.js: php_versions.selected, which phpIniFilePath follows
  ini,       \* the lines of each version's php.ini; none if there is no file
  waiting,   \* changes of version that await killserver: the version
  inst,      \* calls of server_instantiate in flight: the version
  popup,     \* "closed", "loading" or "open"
  shown,     \* popupRenderer.js: its items, by the line they were read from
  listed,    \* the version whose php.ini it shows (history)
  chosen,    \* the last choice made for an extension of a version (history)
  clicks,    \* user actions, exits and crashes so far
  calm       \* the user and the exits waited, and versions.json was there at
             \* the first launch (history)

file == <<disk, writes>>
vars == <<disk, writes, app, selected, ini, waiting, inst, popup, shown,
          listed, chosen, clicks, calm>>

-----------------------------------------------------------------------------
(* php.ini.                                                                *)

Ext(name, on) == [kind |-> "ext", name |-> name, on |-> on]

\* updateExtensionStatusInPhpIni: line.includes finds the notes too.
Toggled(lines, name, on) ==
  [i \in DOMAIN lines |->
     IF lines[i].kind \in {"ext", "note"} /\ lines[i].name = name
     THEN Ext(name, on) ELSE lines[i]]

\* The loop of setExtensionDir over the lines.
Directed(lines) ==
  [i \in DOMAIN lines |->
     IF lines[i].kind = "dir" THEN [lines[i] EXCEPT !.on = TRUE] ELSE lines[i]]

\* Seeded defect: setExtensionDir adds a line instead of replacing it.
ExtensionDirAdded(lines) ==
  Append(IF lines = <<>> THEN Template ELSE lines,
         [kind |-> "dir", name |-> None, on |-> TRUE])

\* Seeded defect: setExtensionDir always starts from the template.
ExtensionDirReset(lines) == Directed(Template)

\* setExtensionDir, of a php.ini or, where there is none, of the template.
ExtensionDirSet(lines) == Directed(IF lines = <<>> THEN Template ELSE lines)

\* Seeded defect: every extension is listed as enabled.
ListingOn(lines) ==
  [i \in {i \in DOMAIN lines : lines[i].kind = "ext"} |->
     [name |-> lines[i].name, on |-> TRUE]]

\* getExtensionsFromPhpIni: lines that start with extension= or ;extension=.
Listing(lines) ==
  [i \in {i \in DOMAIN lines : lines[i].kind = "ext"} |->
     [name |-> lines[i].name, on |-> lines[i].on]]

Idle == [k \in Calls |-> None]

\* Nothing is in flight; the popup may be open.
Quiet == Settled /\ waiting = Idle /\ inst = Idle /\ popup # "loading"

-----------------------------------------------------------------------------
(* Changes of version.                                                     *)

UserActs ==
  /\ app = "up"
  /\ clicks < MaxClicks
  /\ clicks' = clicks + 1
  /\ calm' = (calm /\ Quiet)

\* Seeded defect: load_php_version is called without write.
LoadVersionUnsaved(v) == selected' = v /\ UNCHANGED file

\* load_php_version(version, true).
LoadVersion(v) ==
  /\ selected' = v
  /\ Saves(1, v)
  /\ UNCHANGED disk

\* 'change-PHP-version': at once if the server is not running, otherwise after
\* killserver.  The open popup is modal.
ChangeVersion ==
  /\ UserActs
  /\ popup # "open"
  /\ \E v \in Versions :
       \/ /\ LoadVersion(v)
          /\ UNCHANGED waiting
       \/ /\ \E k \in Calls :
               waiting[k] = None /\ waiting' = [waiting EXCEPT ![k] = v]
          /\ UNCHANGED <<disk, writes, selected>>
  /\ UNCHANGED <<app, ini, inst, popup, shown, listed, chosen>>

\* killserver returns; server_instantiate is called with the new version.
KillserverReturns ==
  /\ app = "up"
  /\ \E k \in Calls, i \in Calls :
       /\ waiting[k] # None /\ inst[i] = None
       /\ LoadVersion(waiting[k])
       /\ waiting' = [waiting EXCEPT ![k] = None]
       /\ inst' = [inst EXCEPT ![i] = waiting[k]]
  /\ UNCHANGED <<app, ini, popup, shown, listed, chosen, clicks, calm>>

\* server_instantiate ends with setExtensionDir, for the version it was called
\* with, unless its edits of httpd.conf fail twice.
InstDone ==
  /\ app = "up"
  /\ \E i \in Calls :
       /\ inst[i] # None
       /\ inst' = [inst EXCEPT ![i] = None]
       /\ \/ ini' = [ini EXCEPT ![inst[i]] = ExtensionDirSet(@)]
          \/ UNCHANGED ini
  /\ UNCHANGED <<disk, writes, app, selected, waiting, popup, shown, listed,
                 chosen, clicks, calm>>

-----------------------------------------------------------------------------
(* The popup.  A second one, opened while the first one loads, is left out.*)

\* 'manage-extensions': the window is created, and shown when it has loaded.
OpenPopup ==
  /\ UserActs
  /\ popup = "closed"
  /\ popup' = "loading"
  /\ UNCHANGED <<disk, writes, app, selected, ini, waiting, inst, shown, listed,
                 chosen>>

\* 'did-finish-load': the list is read and sent.  Without a php.ini readFileSync
\* throws and the popup stays empty.
PopupLoads ==
  /\ app = "up" /\ popup = "loading"
  /\ popup' = "open"
  /\ shown' = Listing(ini[selected])
  /\ listed' = selected
  /\ UNCHANGED <<disk, writes, app, selected, ini, waiting, inst, chosen,
                 clicks, calm>>

\* A click on an item and 'update-extension-status'; without a php.ini the
\* handler throws.
ToggleExtension ==
  /\ UserActs
  /\ popup = "open"
  /\ \E i \in DOMAIN shown :
       LET name == shown[i].name
           on   == ~shown[i].on
       IN /\ shown' = [shown EXCEPT ![i].on = on]
          /\ ini' = [ini EXCEPT ![selected] = Toggled(@, name, on)]
          /\ chosen' = {c \in chosen : c[1] # listed \/ c[2] # name}
                         \cup {<<listed, name, on>>}
  /\ UNCHANGED <<disk, writes, app, selected, waiting, inst, popup, listed>>

ClosePopup ==
  /\ UserActs
  /\ popup = "open"
  /\ popup' = "closed" /\ shown' = <<>>
  /\ UNCHANGED <<disk, writes, app, selected, ini, waiting, inst, listed, chosen>>

-----------------------------------------------------------------------------
(* Sessions.                                                               *)

\* app.exit, which waits for no write, or a crash between two steps.
Exit ==
  /\ UserActs
  /\ app' = "down"
  /\ Lose
  /\ waiting' = Idle /\ inst' = Idle
  /\ popup' = "closed" /\ shown' = <<>>
  /\ UNCHANGED <<selected, ini, listed, chosen>>

\* setPhPPaths and load_php_version at launch, and server_instantiate.  The
\* first launch writes versions.json twice, first without a selection.  A file
\* that cannot be parsed throws.
Launch ==
  /\ app = "down"
  /\ \/ /\ disk = Missing
        /\ SavesBoth(None, First)
        /\ selected' = First /\ app' = "up"
     \/ /\ Readable
        /\ selected' = IF disk = None THEN First ELSE disk
        /\ Saves(1, selected') /\ app' = "up"
     \/ /\ disk \in {Empty, Garbled}
        /\ app' = "failed"
        /\ UNCHANGED <<selected, writes>>
  /\ \E i \in Calls :
       inst' = IF app' = "up" THEN [Idle EXCEPT ![i] = selected'] ELSE Idle
  /\ UNCHANGED <<disk, ini, waiting, popup, shown, listed, chosen, clicks, calm>>

FileStep ==
  /\ app # "down"
  /\ WriteStep
  /\ UNCHANGED <<app, selected, ini, waiting, inst, popup, shown, listed, chosen,
                 clicks, calm>>

Init ==
  /\ FileInit
  /\ calm = (disk # Missing)
  /\ app = "down" /\ selected = First
  /\ ini \in [Versions -> {<<>>, Template, Directed(Template)}]
  /\ waiting = Idle /\ inst = Idle
  /\ popup = "closed" /\ shown = <<>>
  /\ listed = First /\ chosen = {} /\ clicks = 0

Next ==
  \/ ChangeVersion \/ KillserverReturns \/ InstDone
  \/ OpenPopup \/ PopupLoads \/ ToggleExtension \/ ClosePopup
  \/ Exit \/ Launch \/ FileStep

Spec == Init /\ [][Next]_vars

-----------------------------------------------------------------------------
(* Properties.                                                             *)

\* Every variable has its type; in particular no edit changes the number of
\* lines of a php.ini.
TypeOK ==
  /\ FileTypeOK
  /\ app \in {"up", "down", "failed"}
  /\ {selected, listed} \subseteq Versions
  /\ ini \in [Versions -> Seq(Line)]
  /\ \A v \in Versions : Len(ini[v]) \in {0, Len(Template)}
  /\ {waiting, inst} \subseteq [Calls -> Versions \cup {None}]
  /\ popup \in {"closed", "loading", "open"}
  /\ DOMAIN shown \subseteq DOMAIN Template
  /\ \A i \in DOMAIN shown : shown[i] \in [name : Names, on : BOOLEAN]
  /\ chosen \subseteq Versions \X Names \X BOOLEAN
  /\ clicks \in 0..MaxClicks
  /\ calm \in BOOLEAN

Says(lines, name, on) ==
  \A i \in DOMAIN lines :
    lines[i].kind = "ext" /\ lines[i].name = name => lines[i].on = on

\* For a user who waits: what was chosen for an extension of a version is what
\* that version's php.ini says, after changes of version, launches and the
\* edits of setExtensionDir.
ChoicesKept ==
  calm /\ Quiet => \A c \in chosen : Says(ini[c[1]], c[2], c[3])

\* For a user who waits: the open popup shows what the php.ini in use says, for
\* each extension it shows once.
PopupTrue ==
  calm /\ popup = "open" =>
    \A i \in DOMAIN shown :
      (\A k \in DOMAIN shown \ {i} : shown[k].name # shown[i].name)
        => Says(ini[selected], shown[i].name, shown[i].on)

\* For a user who waits, and whose versions.json was there at the first launch:
\* startup does not fail on it, and it holds the selected version.
VersionKept == calm /\ Quiet /\ app # "down" => app = "up" /\ disk = selected

=============================================================================
