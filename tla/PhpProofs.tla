----------------------------- MODULE PhpProofs -----------------------------
(***************************************************************************)
(* Proofs about Php, for any versions, extensions, template and bounds.    *)
(***************************************************************************)
EXTENDS Php, JsonFileProofs, TLAPS

-----------------------------------------------------------------------------
(* The invariant.                                                          *)

\* An extension has a name, also after the edits.
Named(lines) ==
  \A i \in DOMAIN lines : lines[i].kind = "ext" => lines[i].name \in Names

TypeInv == TypeOK /\ \A v \in Versions : Named(ini[v])

\* Without a session nothing is in flight.
Ended == app # "up" => waiting = Idle /\ inst = Idle /\ popup = "closed"
Lost  == app = "down" => Settled

\* For a user who waits.  A change of version waits alone; while the popup is
\* there, nothing moves phpIniFilePath or edits a php.ini but the popup, and
\* what it lists is what the file of the selected version says.
OneChange ==
  waiting # Idle =>
    /\ Settled /\ inst = Idle /\ popup = "closed"
    /\ \E k \in Calls : \A i \in Calls : i # k => waiting[i] = None

PopupAlone == popup # "closed" => waiting = Idle /\ inst = Idle

PopupShows ==
  popup = "open" =>
    /\ listed = selected
    /\ DOMAIN shown \subseteq DOMAIN ini[selected]
    /\ \A i \in DOMAIN shown :
         (\A k \in DOMAIN shown \ {i} : shown[k].name # shown[i].name)
           => Says(ini[selected], shown[i].name, shown[i].on)

\* A choice was made in a php.ini, which setExtensionDir does not replace.
Chosen == \A c \in chosen : ini[c[1]] # <<>> /\ Says(ini[c[1]], c[2], c[3])

\* The next launch reads a selection, or none.
FileServes ==
  /\ app # "failed"
  /\ app = "down" => disk \in Values
  /\ app = "up" => Becomes(selected)

CalmInv ==
  calm => OneChange /\ PopupAlone /\ PopupShows /\ Chosen /\ FileServes

PhpInv == TypeInv /\ Ended /\ Lost /\ CalmInv

-----------------------------------------------------------------------------
(* The edits of php.ini.                                                   *)

\* A choice in the popup changes the lines of that extension and no other.
LEMMA ToggledLines ==
  ASSUME NEW lines \in Seq(Line), Named(lines), NEW name \in Names,
         NEW on \in BOOLEAN
  PROVE  /\ Toggled(lines, name, on) \in Seq(Line)
         /\ Len(Toggled(lines, name, on)) = Len(lines)
         /\ DOMAIN Toggled(lines, name, on) = DOMAIN lines
         /\ Named(Toggled(lines, name, on))
         /\ Says(Toggled(lines, name, on), name, on)
         /\ \A n, o : n # name /\ Says(lines, n, o)
                        => Says(Toggled(lines, name, on), n, o)
<1> DEFINE T == Toggled(lines, name, on)
<1>1. DOMAIN lines = 1..Len(lines) /\ Len(lines) \in Nat
  OBVIOUS
<1>2. DOMAIN T = 1..Len(lines)
  BY <1>1 DEF Toggled
<1>3. \A i \in DOMAIN lines :
        T[i] = IF lines[i].kind \in {"ext", "note"} /\ lines[i].name = name
               THEN Ext(name, on) ELSE lines[i]
  BY DEF Toggled
<1>4. Ext(name, on) \in Line
  BY DEF Ext, Line
<1>5. T \in Seq(Line) /\ Len(T) = Len(lines)
  <2>1. T \in [1..Len(lines) -> Line]
    BY <1>1, <1>4 DEF Toggled
  <2> QED BY <1>1, <2>1
<1>6. Named(T)
  BY <1>1, <1>2, <1>3 DEF Named, Ext
<1>7. Says(T, name, on)
  BY <1>1, <1>2, <1>3 DEF Says, Ext
<1>8. ASSUME NEW n, NEW o, n # name, Says(lines, n, o) PROVE Says(T, n, o)
  BY <1>1, <1>2, <1>3, <1>8 DEF Says, Ext
<1> QED BY <1>1, <1>2, <1>5, <1>6, <1>7, <1>8

\* setExtensionDir leaves the extensions of a php.ini as they are.
LEMMA DirectedLines ==
  ASSUME NEW lines \in Seq(Line), Named(lines)
  PROVE  /\ Directed(lines) \in Seq(Line)
         /\ Len(Directed(lines)) = Len(lines)
         /\ Named(Directed(lines))
         /\ \A n, o : Says(lines, n, o) => Says(Directed(lines), n, o)
<1> DEFINE T == Directed(lines)
<1>1. DOMAIN lines = 1..Len(lines) /\ Len(lines) \in Nat
  OBVIOUS
<1>2. DOMAIN T = 1..Len(lines)
  BY <1>1 DEF Directed
<1>3. \A i \in DOMAIN lines :
        T[i] = IF lines[i].kind = "dir" THEN [lines[i] EXCEPT !.on = TRUE]
               ELSE lines[i]
  BY DEF Directed
<1>4. \A i \in DOMAIN lines : lines[i] \in Line /\ T[i] \in Line
  <2>1. \A l \in Line : [l EXCEPT !.on = TRUE] \in Line
    BY DEF Line
  <2>2. \A i \in DOMAIN lines : lines[i] \in Line
    OBVIOUS
  <2> QED BY <1>3, <2>1, <2>2
<1>5. T \in Seq(Line) /\ Len(T) = Len(lines)
  <2>1. T \in [1..Len(lines) -> Line]
    BY <1>1, <1>4 DEF Directed
  <2> QED BY <1>1, <2>1
<1>6. \A i \in DOMAIN lines :
        T[i].kind = lines[i].kind /\ (lines[i].kind = "ext" => T[i] = lines[i])
  BY <1>3, <1>4 DEF Line
<1>7. Named(T)
  BY <1>1, <1>2, <1>6 DEF Named
<1>8. ASSUME NEW n, NEW o, Says(lines, n, o) PROVE Says(T, n, o)
  BY <1>1, <1>2, <1>6, <1>8 DEF Says
<1> QED BY <1>5, <1>7, <1>8

LEMMA DirSetLines ==
  ASSUME NEW lines \in Seq(Line), Named(lines), Len(lines) \in {0, Len(Template)}
  PROVE  /\ ExtensionDirSet(lines) \in Seq(Line)
         /\ Len(ExtensionDirSet(lines)) = Len(Template)
         /\ Named(ExtensionDirSet(lines))
         /\ lines # <<>> =>
              \A n, o : Says(lines, n, o) => Says(ExtensionDirSet(lines), n, o)
<1>1. Template \in Seq(Line) /\ Named(Template)
  BY PhpAssumption DEF Named
<1>2. lines # <<>> => Len(lines) = Len(Template)
  OBVIOUS
<1> QED BY <1>1, <1>2, DirectedLines DEF ExtensionDirSet

\* The list shows each extension as the file says it, by its line.
LEMMA ListingLines ==
  ASSUME NEW lines \in Seq(Line), Named(lines)
  PROVE  /\ DOMAIN Listing(lines) \subseteq DOMAIN lines
         /\ \A i \in DOMAIN Listing(lines) :
              /\ Listing(lines)[i] \in [name : Names, on : BOOLEAN]
              /\ (\A k \in DOMAIN Listing(lines) \ {i} :
                     Listing(lines)[k].name # Listing(lines)[i].name)
                   => Says(lines, Listing(lines)[i].name, Listing(lines)[i].on)
<1>1. DOMAIN Listing(lines) = {i \in DOMAIN lines : lines[i].kind = "ext"}
  BY DEF Listing
<1>2. \A i \in DOMAIN Listing(lines) :
        /\ Listing(lines)[i] = [name |-> lines[i].name, on |-> lines[i].on]
        /\ Listing(lines)[i].name = lines[i].name
        /\ Listing(lines)[i].on = lines[i].on
  BY DEF Listing
<1>3. \A i \in DOMAIN lines : lines[i] \in Line
  OBVIOUS
<1>4. \A i \in DOMAIN Listing(lines) :
        Listing(lines)[i] \in [name : Names, on : BOOLEAN]
  <2>1. \A l \in Line : l.on \in BOOLEAN
    BY Zenon DEF Line
  <2>2. \A i \in DOMAIN Listing(lines) :
          lines[i].name \in Names /\ lines[i].on \in BOOLEAN
    BY <1>1, <1>3, <2>1, Zenon DEF Named
  <2>3. \A n \in Names, o \in BOOLEAN :
          [name |-> n, on |-> o] \in [name : Names, on : BOOLEAN]
    OBVIOUS
  <2>4. \A i \in DOMAIN Listing(lines) :
          Listing(lines)[i] = [name |-> lines[i].name, on |-> lines[i].on]
    BY <1>2
  <2> QED BY <2>2, <2>3, <2>4, Zenon
<1>5. ASSUME NEW i \in DOMAIN Listing(lines),
             \A k \in DOMAIN Listing(lines) \ {i} :
               Listing(lines)[k].name # Listing(lines)[i].name
      PROVE  Says(lines, Listing(lines)[i].name, Listing(lines)[i].on)
  BY <1>1, <1>2, <1>5 DEF Says
<1> QED BY <1>1, <1>4, <1>5

-----------------------------------------------------------------------------
(* Type correctness.                                                       *)

LEMMA ClicksType ==
  ASSUME TypeOK, UserActs
  PROVE  clicks' \in 0..MaxClicks /\ calm' \in BOOLEAN /\ app = "up"
BY PhpAssumption DEF TypeOK, UserActs

LEMMA VersionValues == Versions \subseteq Values /\ None \in Values
BY PhpAssumption

LEMMA LoadType ==
  ASSUME TypeOK, NEW v \in Versions, LoadVersion(v)
  PROVE  FileTypeOK' /\ selected' \in Versions
<1>1. selected' = v /\ disk' = disk /\ Saves(1, v) /\ FileTypeOK
  BY DEF LoadVersion, TypeOK
<1> QED BY <1>1, SavesType, VersionValues DEF FileTypeOK

LEMMA IdleType == Idle \in [Calls -> Versions \cup {None}]
BY DEF Idle

LEMMA VersionType ==
  ASSUME TypeInv, ChangeVersion \/ KillserverReturns PROVE TypeInv'
<1>1. CASE ChangeVersion
  <2>1. clicks' \in 0..MaxClicks /\ calm' \in BOOLEAN
    BY <1>1, ClicksType DEF ChangeVersion, TypeInv
  <2>2. /\ FileTypeOK' /\ selected' \in Versions
        /\ waiting' \in [Calls -> Versions \cup {None}]
    <3>1. PICK v \in Versions :
            \/ LoadVersion(v) /\ UNCHANGED waiting
            \/ /\ \E k \in Calls : waiting' = [waiting EXCEPT ![k] = v]
               /\ UNCHANGED <<disk, writes, selected>>
      BY <1>1 DEF ChangeVersion
    <3> QED BY <3>1, LoadType DEF TypeInv, TypeOK, FileTypeOK
  <2> QED BY <1>1, <2>1, <2>2 DEF ChangeVersion, TypeInv, TypeOK, Named
<1>2. CASE KillserverReturns
  <2>1. PICK k \in Calls, i \in Calls :
          /\ waiting[k] # None
          /\ LoadVersion(waiting[k])
          /\ waiting' = [waiting EXCEPT ![k] = None]
          /\ inst' = [inst EXCEPT ![i] = waiting[k]]
    BY <1>2 DEF KillserverReturns
  <2>2. waiting[k] \in Versions
    BY <2>1 DEF TypeInv, TypeOK
  <2>3. {waiting', inst'} \subseteq [Calls -> Versions \cup {None}]
    BY <2>1, <2>2 DEF TypeInv, TypeOK
  <2>4. FileTypeOK' /\ selected' \in Versions
    BY <2>1, <2>2, LoadType DEF TypeInv
  <2> QED BY <1>2, <2>3, <2>4 DEF KillserverReturns, TypeInv, TypeOK, Named
<1> QED BY <1>1, <1>2

\* What setExtensionDir does to the php.ini of the version v.
LEMMA InstIni ==
  ASSUME TypeInv, NEW v \in Versions,
         ini' = [ini EXCEPT ![v] = ExtensionDirSet(@)]
  PROVE  /\ ini' \in [Versions -> Seq(Line)]
         /\ \A w \in Versions :
              /\ Len(ini'[w]) \in {0, Len(Template)}
              /\ Named(ini'[w])
              /\ ini[w] # <<>> =>
                   /\ ini'[w] # <<>>
                   /\ \A n, o : Says(ini[w], n, o) => Says(ini'[w], n, o)
<1>1. /\ ini[v] \in Seq(Line) /\ Len(ini[v]) \in {0, Len(Template)}
      /\ Named(ini[v])
  BY DEF TypeInv, TypeOK
<1>2. /\ ini'[v] = ExtensionDirSet(ini[v])
      /\ \A w \in Versions : w # v => ini'[w] = ini[w]
  BY DEF TypeInv, TypeOK
<1>3. /\ ini'[v] \in Seq(Line) /\ Len(ini'[v]) = Len(Template)
      /\ Named(ini'[v])
      /\ ini[v] # <<>> => \A n, o : Says(ini[v], n, o) => Says(ini'[v], n, o)
  BY <1>1, <1>2, DirSetLines
<1>4. ini'[v] # <<>>
  <2>1. Len(Template) # 0
    BY PhpAssumption
  <2> QED BY <1>3, <2>1
<1>5. ini' \in [Versions -> Seq(Line)]
  BY <1>2, <1>3 DEF TypeInv, TypeOK
<1>6. ASSUME NEW w \in Versions
      PROVE  /\ Len(ini'[w]) \in {0, Len(Template)}
             /\ Named(ini'[w])
             /\ ini[w] # <<>> =>
                  /\ ini'[w] # <<>>
                  /\ \A n, o : Says(ini[w], n, o) => Says(ini'[w], n, o)
  BY <1>2, <1>3, <1>4 DEF TypeInv, TypeOK
<1> QED BY <1>5, <1>6

LEMMA InstType ==
  ASSUME TypeInv, InstDone PROVE TypeInv'
<1>1. PICK i \in Calls :
        /\ inst[i] # None
        /\ inst' = [inst EXCEPT ![i] = None]
        /\ \/ ini' = [ini EXCEPT ![inst[i]] = ExtensionDirSet(@)]
           \/ UNCHANGED ini
  BY DEF InstDone
<1>2. inst[i] \in Versions /\ inst' \in [Calls -> Versions \cup {None}]
  BY <1>1 DEF TypeInv, TypeOK
<1>3. /\ ini' \in [Versions -> Seq(Line)]
      /\ \A w \in Versions : Len(ini'[w]) \in {0, Len(Template)} /\ Named(ini'[w])
  BY <1>1, <1>2, InstIni DEF TypeInv, TypeOK
<1> QED BY <1>2, <1>3 DEF InstDone, TypeInv, TypeOK, FileTypeOK

\* What a click on the item i of the popup does.
LEMMA ToggleItem ==
  ASSUME TypeInv, ToggleExtension
  PROVE  \E i \in DOMAIN shown :
           /\ shown[i].name \in Names /\ (~shown[i].on) \in BOOLEAN
           /\ shown' = [shown EXCEPT ![i].on = ~shown[i].on]
           /\ ini' = [ini EXCEPT ![selected]
                        = Toggled(@, shown[i].name, ~shown[i].on)]
           /\ chosen' = {c \in chosen : c[1] # listed \/ c[2] # shown[i].name}
                          \cup {<<listed, shown[i].name, ~shown[i].on>>}
<1>1. PICK i \in DOMAIN shown :
        /\ shown' = [shown EXCEPT ![i].on = ~shown[i].on]
        /\ ini' = [ini EXCEPT ![selected]
                     = Toggled(@, shown[i].name, ~shown[i].on)]
        /\ chosen' = {c \in chosen : c[1] # listed \/ c[2] # shown[i].name}
                       \cup {<<listed, shown[i].name, ~shown[i].on>>}
  BY DEF ToggleExtension
<1>2. shown[i].name \in Names /\ (~shown[i].on) \in BOOLEAN
  <2>1. shown[i] \in [name : Names, on : BOOLEAN]
    BY DEF TypeInv, TypeOK
  <2> QED BY <2>1
<1> QED BY <1>1, <1>2, Zenon

\* The items after the click.
LEMMA ToggledItems ==
  ASSUME TypeInv, NEW i \in DOMAIN shown, NEW on \in BOOLEAN,
         shown' = [shown EXCEPT ![i].on = on]
  PROVE  /\ DOMAIN shown' = DOMAIN shown
         /\ shown'[i].on = on
         /\ \A k \in DOMAIN shown : /\ shown'[k] \in [name : Names, on : BOOLEAN]
                                    /\ shown'[k].name = shown[k].name
                                    /\ k # i => shown'[k] = shown[k]
<1>1. \A k \in DOMAIN shown : shown[k] \in [name : Names, on : BOOLEAN]
  BY DEF TypeInv, TypeOK
<1>2. /\ DOMAIN shown' = DOMAIN shown
      /\ shown'[i] = [shown[i] EXCEPT !.on = on]
      /\ \A k \in DOMAIN shown : k # i => shown'[k] = shown[k]
  OBVIOUS
<1>3. [shown[i] EXCEPT !.on = on] = [name |-> shown[i].name, on |-> on]
  BY <1>1
<1> QED BY <1>1, <1>2, <1>3

\* The php.ini after the click.
LEMMA ToggledIni ==
  ASSUME TypeInv, NEW name \in Names, NEW on \in BOOLEAN,
         ini' = [ini EXCEPT ![selected] = Toggled(@, name, on)]
  PROVE  /\ ini' \in [Versions -> Seq(Line)]
         /\ \A v \in Versions :
              /\ Len(ini'[v]) = Len(ini[v])
              /\ Named(ini'[v])
              /\ v # selected => ini'[v] = ini[v]
         /\ DOMAIN ini'[selected] = DOMAIN ini[selected]
         /\ Says(ini'[selected], name, on)
         /\ \A n, o : n # name /\ Says(ini[selected], n, o)
                        => Says(ini'[selected], n, o)
<1>1. /\ selected \in Versions /\ ini \in [Versions -> Seq(Line)]
      /\ \A v \in Versions : Named(ini[v])
  BY DEF TypeInv, TypeOK
<1>2. /\ ini'[selected] = Toggled(ini[selected], name, on)
      /\ \A v \in Versions : v # selected => ini'[v] = ini[v]
  BY <1>1
<1>3. /\ ini'[selected] \in Seq(Line)
      /\ Len(ini'[selected]) = Len(ini[selected])
      /\ Named(ini'[selected])
      /\ DOMAIN ini'[selected] = DOMAIN ini[selected]
      /\ Says(ini'[selected], name, on)
      /\ \A n, o : n # name /\ Says(ini[selected], n, o)
                     => Says(ini'[selected], n, o)
  BY <1>1, <1>2, ToggledLines
<1>4. ini' \in [Versions -> Seq(Line)]
  BY <1>1, <1>2, <1>3
<1> QED BY <1>1, <1>2, <1>3, <1>4

LEMMA PopupType ==
  ASSUME TypeInv, OpenPopup \/ PopupLoads \/ ToggleExtension \/ ClosePopup
  PROVE  TypeInv'
<1>1. CASE OpenPopup
  BY <1>1, ClicksType DEF OpenPopup, TypeInv, TypeOK, FileTypeOK
<1>2. CASE PopupLoads
  <2>1. /\ shown' = Listing(ini[selected]) /\ listed' = selected
        /\ ini[selected] \in Seq(Line) /\ Named(ini[selected])
        /\ Len(ini[selected]) \in {0, Len(Template)}
    BY <1>2 DEF PopupLoads, TypeInv, TypeOK
  <2>2. DOMAIN ini[selected] \subseteq DOMAIN Template
    BY <2>1, PhpAssumption
  <2>3. /\ DOMAIN shown' \subseteq DOMAIN Template
        /\ \A i \in DOMAIN shown' : shown'[i] \in [name : Names, on : BOOLEAN]
    BY <2>1, <2>2, ListingLines
  <2> QED BY <1>2, <2>1, <2>3 DEF PopupLoads, TypeInv, TypeOK, FileTypeOK
<1>3. CASE ToggleExtension
  <2>1. PICK i \in DOMAIN shown :
          /\ shown[i].name \in Names /\ (~shown[i].on) \in BOOLEAN
          /\ shown' = [shown EXCEPT ![i].on = ~shown[i].on]
          /\ ini' = [ini EXCEPT ![selected]
                       = Toggled(@, shown[i].name, ~shown[i].on)]
          /\ chosen' = {c \in chosen : c[1] # listed \/ c[2] # shown[i].name}
                         \cup {<<listed, shown[i].name, ~shown[i].on>>}
    BY <1>3, ToggleItem
  <2>2. /\ DOMAIN shown' \subseteq DOMAIN Template
        /\ \A k \in DOMAIN shown' : shown'[k] \in [name : Names, on : BOOLEAN]
    BY <2>1, ToggledItems DEF TypeInv, TypeOK
  <2>3. /\ ini' \in [Versions -> Seq(Line)]
        /\ \A v \in Versions : Len(ini'[v]) = Len(ini[v]) /\ Named(ini'[v])
    BY <2>1, ToggledIni
  <2>4. chosen' \subseteq Versions \X Names \X BOOLEAN
    <3>1. /\ chosen \subseteq Versions \X Names \X BOOLEAN
          /\ listed \in Versions
      BY DEF TypeInv, TypeOK
    <3> DEFINE c == <<listed, shown[i].name, ~shown[i].on>>
    <3>2. c \in Versions \X Names \X BOOLEAN
      BY <2>1, <3>1, Zenon
    <3> QED BY <2>1, <3>1, <3>2, Zenon
  <2> QED BY <1>3, <2>2, <2>3, <2>4, ClicksType
          DEF ToggleExtension, TypeInv, TypeOK, FileTypeOK
<1>4. CASE ClosePopup
  BY <1>4, ClicksType DEF ClosePopup, TypeInv, TypeOK, FileTypeOK
<1> QED BY <1>1, <1>2, <1>3, <1>4

LEMMA SessionType ==
  ASSUME TypeInv, Exit \/ Launch \/ FileStep PROVE TypeInv'
<1>1. CASE Exit
  <2>1. FileTypeOK'
    BY <1>1, LoseType DEF Exit, TypeInv, TypeOK
  <2> QED BY <1>1, <2>1, ClicksType, IdleType DEF Exit, TypeInv, TypeOK
<1>2. CASE Launch
  <2>1. First \in Versions /\ First \in Values /\ None \in Values
    BY PhpAssumption
  <2>2. /\ selected' \in Versions
        /\ writes' \in [Slots -> Write]
        /\ \A i \in Slots : writes'[i].io # "idle" => writes'[i].text \in Values
        /\ app' \in {"up", "failed"}
    <3>1. CASE SavesBoth(None, First) /\ selected' = First /\ app' = "up"
      BY <2>1, <3>1, SavesBothType DEF TypeInv, TypeOK
    <3>2. CASE /\ Readable /\ selected' = (IF disk = None THEN First ELSE disk)
               /\ Saves(1, selected') /\ app' = "up"
      <4>1. selected' \in Versions /\ selected' \in Values
        BY <3>2, <2>1, PhpAssumption DEF Readable
      <4> QED BY <3>2, <4>1, SavesType DEF TypeInv, TypeOK
    <3>3. CASE app' = "failed" /\ UNCHANGED <<selected, writes>>
      BY <3>3 DEF TypeInv, TypeOK, FileTypeOK
    <3> QED BY <1>2, <3>1, <3>2, <3>3 DEF Launch
  <2>3. inst' \in [Calls -> Versions \cup {None}]
    <3>1. PICK i \in Calls :
            inst' = IF app' = "up" THEN [Idle EXCEPT ![i] = selected'] ELSE Idle
      BY <1>2 DEF Launch
    <3> QED BY <2>2, <3>1, IdleType
  <2> QED BY <1>2, <2>2, <2>3 DEF Launch, TypeInv, TypeOK, FileTypeOK
<1>3. CASE FileStep
  BY <1>3, StepFileType DEF FileStep, TypeInv, TypeOK
<1> QED BY <1>1, <1>2, <1>3

LEMMA InitType == ASSUME Init PROVE TypeInv
<1>1. /\ Template \in Seq(Line) /\ Named(Template)
      /\ Directed(Template) \in Seq(Line) /\ Named(Directed(Template))
      /\ Len(Directed(Template)) = Len(Template)
  BY PhpAssumption, DirectedLines DEF Named
<1>2. /\ <<>> \in Seq(Line) /\ Len(<<>>) = 0 /\ DOMAIN <<>> = {}
  OBVIOUS
<1>3. /\ ini \in [Versions -> Seq(Line)]
      /\ \A v \in Versions : Len(ini[v]) \in {0, Len(Template)} /\ Named(ini[v])
  BY <1>1, <1>2 DEF Init, Named
<1>4. FileTypeOK
  BY DEF Init, FileInit, FileTypeOK, NoWrite, Write
<1>5. /\ DOMAIN shown \subseteq DOMAIN Template
      /\ \A i \in DOMAIN shown : shown[i] \in [name : Names, on : BOOLEAN]
  BY <1>2 DEF Init
<1>6. calm \in BOOLEAN
  BY DEF Init
<1> QED BY <1>3, <1>4, <1>5, <1>6, IdleType, PhpAssumption DEF Init, TypeInv,
           TypeOK

LEMMA TypeInvKept == ASSUME TypeInv, [Next]_vars PROVE TypeInv'
<1>1. CASE UNCHANGED vars
  BY <1>1 DEF vars, TypeInv, TypeOK, FileTypeOK
<1> QED BY <1>1, VersionType, InstType, PopupType, SessionType DEF Next

\* Every reachable state is well typed; no edit of a php.ini, by the popup or
\* by setExtensionDir, changes its number of lines.
THEOREM TypeCorrect == Spec => []TypeOK
<1>1. TypeInv => TypeOK
  BY DEF TypeInv
<1> QED BY <1>1, InitType, TypeInvKept, PTL DEF Spec

-----------------------------------------------------------------------------
(* What a session leaves.                                                  *)

LEMMA EndedKept ==
  ASSUME TypeInv, Ended, Lost, [Next]_vars PROVE Ended' /\ Lost'
<1>1. CASE Exit
  BY <1>1, LoseType DEF Exit, Ended, Lost, TypeInv, TypeOK
<1>2. CASE Launch
  BY <1>2 DEF Launch, Ended, Lost
<1>3. CASE app = "up" /\ app' = "up"
  BY <1>3 DEF Ended, Lost
<1>4. CASE FileStep
  BY <1>4 DEF FileStep, Ended, Lost
<1>5. CASE UNCHANGED vars
  BY <1>5 DEF vars, Ended, Lost, Settled, InFlight
<1> QED BY <1>1, <1>2, <1>3, <1>4, <1>5
        DEF Next, UserActs, ChangeVersion, KillserverReturns, InstDone,
            OpenPopup,
            PopupLoads, ToggleExtension, ClosePopup

-----------------------------------------------------------------------------
(* A user who waits.                                                       *)

\* An action of the user where nothing is in flight: the file says what is
\* selected.
LEMMA CalmUser ==
  ASSUME TypeInv, CalmInv, UserActs, calm'
  PROVE  /\ app = "up" /\ calm /\ Quiet /\ disk = selected /\ Settled
         /\ OneChange /\ PopupAlone /\ PopupShows /\ Chosen /\ FileServes
BY SettledBecomes DEF UserActs, CalmInv, FileServes, Quiet

LEMMA CalmLoads ==
  ASSUME NEW v, LoadVersion(v), Settled PROVE Becomes(selected)'
<1>1. selected' = v /\ Saves(1, v) /\ UNCHANGED disk
  BY DEF LoadVersion
<1> QED BY <1>1, SavesBecome

LEMMA CalmChange ==
  ASSUME TypeInv, CalmInv, ChangeVersion, calm' PROVE CalmInv'
<1>1. /\ app = "up" /\ calm /\ Quiet /\ Settled /\ popup = "closed"
      /\ Chosen /\ FileServes /\ waiting = Idle /\ inst = Idle
      /\ UNCHANGED <<app, ini, inst, popup, shown, listed, chosen>>
  BY CalmUser DEF ChangeVersion, Quiet, TypeInv, TypeOK
<1>2. PICK v \in Versions :
        \/ LoadVersion(v) /\ UNCHANGED waiting
        \/ /\ \E k \in Calls : waiting' = [waiting EXCEPT ![k] = v]
           /\ UNCHANGED <<disk, writes, selected>>
  BY DEF ChangeVersion
<1>3. PopupAlone' /\ PopupShows' /\ Chosen'
  BY <1>1 DEF PopupAlone, PopupShows, Chosen
<1>4. CASE LoadVersion(v) /\ UNCHANGED waiting
  <2>1. Becomes(selected)'
    BY <1>1, <1>4, CalmLoads
  <2> QED BY <1>1, <1>3, <1>4, <2>1 DEF CalmInv, OneChange, FileServes, Idle
<1>5. CASE /\ \E k \in Calls : waiting' = [waiting EXCEPT ![k] = v]
           /\ UNCHANGED <<disk, writes, selected>>
  <2>1. OneChange'
    BY <1>1, <1>5 DEF OneChange, Idle, Settled, InFlight
  <2>2. FileServes'
    BY <1>1, <1>5 DEF FileServes, Becomes, InFlight
  <2> QED BY <1>3, <2>1, <2>2 DEF CalmInv
<1> QED BY <1>2, <1>4, <1>5

\* The change that waited is the only one, so the next one finds nothing.
LEMMA CalmKillserver ==
  ASSUME TypeInv, Ended, CalmInv, KillserverReturns, calm PROVE CalmInv'
<1>1. PICK k \in Calls, i \in Calls :
        /\ waiting[k] # None
        /\ LoadVersion(waiting[k])
        /\ waiting' = [waiting EXCEPT ![k] = None]
  BY DEF KillserverReturns
<1>2. /\ waiting # Idle
      /\ app = "up" /\ OneChange /\ Chosen
      /\ UNCHANGED <<app, ini, popup, shown, listed, chosen>>
  BY <1>1 DEF KillserverReturns, CalmInv, Idle
<1>3. Settled /\ popup = "closed"
  BY <1>2 DEF OneChange
<1>4. waiting' = Idle
  BY <1>1, <1>2 DEF OneChange, Idle, TypeInv, TypeOK
<1>5. Becomes(selected)'
  BY <1>1, <1>3, CalmLoads
<1> QED BY <1>2, <1>3, <1>4, <1>5
        DEF CalmInv, OneChange, PopupAlone, PopupShows, Chosen, FileServes

LEMMA CalmInst ==
  ASSUME TypeInv, CalmInv, InstDone, calm PROVE CalmInv'
<1>1. PICK i \in Calls :
        /\ inst[i] # None
        /\ \/ ini' = [ini EXCEPT ![inst[i]] = ExtensionDirSet(@)]
           \/ UNCHANGED ini
  BY DEF InstDone
<1>2. /\ inst # Idle /\ inst[i] \in Versions
      /\ app = "up" /\ OneChange /\ PopupAlone /\ Chosen /\ FileServes
      /\ UNCHANGED <<disk, writes, app, selected, waiting, popup, shown, listed,
                     chosen>>
  BY <1>1 DEF InstDone, CalmInv, Idle, TypeInv, TypeOK
<1>3. waiting = Idle /\ popup = "closed"
  BY <1>2 DEF OneChange, PopupAlone
<1>4. Chosen'
  <2>1. \A c \in chosen : c[1] \in Versions
    BY DEF TypeInv, TypeOK
  <2>2. CASE ini' = [ini EXCEPT ![inst[i]] = ExtensionDirSet(@)]
    <3>1. \A w \in Versions :
            ini[w] # <<>> =>
              /\ ini'[w] # <<>>
              /\ \A n, o : Says(ini[w], n, o) => Says(ini'[w], n, o)
      BY <1>2, <2>2, InstIni
    <3> QED BY <1>2, <2>1, <3>1 DEF Chosen
  <2>3. CASE UNCHANGED ini
    BY <1>2, <2>3 DEF Chosen
  <2> QED BY <1>1, <2>2, <2>3
<1> QED BY <1>2, <1>3, <1>4
        DEF CalmInv, OneChange, PopupAlone, PopupShows, FileServes, Becomes,
            InFlight

LEMMA CalmPopup ==
  ASSUME TypeInv, CalmInv, OpenPopup \/ ClosePopup, calm' PROVE CalmInv'
<1>1. /\ app = "up" /\ waiting = Idle /\ inst = Idle /\ Chosen /\ FileServes
      /\ UNCHANGED <<disk, writes, app, selected, ini, waiting, inst, listed,
                     chosen>>
      /\ popup' # "open"
  BY CalmUser DEF OpenPopup, ClosePopup, Quiet
<1> QED BY <1>1 DEF CalmInv, OneChange, PopupAlone, PopupShows, Chosen,
           FileServes,
                    Becomes, InFlight

LEMMA CalmPopupLoads ==
  ASSUME TypeInv, CalmInv, PopupLoads, calm PROVE CalmInv'
<1>1. /\ app = "up" /\ waiting = Idle /\ inst = Idle /\ Chosen /\ FileServes
      /\ UNCHANGED <<disk, writes, app, selected, ini, waiting, inst, chosen>>
      /\ popup' = "open" /\ listed' = selected
      /\ shown' = Listing(ini[selected])
  BY DEF PopupLoads, CalmInv, PopupAlone
<1>2. ini[selected] \in Seq(Line) /\ Named(ini[selected])
  BY DEF TypeInv, TypeOK
<1>3. PopupShows'
  BY <1>1, <1>2, ListingLines DEF PopupShows
<1> QED BY <1>1, <1>3 DEF CalmInv, OneChange, PopupAlone, Chosen, FileServes,
                          Becomes, InFlight

\* A click in the popup writes the php.ini it lists, and keeps what it shows of
\* the other extensions.
LEMMA CalmToggle ==
  ASSUME TypeInv, CalmInv, ToggleExtension, calm' PROVE CalmInv'
<1>1. /\ app = "up" /\ calm /\ waiting = Idle /\ inst = Idle /\ popup = "open"
      /\ PopupShows /\ Chosen /\ FileServes
      /\ listed = selected
      /\ UNCHANGED <<disk, writes, app, selected, waiting, inst, popup, listed>>
  BY CalmUser DEF ToggleExtension, Quiet, PopupShows
<1>2. PICK i \in DOMAIN shown :
        /\ shown[i].name \in Names /\ (~shown[i].on) \in BOOLEAN
        /\ shown' = [shown EXCEPT ![i].on = ~shown[i].on]
        /\ ini' = [ini EXCEPT ![selected]
                     = Toggled(@, shown[i].name, ~shown[i].on)]
        /\ chosen' = {c \in chosen : c[1] # listed \/ c[2] # shown[i].name}
                       \cup {<<listed, shown[i].name, ~shown[i].on>>}
  BY ToggleItem
<1> DEFINE name == shown[i].name
           on   == ~shown[i].on
<1>3. /\ DOMAIN shown' = DOMAIN shown
      /\ shown'[i].on = on
      /\ \A k \in DOMAIN shown : /\ shown'[k].name = shown[k].name
                                 /\ k # i => shown'[k] = shown[k]
  BY <1>2, ToggledItems
<1>4. /\ \A v \in Versions : /\ Len(ini'[v]) = Len(ini[v])
                             /\ v # selected => ini'[v] = ini[v]
      /\ ini' \in [Versions -> Seq(Line)]
      /\ DOMAIN ini'[selected] = DOMAIN ini[selected]
      /\ Says(ini'[selected], name, on)
      /\ \A n, o : n # name /\ Says(ini[selected], n, o)
                     => Says(ini'[selected], n, o)
  BY <1>2, ToggledIni
<1>5. PopupShows'
  <2>1. listed' = selected' /\ DOMAIN shown' \subseteq DOMAIN ini'[selected']
    BY <1>1, <1>3, <1>4 DEF PopupShows
  <2>2. ASSUME NEW j \in DOMAIN shown',
               \A k \in DOMAIN shown' \ {j} : shown'[k].name # shown'[j].name
        PROVE  Says(ini'[selected'], shown'[j].name, shown'[j].on)
    <3>1. CASE j = i
      BY <1>1, <1>3, <1>4, <3>1
    <3>2. CASE j # i
      <4>1. shown[j].name # name /\ shown'[j] = shown[j]
        BY <1>3, <2>2, <3>2
      <4>2. Says(ini[selected], shown[j].name, shown[j].on)
        BY <1>1, <1>3, <2>2 DEF PopupShows
      <4> QED BY <1>1, <1>4, <4>1, <4>2
    <3> QED BY <3>1, <3>2
  <2> QED BY <2>1, <2>2 DEF PopupShows
<1>6. Chosen'
  <2>1. ini[selected] # <<>> /\ ini'[selected] # <<>>
    <3>1. DOMAIN ini[selected] # {}
      BY <1>1, <1>2 DEF PopupShows
    <3> QED BY <1>4, <3>1
  <2>2. ASSUME NEW c \in chosen'
        PROVE  ini'[c[1]] # <<>> /\ Says(ini'[c[1]], c[2], c[3])
    <3>1. CASE c = <<listed, name, on>>
      BY <1>1, <1>4, <2>1, <3>1
    <3>2. CASE c \in chosen /\ (c[1] # listed \/ c[2] # name)
      <4>1. c[1] \in Versions /\ ini[c[1]] # <<>> /\ Says(ini[c[1]], c[2], c[3])
        BY <1>1, <3>2 DEF Chosen, TypeInv, TypeOK
      <4> QED BY <1>1, <1>4, <2>1, <3>2, <4>1
    <3> QED BY <1>2, <3>1, <3>2
  <2> QED BY <2>2 DEF Chosen
<1> QED BY <1>1, <1>5, <1>6
        DEF CalmInv, OneChange, PopupAlone, FileServes, Becomes, InFlight

LEMMA CalmExit ==
  ASSUME TypeInv, CalmInv, Exit, calm' PROVE CalmInv'
<1>1. disk = selected /\ Chosen
  BY CalmUser DEF Exit
<1>2. disk' \in Values
  BY <1>1, VersionValues DEF Exit, Lose, TypeInv, TypeOK
<1>3. Chosen'
  BY <1>1 DEF Exit, Chosen
<1> QED BY <1>2, <1>3
        DEF Exit, CalmInv, OneChange, PopupAlone, PopupShows, FileServes

\* The launch reads a selection, or none, and saves it.
LEMMA CalmLaunch ==
  ASSUME TypeInv, Ended, Lost, CalmInv, Launch, calm PROVE CalmInv'
<1>1. /\ app = "down" /\ disk \in Values /\ Settled /\ Chosen
      /\ waiting = Idle /\ popup = "closed"
      /\ UNCHANGED <<disk, ini, waiting, popup, shown, listed, chosen>>
  BY DEF Launch, CalmInv, FileServes, Ended, Lost
<1>2. app' = "up" /\ Saves(1, selected')
  BY <1>1, SpecialFiles DEF Launch
<1>3. Becomes(selected)'
  <2>1. PICK v : v = selected'
    OBVIOUS
  <2> QED BY <1>1, <1>2, <2>1, SavesBecome
<1> QED BY <1>1, <1>2, <1>3
        DEF CalmInv, OneChange, PopupAlone, PopupShows, Chosen, FileServes

LEMMA CalmWrites ==
  ASSUME TypeInv, Lost, CalmInv, FileStep, calm PROVE CalmInv'
<1>1. /\ WriteStep
      /\ UNCHANGED <<app, selected, ini, waiting, inst, popup, shown, listed,
                     chosen>>
      /\ app # "down"
  BY DEF FileStep
<1>2. ~ Settled
  BY <1>1 DEF WriteStep, OpenFile, WriteText, Settled, InFlight
<1>3. Becomes(selected)'
  <2>1. selected \in Values /\ selected' = selected /\ Becomes(selected)
    BY <1>1, VersionValues DEF TypeInv, TypeOK, CalmInv, FileServes
  <2> QED BY <1>1, <2>1, StepBecomes DEF TypeInv, TypeOK, Becomes
<1> QED BY <1>1, <1>2, <1>3
        DEF CalmInv, OneChange, PopupAlone, PopupShows, Chosen, FileServes

LEMMA CalmKept ==
  ASSUME PhpInv, [Next]_vars PROVE CalmInv'
<1>1. TypeInv /\ Ended /\ Lost /\ CalmInv
  BY DEF PhpInv
<1>2. calm' => calm
  BY DEF Next, vars, ChangeVersion, KillserverReturns, InstDone, OpenPopup,
         PopupLoads, ToggleExtension, ClosePopup, Exit, Launch, FileStep,
         UserActs
<1>3. CASE ~ calm'
  BY <1>3 DEF CalmInv
<1>4. CASE UNCHANGED vars
  BY <1>1, <1>4 DEF vars, CalmInv, OneChange, PopupAlone, PopupShows, Chosen,
                    FileServes, Becomes, Settled, InFlight
<1> QED BY <1>1, <1>2, <1>3, <1>4, CalmChange, CalmKillserver, CalmInst,
           CalmPopup, CalmPopupLoads, CalmToggle, CalmExit, CalmLaunch,
           CalmWrites
        DEF Next

LEMMA PhpInvKept == ASSUME PhpInv, [Next]_vars PROVE PhpInv'
BY TypeInvKept, EndedKept, CalmKept DEF PhpInv

LEMMA PhpInvInit == ASSUME Init PROVE PhpInv
<1>1. TypeInv
  BY InitType
<1>2. Settled
  BY DEF Init, FileInit, Settled, InFlight, NoWrite
<1> QED BY <1>1, <1>2 DEF Init, FileInit, PhpInv, Ended, Lost, CalmInv,
           OneChange,
                          PopupAlone, PopupShows, Chosen, FileServes

LEMMA Invariant == Spec => []PhpInv
BY PhpInvInit, PhpInvKept, PTL DEF Spec

\* For a user who waits, a php.ini says what was chosen for its extensions,
\* whatever changes of version and launches set their extension_dir since.
THEOREM ChoicesStay == Spec => []ChoicesKept
<1>1. PhpInv => ChoicesKept
  BY DEF PhpInv, CalmInv, Chosen, ChoicesKept
<1> QED BY <1>1, Invariant, PTL

\* For a user who waits, the open popup shows what the php.ini in use says.
THEOREM PopupTellsTruth == Spec => []PopupTrue
<1>1. PhpInv => PopupTrue
  BY DEF PhpInv, CalmInv, PopupShows, PopupTrue
<1> QED BY <1>1, Invariant, PTL

\* For a user who waits, and whose versions.json was there at the first launch,
\* startup never fails on it, and it ends up with the selected version.
THEOREM VersionStays == Spec => []VersionKept
<1>1. PhpInv => VersionKept
  BY SettledBecomes
     DEF PhpInv, TypeInv, TypeOK, CalmInv, FileServes, Quiet, VersionKept
<1> QED BY <1>1, Invariant, PTL

=============================================================================
