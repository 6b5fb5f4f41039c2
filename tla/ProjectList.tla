---------------------------- MODULE ProjectList ----------------------------
(***************************************************************************)
(* What the project list promises to a user who closes ZAMP, or sees it    *)
(* crash, and starts it again: a list with a selection, which only changes *)
(* by adding, removing and selecting, and of which an exit loses nothing   *)
(* once the last change was saved and no other save overlapped it.  An     *)
(* exit during saves gives one of the lists being saved, the one on disk,  *)
(* or an empty list.                                                       *)
(***************************************************************************)
CONSTANTS Projects, None

VARIABLES
  list,     \* the projects and the selected one
  durable,  \* the lists that an exit may leave
  saving    \* the lists saved since saves began to overlap

List == [projects : SUBSET Projects, selected : Projects \cup {None}]

Blank == [projects |-> {}, selected |-> None]

\* A list and its selection fit: nothing is selected only in an empty list.
Sound(l) == IF l.projects = {} THEN l.selected = None ELSE l.selected \in l.projects

Save(l) ==
  /\ list' = l
  /\ durable' = durable \cup {l, Blank}
  /\ saving' = saving \cup {l}

Add(p) ==
  Save([projects |-> list.projects \cup {p},
        selected |-> IF list.selected = None THEN p ELSE list.selected])

\* A selected project that is removed leaves its place to one of the others.
Remove(p) ==
  LET rest == list.projects \ {p} IN
  \E q \in rest \cup {None} :
    /\ q = None <=> rest = {}
    /\ list.selected \in rest => q = list.selected
    /\ Save([projects |-> rest, selected |-> q])

Select(p) == p \in list.projects /\ Save([list EXCEPT !.selected = p])

\* A save goes on, and reduces what an exit may leave.
Advance ==
  /\ saving # {}
  /\ durable' \in (SUBSET durable) \ {{}}
  /\ UNCHANGED <<list, saving>>

\* No save is in flight any more.  A save that overlapped with none that saved
\* something else is on disk.
Settle ==
  /\ saving # {} /\ saving' = {}
  /\ \E l \in IF saving = {list} THEN {list} ELSE durable : durable' = {l}
  /\ UNCHANGED list

\* The app ends and starts again.
Exit ==
  /\ list' \in durable
  /\ durable' = {list'} /\ saving' = {}

\* A launch that finds no list, or none it can read, saves the empty one.
Reset == list = Blank /\ durable = {Blank} /\ Save(Blank)

Init ==
  /\ list \in {l \in List : Sound(l)}
  /\ durable = {list} /\ saving = {}

Next ==
  \/ \E p \in Projects : Add(p) \/ Remove(p) \/ Select(p)
  \/ Advance \/ Settle \/ Exit \/ Reset

Spec == Init /\ [][Next]_<<list, durable, saving>>

=============================================================================
