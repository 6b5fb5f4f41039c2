------------------------------ MODULE JsonFile ------------------------------
(***************************************************************************)
(* A JSON file that writeAsJson of basic_functions.js writes: config.json, *)
(* versions.json and MariaDB's config.json.  The modules of these parts    *)
(* extend this one and call its operations from their actions.             *)
(*                                                                         *)
(* writeAsJson takes the text when it is called; fs.writeFile then opens   *)
(* the file, which truncates it, and writes.  It is given a callback, so   *)
(* the await in writeAsJson waits for nothing and no caller learns when,   *)
(* or whether, the text is on disk.  Writes in flight interleave.          *)
(***************************************************************************)
EXTENDS Naturals, FiniteSets

CONSTANTS
  Values,   \* the JSON values that are stored
  Missing,  \* there is no file
  Empty,    \* a truncated file
  Garbled,  \* a text followed by the end of a longer one
  Slots     \* slots for writes in flight (bound)

ASSUME JsonFileAssumption ==
  /\ Cardinality({Missing, Empty, Garbled}) = 3
  /\ {Missing, Empty, Garbled} \cap Values = {}
  /\ Slots \subseteq Nat

VARIABLES
  disk,     \* what the file says
  writes    \* the calls of fs.writeFile in flight

Write == [io : {"idle", "open", "write"}, text : Values \cup {Empty}]

NoWrite == [io |-> "idle", text |-> Empty]

InFlight == {i \in Slots : writes[i].io # "idle"}
Settled  == InFlight = {}

\* JSON.parse accepts the text of a single write and nothing else: the empty
\* text and a text with the rest of another behind it are errors.
Readable == disk \in Values

\* The first n slots without a write.
FreeSlots(n, S) ==
  /\ S \subseteq Slots \ InFlight
  /\ Cardinality(S) = n
  /\ \A i \in S, k \in Slots \ InFlight : k < i => k \in S

\* n calls of writeAsJson with the value v, one after the other.
Saves(n, v) ==
  \E S \in SUBSET Slots :
    /\ FreeSlots(n, S)
    /\ writes' = [i \in Slots |->
                    IF i \in S THEN [io |-> "open", text |-> v] ELSE writes[i]]

\* A call with v and, in the same step, one with w.
SavesBoth(v, w) ==
  \E i, k \in Slots :
    /\ i < k /\ FreeSlots(2, {i, k})
    /\ writes' = [writes EXCEPT ![i] = [io |-> "open", text |-> v],
                               ![k] = [io |-> "open", text |-> w]]

\* What a write of the text t leaves where the file says c.  If another write
\* got in after the truncation, and its text was longer, its end is still there.
Overlays(t, c) == IF c \in {Empty, t} THEN {t} ELSE {t, Garbled}

OpenFile(i) ==
  /\ writes[i].io = "open"
  /\ disk' = Empty
  /\ writes' = [writes EXCEPT ![i].io = "write"]

WriteText(i) ==
  /\ writes[i].io = "write"
  /\ disk' \in Overlays(writes[i].text, disk)
  /\ writes' = [writes EXCEPT ![i] = NoWrite]

WriteStep == \E i \in Slots : OpenFile(i) \/ WriteText(i)

\* The app ends: writes in flight stay where they are.
Lose ==
  /\ writes' = [i \in Slots |-> NoWrite]
  /\ UNCHANGED disk

FileInit ==
  /\ disk \in Values \cup {Missing}
  /\ writes = [i \in Slots |-> NoWrite]

FileTypeOK ==
  /\ disk \in Values \cup {Missing, Empty, Garbled}
  /\ writes \in [Slots -> Write]
  /\ \A i \in Slots : writes[i].io # "idle" => writes[i].text \in Values

=============================================================================
