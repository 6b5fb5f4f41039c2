--------------------------- MODULE JsonFileProofs ---------------------------
(***************************************************************************)
(* Lemmas about the operations of JsonFile, for any values and slots: what *)
(* the writes in flight do to the file while all of them save one value.   *)
(***************************************************************************)
EXTENDS JsonFile, FiniteSetTheorems, TLAPS

\* The states of the file that are no value are three.
LEMMA SpecialFiles ==
  /\ Missing # Empty /\ Missing # Garbled /\ Empty # Garbled
  /\ Missing \notin Values /\ Empty \notin Values /\ Garbled \notin Values
<1>1. ASSUME NEW a, NEW b PROVE Cardinality({a, b}) \in {1, 2}
  <2>1. IsFiniteSet({a}) /\ Cardinality({a}) = 1
    BY FS_Singleton
  <2>2. Cardinality({a} \cup {b}) \in {1, 2}
    BY <2>1, FS_AddElement
  <2>3. {a} \cup {b} = {a, b}
    OBVIOUS
  <2> QED BY <2>2, <2>3
<1>2. \A a, b : {Missing, Empty, Garbled} # {a, b}
  BY <1>1, JsonFileAssumption
<1> QED BY <1>2, JsonFileAssumption

\* New calls of writeAsJson leave the writes well typed.
LEMMA SavesType ==
  ASSUME FileTypeOK, NEW n, NEW v \in Values, Saves(n, v)
  PROVE  /\ writes' \in [Slots -> Write]
         /\ \A i \in Slots : writes'[i].io # "idle" => writes'[i].text \in Values
<1>1. PICK S \in SUBSET Slots :
        writes' = [i \in Slots |-> IF i \in S THEN [io |-> "open", text |-> v]
                                   ELSE writes[i]]
  BY DEF Saves
<1> QED BY <1>1 DEF FileTypeOK, Write

LEMMA SavesBothType ==
  ASSUME FileTypeOK, NEW v \in Values, NEW w \in Values, SavesBoth(v, w)
  PROVE  /\ writes' \in [Slots -> Write]
         /\ \A i \in Slots : writes'[i].io # "idle" => writes'[i].text \in Values
BY DEF SavesBoth, FileTypeOK, Write

LEMMA LoseType ==
  ASSUME FileTypeOK, Lose PROVE FileTypeOK' /\ Settled' /\ UNCHANGED disk
BY DEF Lose, FileTypeOK, NoWrite, Write, Settled, InFlight

LEMMA StepFileType ==
  ASSUME FileTypeOK, WriteStep PROVE FileTypeOK'
<1>1. PICK i \in Slots : OpenFile(i) \/ WriteText(i)
  BY DEF WriteStep
<1>2. CASE OpenFile(i)
  <2>1. writes' \in [Slots -> Write]
    BY <1>2 DEF OpenFile, FileTypeOK, Write
  <2>2. \A k \in Slots : writes'[k].io # "idle" => writes'[k].text \in Values
    BY <1>2 DEF OpenFile, FileTypeOK, Write
  <2> QED BY <1>2, <2>1, <2>2 DEF OpenFile, FileTypeOK
<1>3. CASE WriteText(i)
  <2>1. writes[i].text \in Values
    BY <1>3 DEF WriteText, FileTypeOK
  <2>2. disk' \in Values \cup {Garbled}
    BY <1>3, <2>1 DEF WriteText, Overlays
  <2>3. writes' \in [Slots -> Write]
    BY <1>3 DEF WriteText, FileTypeOK, Write, NoWrite
  <2>4. \A k \in Slots : writes'[k].io # "idle" => writes'[k].text \in Values
    BY <1>3 DEF WriteText, FileTypeOK, Write, NoWrite
  <2> QED BY <2>2, <2>3, <2>4 DEF FileTypeOK
<1> QED BY <1>1, <1>2, <1>3

-----------------------------------------------------------------------------
(* Writes of one value.                                                    *)

\* Every write in flight saves v, and the file says v, or a write has truncated
\* it and is not done, or one is still to open it.
Becomes(v) ==
  /\ \A i \in InFlight : writes[i].text = v
  /\ \/ disk = v
     \/ disk = Empty /\ \E i \in Slots : writes[i].io = "write"
     \/ /\ \E i \in Slots : writes[i].io = "open"
        /\ \A i \in Slots : writes[i].io # "write"

\* When the writes are done the file says v.
LEMMA SettledBecomes ==
  ASSUME NEW v, Becomes(v), Settled PROVE disk = v
BY DEF Becomes, Settled, InFlight

\* No write of v leaves anything but v.
LEMMA StepBecomes ==
  ASSUME FileTypeOK, NEW v \in Values, Becomes(v), WriteStep
  PROVE  Becomes(v)'
<1>1. PICK i \in Slots : OpenFile(i) \/ WriteText(i)
  BY DEF WriteStep
<1>2. CASE OpenFile(i)
  <2>1. /\ disk' = Empty
        /\ writes' = [writes EXCEPT ![i].io = "write"]
        /\ writes[i].text = v
    BY <1>2 DEF OpenFile, Becomes, InFlight
  <2>2. writes'[i].io = "write"
    BY <2>1 DEF FileTypeOK, Write
  <2>3. \A k \in InFlight' : writes'[k].text = v
    BY <2>1 DEF Becomes, InFlight, FileTypeOK, Write
  <2> QED BY <2>1, <2>2, <2>3 DEF Becomes
<1>3. CASE WriteText(i)
  <2>1. /\ writes[i].io = "write" /\ writes[i].text = v
        /\ writes' = [writes EXCEPT ![i] = NoWrite]
    BY <1>3 DEF WriteText, Becomes, InFlight
  <2>2. disk \in {Empty, v}
    BY <2>1 DEF Becomes
  <2>3. disk' = v
    BY <1>3, <2>1, <2>2 DEF WriteText, Overlays
  <2>4. \A k \in InFlight' : writes'[k].text = v
    BY <2>1 DEF Becomes, InFlight, FileTypeOK, NoWrite
  <2> QED BY <2>3, <2>4 DEF Becomes
<1> QED BY <1>1, <1>2, <1>3

\* A call with v where nothing was in flight, or what was saves v too.
LEMMA SavesBecome ==
  ASSUME NEW n \in {1, 2}, NEW v, Saves(n, v), UNCHANGED disk,
         Settled \/ Becomes(v)
  PROVE  Becomes(v)'
<1>1. PICK S \in SUBSET Slots :
        /\ FreeSlots(n, S)
        /\ writes' = [i \in Slots |-> IF i \in S THEN [io |-> "open", text |-> v]
                                      ELSE writes[i]]
  BY DEF Saves
<1>2. PICK s \in S : TRUE
  BY <1>1, FS_EmptySet DEF FreeSlots
<1>3. writes'[s].io = "open"
  BY <1>1, <1>2
<1>4. \A i \in InFlight' : writes'[i].text = v
  BY <1>1 DEF InFlight, Settled, Becomes
<1>5. \A i \in Slots : writes[i].io = "write" => writes'[i] = writes[i]
  BY <1>1 DEF FreeSlots, InFlight
<1>6. \A i \in Slots : writes'[i].io = "write" => writes[i].io = "write"
  BY <1>1
<1>7. CASE Settled
  <2>1. \A i \in Slots : writes'[i].io # "write"
    BY <1>6, <1>7 DEF Settled, InFlight
  <2> QED BY <1>2, <1>3, <1>4, <2>1 DEF Becomes
<1>8. CASE Becomes(v)
  BY <1>2, <1>3, <1>4, <1>5, <1>6, <1>8 DEF Becomes
<1> QED BY <1>7, <1>8

\* Any number of calls, none included, with the value the file says already.
LEMMA SavesAgain ==
  ASSUME NEW n, NEW v, Saves(n, v), UNCHANGED disk, Settled, disk = v
  PROVE  Becomes(v)'
BY DEF Saves, Becomes, Settled, InFlight

=============================================================================
