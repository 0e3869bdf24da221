------------------------------- MODULE Settings -------------------------------
(***************************************************************************)
(* The layered JSON settings store Settings                                *)
(* (src/lib/cooperation/dfmplugin/configs/settings/settings.cpp): values  *)
(* read from a default, a fallback and a writable setting file; writes go *)
(* to the writable layer in memory, mark it dirty, and reach the file     *)
(* through sync(), called by the client, by the single-shot 1 s sync      *)
(* timer of auto-sync, or by the destructor.  With watchChanges a         *)
(* QFileSystemWatcher on the setting file reloads the writable layer from *)
(* disk whenever the file changes, whoever wrote it.                       *)
(*                                                                         *)
(* Every call runs on the thread that owns the object, as do the timer    *)
(* and the watcher (both are moved to that thread), so each operation is  *)
(* one atomic step, and makeSettingFileToDirty takes its same-thread      *)
(* branch; the valueChanged signals an operation emits are delivered    *)
(* within its step.  The default and fallback layers are read-only        *)
(* (nothing here writes their files) and only decide the values value()   *)
(* reports and the notifications.  A setting file is its groups and its   *)
(* entries (group, key) with a value or none; NoFile stands for a        *)
(* missing, empty or unparsable file, all of which load nothing.          *)
(***************************************************************************)
EXTENDS Naturals, Sequences

Seqs == INSTANCE SequencesExt

CONSTANTS
    Groups,     \* setting groups (model values)
    Keys,       \* keys within a group
    Vals,       \* values a key may hold
    Absent,     \* no value for the key
    NoFile,     \* a missing, empty or unparsable setting file
    Outcomes,   \* what a sync's open, write and close may come to:
                \* "ok", "openFail" (file untouched), "shortWrite"
                \* (file truncated and the write cut short), "flushFail"
                \* (the write buffered in full, the flush at close fails)
    DefaultVal, \* defaultData: the value of each entry, or Absent
    FallbackVal,\* fallbackData
    DefaultOrder,  \* the "keyOrdered" list of each group in the
    FallbackOrder  \* "__metadata__" private group of those two files

ASSUME /\ Absent \notin Vals
       /\ Outcomes \subseteq {"ok", "openFail", "shortWrite", "flushFail"} /\ "ok" \in Outcomes

Entries == Groups \X Keys

(* writableData.values: the groups present (a group may be empty after a  *)
(* remove) and the value of each entry.                                    *)
Contents ==
    {c \in [groups : SUBSET Groups, val : [Entries -> Vals \cup {Absent}]] :
        \A e \in Entries : c.val[e] # Absent => e[1] \in c.groups}

Empty == [groups |-> {}, val |-> [e \in Entries |-> Absent]]

ASSUME /\ DefaultVal \in [Entries -> Vals \cup {Absent}]
       /\ FallbackVal \in [Entries -> Vals \cup {Absent}]
       /\ DefaultOrder \in [Groups -> Seq(Keys)]
       /\ FallbackOrder \in [Groups -> Seq(Keys)]

VARIABLES
    writable,   \* writableData.values
    file,       \* the setting file on disk
    dirty,      \* settingFileIsDirty
    autoSync,   \* autoSync
    timer,      \* syncTimer: "none" (nullptr), "idle" or "active"
    watching,   \* watchChanges (settingFileWatcher exists)
    pending,    \* a fileChanged signal of the watcher not yet delivered
    foreign,    \* history: another writer changed the file since memory
                \* last matched it
    emitted     \* the valueChanged(group, key, value) signals of the step

vars == <<writable, file, dirty, autoSync, timer, watching, pending, foreign,
          emitted>>

-----------------------------------------------------------------------------
(* fromJsonFile into an emptied Data: a missing, unreadable, empty or     *)
(* unparsable file leaves it empty; otherwise every group of the object   *)
(* is loaded.                                                              *)
Load(f) == IF f = NoFile THEN Empty ELSE f

(* toJson: every group of writableData.values, empty ones included, as    *)
(* one JSON object; read back by Load it is the same data.                *)
Saved(w) == w

(* Settings::value(group, key, dv): the writable layer, else the         *)
(* fallback, else the default layer, else dv.                             *)
LayerValue(e) ==
    IF FallbackVal[e] # Absent THEN FallbackVal[e] ELSE DefaultVal[e]

ValueOf(w, e, dv) ==
    IF w.val[e] # Absent THEN w.val[e]
    ELSE IF LayerValue(e) # Absent THEN LayerValue(e) ELSE dv

Value(w, e) == ValueOf(w, e, Absent)

(* The signals of remove, removeGroup, clear and of the watcher's reload  *)
(* for the entries es that left the writable layer: each whose value()   *)
(* now differs from the value it had there is announced with the new one. *)
LeftNotices(old, new, es) ==
    {<<e, Value(new, e)>> :
        e \in {x \in es : old.val[x] # Absent /\ Value(new, x) # old.val[x]}}

(* _q_onFileChanged, first loop: an entry of the reloaded layer is        *)
(* announced when it differs from the old writable value, or, when the    *)
(* old layer lacked it, unless the fallback holds the same value or the   *)
(* default layer does.                                                     *)
Announced(old, new, e) ==
    IF old.val[e] # Absent THEN old.val[e] # new.val[e]
    ELSE /\ ~(FallbackVal[e] # Absent /\ FallbackVal[e] = new.val[e])
         /\ DefaultVal[e] # new.val[e]

ReloadNotices(old, new) ==
    {<<e, new.val[e]>> : e \in {x \in Entries : /\ new.val[x] # Absent
                                                /\ Announced(old, new, x)}}
    \cup LeftNotices(old, new, {x \in Entries : new.val[x] = Absent})

(* The read side of the API, on a writable layer w.  A group of a        *)
(* read-only layer is one holding an entry.  contains(group, key) with an *)
(* empty key asks for the group, otherwise for the entry, in any layer.   *)
LayerGroups(layer) == {e[1] : e \in {x \in Entries : layer[x] # Absent}}

Contains(w, g, k) ==
    IF k = ""
    THEN g \in w.groups \cup LayerGroups(FallbackVal) \cup LayerGroups(DefaultVal)
    ELSE \E layer \in {w.val, FallbackVal, DefaultVal} : layer[<<g, k>>] # Absent

\* groups(): the groups of the three layers.
GroupsOf(w) ==
    w.groups \cup LayerGroups(FallbackVal) \cup LayerGroups(DefaultVal)

\* keys(group): the keys the group holds in any of the three layers.
KeysOf(w, g) ==
    {k \in Keys : \E layer \in {w.val, FallbackVal, DefaultVal} :
                      layer[<<g, k>>] # Absent}

\* Variant: an ordered key is listed but not taken out of the set.
TakeOrderedKeeps(acc, k) ==
    IF k \in acc.rest THEN [list |-> Append(acc.list, k), rest |-> acc.rest]
    ELSE acc

(* One step of keyList's loops: a key of the order list still in the set  *)
(* is appended to the list and removed from the set.                       *)
TakeOrdered(acc, k) ==
    IF k \in acc.rest
    THEN [list |-> Append(acc.list, k), rest |-> acc.rest \ {k}]
    ELSE acc

(* keyList(group): the keys of the group in the order of the default      *)
(* file's list, then the fallback's, then the writable file's, then the   *)
(* keys no list names, in QSet order (any order).  toJson writes no       *)
(* private group, so the writable layer's order list is empty.            *)
KeyList(w, g) ==
    LET taken == Seqs!FoldLeft(TakeOrdered,
                          [list |-> <<>>, rest |-> KeysOf(w, g)],
                          DefaultOrder[g] \o FallbackOrder[g] \o <<>>)
    IN taken.list \o Seqs!SetToSeq(taken.rest)

(* Variants with a plausible defect, each defined before the definition   *)
(* it could replace; the properties below must reject them.               *)

\* The value stored without creating its group.
DataSetValueNoGroup(w, e, v) ==
    [groups |-> w.groups, val |-> [w.val EXCEPT ![e] = v]]

\* Data::setValue: the group is created if needed, the entry overwritten.
DataSetValue(w, e, v) ==
    [groups |-> w.groups \cup {e[1]}, val |-> [w.val EXCEPT ![e] = v]]

(* makeSettingFileToDirty(d): nothing when the flag already is d; without *)
(* auto-sync only the flag; with it the sync timer is started on dirty and *)
(* stopped on clean.  The assert and the syncTimer->thread() call assume   *)
(* the timer exists, which is the caller's business (see SetAutoSync).    *)
TimerAfter(t, d) ==
    IF dirty = d \/ ~autoSync THEN t
    ELSE IF d THEN "active" ELSE "idle"

MakeDirty(d) ==
    /\ dirty' = d
    /\ timer' = TimerAfter(timer, d)

(* The file a sync() of a dirty store leaves, for the outcome o: open     *)
(* (WriteOnly) truncates it; file.write puts the JSON in QFile's buffer,  *)
(* or writes it out when it does not fit; close() flushes the buffer.     *)
Written(o) ==
    CASE o = "ok"       -> Saved(writable)
      [] o = "openFail" -> file
      [] OTHER          -> NoFile

(* The effect of sync() on the file and the flags, for an outcome o, with *)
(* the sync timer in state t when it is called.  A clean store returns at *)
(* once; a failed open changes nothing.  The flag is cleared as soon as   *)
(* file.write returns the full size, before file.close() flushes the      *)
(* buffer and with its error ignored: a flush that fails leaves the file  *)
(* truncated and the store clean.  Any change to the file is seen by the  *)
(* watcher.                                                                *)
SyncBody(o, t) ==
    IF ~dirty \/ o = "openFail"
    THEN timer' = t /\ UNCHANGED <<file, dirty, pending, foreign>>
    ELSE /\ file' = Written(o)
         /\ pending' = watching
         /\ IF o = "shortWrite"
            THEN timer' = t /\ UNCHANGED <<dirty, foreign>>
            ELSE /\ dirty' = FALSE
                 /\ timer' = TimerAfter(t, FALSE)
                 /\ foreign' = FALSE

-----------------------------------------------------------------------------
(* The constructor loads the three files; auto-sync and watching are off. *)
Init ==
    /\ file \in Contents \cup {NoFile}
    /\ writable = Load(file)
    /\ dirty = FALSE
    /\ autoSync = FALSE
    /\ timer = "none"
    /\ watching = FALSE
    /\ pending = FALSE
    /\ foreign = FALSE
    /\ emitted = {}

(* setValue / setValueNoNotify: an entry of the writable layer already   *)
(* holding the value is left alone; otherwise the value is stored and the *)
(* store made dirty.  valueChanged is emitted when the entry was in the   *)
(* writable layer, or else when value(group, key, value) differs from     *)
(* the value.                                                              *)
SetValue(e, v) ==
    /\ writable.val[e] # v
    /\ writable' = DataSetValue(writable, e, v)
    /\ MakeDirty(TRUE)
    /\ emitted' = IF writable.val[e] # Absent \/ ValueOf(writable, e, v) # v
                  THEN {<<e, v>>} ELSE {}
    /\ UNCHANGED <<file, autoSync, watching, pending, foreign>>

\* remove(group, key): only an entry of the writable layer; its group stays.
Remove(e) ==
    /\ writable.val[e] # Absent
    /\ writable' = [writable EXCEPT !.val[e] = Absent]
    /\ MakeDirty(TRUE)
    /\ emitted' = LeftNotices(writable, writable', {e})
    /\ UNCHANGED <<file, autoSync, watching, pending, foreign>>

\* removeGroup(group): the group and all its entries.
RemoveGroup(g) ==
    /\ g \in writable.groups
    /\ writable' = [groups |-> writable.groups \ {g},
                    val |-> [e \in Entries |-> IF e[1] = g THEN Absent
                                                ELSE writable.val[e]]]
    /\ MakeDirty(TRUE)
    /\ emitted' = LeftNotices(writable, writable', {g} \X Keys)
    /\ UNCHANGED <<file, autoSync, watching, pending, foreign>>

\* clear(): returns when there is no group at all.
Clear ==
    /\ writable.groups # {}
    /\ writable' = Empty
    /\ MakeDirty(TRUE)
    /\ emitted' = LeftNotices(writable, writable', Entries)
    /\ UNCHANGED <<file, autoSync, watching, pending, foreign>>

(* reload(): both files are read again; the dirty flag and the timer are  *)
(* left as they were.                                                      *)
Reload ==
    /\ writable' = Load(file)
    /\ foreign' = FALSE
    /\ emitted' = {}
    /\ UNCHANGED <<file, dirty, autoSync, timer, watching, pending>>

\* sync() called by the client.
Sync(o) ==
    /\ SyncBody(o, timer)
    /\ emitted' = {}
    /\ UNCHANGED <<writable, autoSync, watching>>

\* The single-shot sync timer fires: it stops and calls sync().
TimerFires(o) ==
    /\ timer = "active"
    /\ SyncBody(o, "idle")
    /\ emitted' = {}
    /\ UNCHANGED <<writable, autoSync, watching>>

(* The state of a newly constructed Settings on setting file f: the       *)
(* writable layer loaded from it, everything else off.                    *)
Construct(f) ==
    /\ file' = f
    /\ writable' = Load(f)
    /\ dirty' = FALSE
    /\ autoSync' = FALSE
    /\ timer' = "none"
    /\ watching' = FALSE
    /\ pending' = FALSE
    /\ foreign' = FALSE
    /\ emitted' = {}

(* setAutoSync(a), when it changes the setting.  Turning it on syncs a    *)
(* dirty store first and creates the (stopped) timer only afterwards; a   *)
(* write that returns the full size (buffered, whether or not the flush   *)
(* would succeed) then clears the flag through makeSettingFileToDirty,    *)
(* which, with autoSync already set, dereferences the still null          *)
(* syncTimer and kills the process.  The JSON is still in QFile's write   *)
(* buffer, the file was truncated by the open: the program that starts    *)
(* again finds an empty setting file.  Turning it off deletes the timer.  *)
SetAutoSync(a, o) ==
    /\ autoSync # a
    /\ emitted' = {}
    /\ IF a
       THEN IF dirty /\ o \in {"ok", "flushFail"}
            THEN Construct(NoFile)
            ELSE /\ autoSync' = TRUE
                 /\ timer' = "idle"
                 /\ IF dirty
                    THEN /\ SyncBody(o, "idle") /\ UNCHANGED writable
                    ELSE UNCHANGED <<writable, file, dirty, pending, foreign>>
                 /\ UNCHANGED watching
       ELSE /\ autoSync' = FALSE
            /\ timer' = "none"
            /\ UNCHANGED <<writable, file, dirty, watching, pending, foreign>>

(* setWatchChanges(w), when it changes the setting.  Turning it on creates *)
(* a missing setting file empty (it still loads nothing) before the       *)
(* watcher exists; turning it off deletes the watcher, and with it a      *)
(* change it had not yet reported.                                        *)
SetWatchChanges(w) ==
    /\ watching # w
    /\ watching' = w
    /\ pending' = FALSE
    /\ emitted' = {}
    /\ UNCHANGED <<writable, file, dirty, autoSync, timer, foreign>>

(* The watcher's fileChanged reaches onFileChanged (_q_onFileChanged):    *)
(* the writable layer is emptied and loaded again from the file, and the  *)
(* store is marked clean, whoever wrote the file.  The valueChanged and   *)
(* valueEdited notifications it computes from the old and new values are  *)
(* not state here.                                                         *)
FileChanged ==
    /\ watching /\ pending
    /\ writable' = Load(file)
    /\ MakeDirty(FALSE)
    /\ emitted' = ReloadNotices(writable, writable')
    /\ pending' = FALSE
    /\ foreign' = FALSE
    /\ UNCHANGED <<file, autoSync, watching>>

(* Another writer (another process using the same setting file, or the    *)
(* user) replaces the file's content.                                      *)
ExternalWrite(c) ==
    /\ file' = c
    /\ pending' = watching
    /\ foreign' = TRUE
    /\ emitted' = {}
    /\ UNCHANGED <<writable, dirty, autoSync, timer, watching>>

(* The program exits and starts again: the destructor stops the timer and *)
(* syncs a dirty store, and the next Settings is constructed from the      *)
(* file the exit left.                                                     *)
Restart(o) ==
    Construct(IF dirty THEN Written(o) ELSE file)

Next ==
    \/ \E e \in Entries, v \in Vals : SetValue(e, v)
    \/ \E e \in Entries : Remove(e)
    \/ \E g \in Groups : RemoveGroup(g)
    \/ Clear
    \/ Reload
    \/ \E o \in Outcomes : Sync(o) \/ TimerFires(o) \/ Restart(o)
    \/ \E a \in BOOLEAN, o \in Outcomes : SetAutoSync(a, o)
    \/ \E w \in BOOLEAN : SetWatchChanges(w)
    \/ FileChanged
    \/ \E c \in Contents \cup {NoFile} : ExternalWrite(c)

(* The single-shot QTimer fires once its second is up while the owning    *)
(* thread's event loop runs, and a queued fileChanged is delivered; the   *)
(* client's calls and the other writers need no fairness.                 *)
Fairness ==
    /\ WF_vars(\E o \in Outcomes : TimerFires(o))
    /\ WF_vars(FileChanged)

Spec == Init /\ [][Next]_vars /\ Fairness

-----------------------------------------------------------------------------
TypeOK ==
    /\ writable \in Contents
    /\ file \in Contents \cup {NoFile}
    /\ dirty \in BOOLEAN /\ autoSync \in BOOLEAN
    /\ timer \in {"none", "idle", "active"}
    /\ watching \in BOOLEAN /\ pending \in BOOLEAN /\ foreign \in BOOLEAN
    /\ emitted \subseteq Entries \X (Vals \cup {Absent})

(* The API's edits of the writable layer.                                 *)
Edit ==
    \/ \E e \in Entries, v \in Vals : SetValue(e, v)
    \/ \E e \in Entries : Remove(e)
    \/ \E g \in Groups : RemoveGroup(g)
    \/ Clear

(* The program exits with unsaved edits and the destructor's sync fails: *)
(* the edits die with the process, and no one can be told.               *)
ExitLoss == dirty /\ \E o \in Outcomes \ {"ok"} : Restart(o)

(* No value changes silently: apart from an explicit reload() and an exit *)
(* whose last sync fails, what value(group, key) reports for an entry     *)
(* changes only through an edit of the API or by taking in a file another *)
(* writer wrote, and always with a valueChanged signal carrying the new   *)
(* value (a program starting on such a file has no one to tell).  So an   *)
(* exit after a sync that reported success, turning on auto-sync, or the *)
(* watcher's report of the store's own (complete or cut-short) write      *)
(* never loses an edit, and no edit, removal or reload leaves a listener  *)
(* with a stale value.                                                     *)
NoSilentChange ==
    [][~Reload /\ ~ExitLoss
       => \A e \in Entries :
            Value(writable', e) # Value(writable, e)
               => /\ Edit \/ foreign
                  /\ \/ <<e, Value(writable', e)>> \in emitted'
                     \/ foreign /\ \E o \in Outcomes : Restart(o)]_vars

(* The read API agrees with itself whatever edits, reloads and restarts   *)
(* came before: keyList(group) names every key of keys(group) exactly once *)
(* even when the default and fallback order lists share keys; a key is    *)
(* in keys(group) exactly when contains(group, key) holds and value()     *)
(* finds it in some layer; and groups() are the groups contains(group,    *)
(* "") reports.                                                            *)
ReadsAgree ==
    /\ GroupsOf(writable) = {g \in Groups : Contains(writable, g, "")}
    /\ \A g \in Groups :
         /\ Seqs!IsInjective(KeyList(writable, g))
         /\ Seqs!ToSet(KeyList(writable, g)) = KeysOf(writable, g)
         /\ \A k \in Keys :
              Contains(writable, g, k) <=> k \in KeysOf(writable, g)
         /\ \A k \in Keys :
              Contains(writable, g, k) <=> Value(writable, <<g, k>>) # Absent

=============================================================================
